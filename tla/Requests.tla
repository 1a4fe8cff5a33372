------------------------------- MODULE Requests -------------------------------
(***************************************************************************)
(* What becomes of a request (eth-rpc-adapter): the method table of the    *)
(* bridge, the validation of its arguments (validate.ts), what the         *)
(* provider makes of the block an accepted request names, and the code the *)
(* router answers an error with (router.ts, errors.ts).  The validation    *)
(* and the provider read a block argument each in its own way.             *)
(*                                                                         *)
(* A JSON value is known by its shape.  The arguments come in an array, the*)
(* provider has an indexer and is not in safe mode.                        *)
(***************************************************************************)
EXTENDS Naturals, Sequences

Tags == {"latest", "earliest", "pending", "finalized", "safe"}
Hex == {"hexNumber",       \* at most 32 bits
        "hexBig",          \* 54 to 64 bits: no safe integer
        "hexAddress", "hexHash",       \* 20 and 32 bytes
        "hexTx"}           \* a raw transaction that parses and has a sender
Strings == Tags \cup Hex \cup {"0x", "text", "newHeads"}
Numbers == {"zero", "number", "negative", "fraction"}
Objects == {"{}", "{gas}", "{blockNumber}", "{blockNumber: 0}", "{blockHash}",
            "{blockNumber, text}"}     \* the latter's blockHash is no hash
Shapes == Strings \cup Numbers \cup Objects \cup {"true", "false", "null", "undefined", "[]"}
IsFalsy(v) == v \in {"zero", "false", "null", "undefined"}

BlockNumberOf(o) == CASE o \in {"{blockNumber}", "{blockNumber, text}"} -> "hexNumber"
                      [] o = "{blockNumber: 0}" -> "zero"
                      [] OTHER -> "undefined"
BlockHashOf(o) == CASE o = "{blockHash}" -> "hexHash"
                    [] o = "{blockNumber, text}" -> "text"
                    [] OTHER -> "undefined"

(***************************************************************************)
(* The bridge: the arguments each method declares, and what the provider   *)
(* does with the block among them: "parsed" unwraps an EIP-1898 object,    *)
(* "raw" does not, "ignored" does not look at it; "logs" takes the hash of *)
(* its object, and nothing else of it is looked at here.                   *)
(***************************************************************************)
M(schema, tag) == [schema |-> schema, tag |-> tag]

InfoMethods ==
  [m \in {"net_indexer", "net_cacheInfo", "net_isSafeMode", "net_health",
          "net_listening", "net_runtimeVersion", "net_version", "eth_blockNumber",
          "eth_chainId"} |-> M(<<>>, "none")]

AccountMethods ==
  [eth_getTransactionCount |-> M(<<"address", "block">>, "parsed"),
   eth_getCode             |-> M(<<"address", "block">>, "parsed"),
   eth_call                |-> M(<<"transaction", "block">>, "parsed"),
   eth_getBalance          |-> M(<<"address", "block">>, "parsed")]

BlockMethods ==
  [eth_getBlockByHash   |-> M(<<"blockHash", "flag">>, "raw"),
   eth_getBlockByNumber |-> M(<<"block", "flag">>, "raw"),
   eth_gasPrice         |-> M(<<>>, "none"),
   eth_accounts         |-> M(<<>>, "none"),
   eth_getStorageAt     |-> M(<<"address", "position", "block">>, "parsed"),
   eth_getBlockTransactionCountByHash   |-> M(<<"blockHash">>, "raw"),
   eth_getBlockTransactionCountByNumber |-> M(<<"block">>, "raw")]

TransactionMethods ==
  [eth_sendRawTransaction    |-> M(<<"transactionData">>, "none"),
   eth_estimateGas           |-> M(<<"transaction", "block?">>, "raw"),
   eth_getEthGas             |-> M(<<"substrateGasParams?">>, "none"),
   eth_getTransactionByHash  |-> M(<<"blockHash">>, "none"),
   eth_getTransactionReceipt |-> M(<<"blockHash">>, "none"),
   eth_sign                  |-> M(<<"address", "message">>, "signer")]

IndexMethods ==
  [eth_getTransactionByBlockHashAndIndex   |-> M(<<"blockHash", "hexNumber">>, "parsed"),
   eth_getTransactionByBlockNumberAndIndex |-> M(<<"block", "hexNumber">>, "parsed"),
   eth_getUncleCountByBlockHash      |-> M(<<"blockHash">>, "ignored"),
   eth_getUncleCountByBlockNumber    |-> M(<<"block">>, "ignored"),
   eth_getUncleByBlockHashAndIndex   |-> M(<<"blockHash", "hexNumber">>, "ignored"),
   eth_getUncleByBlockNumberAndIndex |-> M(<<"block", "hexNumber">>, "ignored"),
   eth_isBlockFinalized              |-> M(<<"block">>, "raw"),
   eth_isTransactionFinalized        |-> M(<<"trasactionHash">>, "none")]

FilterMethods ==
  [eth_newFilter        |-> M(<<"object">>, "none"),
   eth_newBlockFilter   |-> M(<<>>, "none"),
   eth_getFilterChanges |-> M(<<"address">>, "filter"),
   eth_getFilterLogs    |-> M(<<"address">>, "filter"),
   eth_uninstallFilter  |-> M(<<"address">>, "none"),
   eth_getLogs          |-> M(<<"object">>, "logs"),
   eth_subscribe        |-> M(<<"eventName", "object?">>, "socket"),
   eth_unsubscribe      |-> M(<<"address">>, "socket"),
   txpool_content       |-> M(<<>>, "none")]

Methods ==
  [m \in DOMAIN InfoMethods \cup DOMAIN AccountMethods \cup DOMAIN BlockMethods
           \cup DOMAIN TransactionMethods \cup DOMAIN IndexMethods \cup DOMAIN FilterMethods |->
     CASE m \in DOMAIN InfoMethods        -> InfoMethods[m]
       [] m \in DOMAIN AccountMethods     -> AccountMethods[m]
       [] m \in DOMAIN BlockMethods       -> BlockMethods[m]
       [] m \in DOMAIN TransactionMethods -> TransactionMethods[m]
       [] m \in DOMAIN IndexMethods       -> IndexMethods[m]
       [] m \in DOMAIN FilterMethods      -> FilterMethods[m]]

(***************************************************************************)
(* validate.ts: whether an argument passes.                                *)
(***************************************************************************)
ValidateHexNumber(v) == v \in {"hexNumber", "hexBig"}
ValidateBlockHash(v) == v = "hexHash"
ValidateAddress(v) == v = "hexAddress"

(* A number passes whatever it is: the answer of the check is dropped. *)
ValidateBlockString(v) == v \in Numbers \/ v \in Tags \/ ValidateHexNumber(v)

ValidateBlock(v) ==
  IF v \in Objects
  THEN IF ~IsFalsy(BlockNumberOf(v)) THEN ValidateBlockString(BlockNumberOf(v))
       ELSE ValidateBlockHash(BlockHashOf(v))
  ELSE ValidateBlockString(v)

Passes(type, v) ==
  CASE type = "address"             -> ValidateAddress(v)
    [] type = "block"               -> ValidateBlock(v)
    [] type = "block?"              -> IsFalsy(v) \/ ValidateBlock(v)
    [] type \in {"blockHash", "trasactionHash"} -> ValidateBlockHash(v)
    [] type = "hexNumber"           -> ValidateHexNumber(v)
    [] type = "flag"                -> v \in {"true", "false"}
    [] type = "eventName"           -> v = "newHeads"
    [] type = "object"              -> v \in Objects
    [] type = "object?"             -> IsFalsy(v) \/ v \in Objects
    [] type = "substrateGasParams?" -> IsFalsy(v) \/ v \in {"{}", "{gas}"}
    [] type \in {"position", "transactionData", "message"} -> v \in Strings
    [] type = "transaction"         -> TRUE         \* "TODO" in the source

Optional == {"block?", "object?", "substrateGasParams?"}

Validate(schema, params) ==
  /\ Len(params) <= Len(schema)
  /\ \A i \in DOMAIN schema :
       LET v == IF i \in DOMAIN params THEN params[i] ELSE "undefined"
       IN  /\ v = "undefined" => schema[i] \in Optional
           /\ Passes(schema[i], v)

(***************************************************************************)
(* The provider: what a block argument stands for in _getBlockHash, and    *)
(* the code of the error if it stands for nothing.  "fault" is an error    *)
(* that the router has no code for.                                        *)
(***************************************************************************)
ParseNumberFirst(v) ==      \* a slip: validation's order of the two fields
  IF v \in Objects
  THEN IF ~IsFalsy(BlockNumberOf(v)) THEN BlockNumberOf(v) ELSE BlockHashOf(v)
  ELSE v

(* For null and [] the type is also "object". *)
ParseBlockTag(v) ==
  CASE v \in Objects -> IF ~IsFalsy(BlockHashOf(v)) THEN BlockHashOf(v) ELSE BlockNumberOf(v)
    [] v = "null"    -> "fault"
    [] v = "[]"      -> "undefined"
    [] OTHER         -> v

GetBlockHash(v) ==
  CASE v \in Tags \cup {"null", "undefined", "hexNumber", "hexHash", "zero", "number"} -> "block"
    [] v \in {"negative", "fraction", "fault"} -> "fault"    \* at the node, in BigNumber
    [] OTHER                          -> "INVALID_ARGUMENT"

(* The arguments that name a block; eth_estimateGas skips one that is      *)
(* false.                                                                  *)
BlockArgs(schema, params) ==
  {params[i] : i \in {i \in DOMAIN params :
     \/ schema[i] \in {"block", "blockHash"}
     \/ schema[i] = "block?" /\ ~IsFalsy(params[i])}}

Named(m, params) ==
  CASE m.tag = "parsed" -> {ParseBlockTag(v) : v \in BlockArgs(m.schema, params)}
    [] m.tag = "raw"    -> BlockArgs(m.schema, params)
    [] m.tag = "logs"   -> {BlockHashOf(params[1])} \ {"undefined"}
    [] OTHER            -> {}

BlockFaults(m, params) == {GetBlockHash(b) : b \in Named(m, params)} \ {"block"}

(* What else is looked at before anything is asked: a storage position is  *)
(* hex ("0x" is zero), raw data parse (with the code of whatever their     *)
(* bytes stumble over), and null has no properties.                        *)
ArgumentFaults(type, tag, v) ==
  CASE type = "position" /\ v \notin Hex \cup {"0x"}   -> {"INVALID_ARGUMENT"}
    [] type = "transactionData" /\ v \in Hex \ {"hexTx"} -> {"INVALID_ARGUMENT", "fault"}
    [] type = "transactionData" /\ v \notin Hex         -> {"INVALID_ARGUMENT"}
    [] type = "transaction" /\ tag = "parsed" /\ v = "null" -> {"fault"}
    [] type = "substrateGasParams?" /\ v = "null"       -> {"fault"}
    [] OTHER -> {}

(* What is looked at when the block's hash is there: a position has 32     *)
(* bytes at most, an index is a safe integer, and eth_estimateGas looks at *)
(* its block first.                                                        *)
LateFaults(type, tag, v) ==
  CASE type = "position" /\ v = "hexTx"                  -> {"INVALID_ARGUMENT"}
    [] type = "hexNumber" /\ tag = "parsed" /\ v = "hexBig" -> {"fault"}
    [] type = "transaction" /\ tag = "raw" /\ v = "null"  -> {"fault"}
    [] OTHER -> {}

FaultsAmong(Faults(_, _, _), m, params) ==
  UNION {Faults(m.schema[i], m.tag, params[i]) : i \in DOMAIN params}

(* An account's signature needs a signer (index.ts gives none), a          *)
(* subscription a socket.                                                  *)
OtherFaults(m, params, socket) ==
  FaultsAmong(ArgumentFaults, m, params) \cup
  (IF m.tag = "signer" \/ (m.tag = "socket" /\ ~socket) THEN {"fault"} ELSE {})

(***************************************************************************)
(* The router: the answer, or the code of the error.                       *)
(***************************************************************************)
MethodNotFound == "-32601"
InvalidParams == "-32602"
InternalError == "-32603"
OtherError == "6969"

ErrorsOf(faults) == {IF f = "fault" THEN OtherError ELSE InvalidParams : f \in faults}

(* known: the node has the block the request names by number or hash, or   *)
(* the provider the filter.  A number is asked for before the late faults, *)
(* a hash after them; a block that does not exist is an error, but for the *)
(* two methods that turn it into null, and for a receipt's place in one    *)
(* named by its hash, which neither cache nor indexer has.                 *)
NullBlock == {"eth_getBlockByHash", "eth_getBlockByNumber"}
ByIndex == {"eth_getTransactionByBlockHashAndIndex", "eth_getTransactionByBlockNumberAndIndex"}

UnknownNumber(method, params, known) ==
  IF known \/ Named(Methods[method], params) \cap {"hexNumber", "number"} = {} THEN {}
  ELSE IF method \in NullBlock THEN {"null"} ELSE {OtherError}

UnknownHash(method, params, known) ==
  LET m == Methods[method]
  IN  IF known \/ (m.tag # "filter" /\ "hexHash" \notin Named(m, params)) THEN {}
      ELSE IF method \in NullBlock \cup ByIndex THEN {"null"} ELSE {OtherError}

(* How the execution of a call may fail: in the EVM (checkEvmExecutionError*)
(* gives the error a code), in the runtime, or at the transaction pool.    *)
Failures == {"no", "evm", "runtime", "pool"}

MayFail(method) ==
  CASE method \in {"eth_call", "eth_estimateGas"} -> {"no", "evm", "runtime"}
    [] method = "eth_sendRawTransaction"          -> Failures
    [] OTHER                                      -> {"no"}

FailureOf(fails) ==
  CASE fails = "no"             -> {}
    [] fails \in {"evm", "pool"} -> {InternalError}
    [] fails = "runtime"        -> {OtherError}

(* What may be answered: what the first of these has.  Block and arguments *)
(* are looked at side by side: of several faults the first to come up is   *)
(* answered.                                                               *)
Execute(method, params, socket, known, fails) ==
  LET m == Methods[method]
      stages == <<ErrorsOf(BlockFaults(m, params) \cup OtherFaults(m, params, socket)),
                  UnknownNumber(method, params, known),
                  ErrorsOf(FaultsAmong(LateFaults, m, params)),
                  UnknownHash(method, params, known),
                  FailureOf(fails),
                  {"answer"}>>
      ends == {i \in DOMAIN stages : stages[i] # {}}
  IN  stages[CHOOSE i \in ends : \A j \in ends : i <= j]

(* Methods whose arguments nobody looks at. *)
Unchecked == [web3_clientVersion |-> "answer", eth_sendTransaction |-> OtherError]

Respond(method, params, socket, known, fails) ==
  IF method \in DOMAIN Unchecked THEN {Unchecked[method]}
  ELSE IF method \notin DOMAIN Methods THEN {MethodNotFound}
  ELSE IF Methods[method].tag = "socket" /\ ~socket THEN {OtherError}
  ELSE IF ~Validate(Methods[method].schema, params) THEN {InvalidParams}
  ELSE Execute(method, params, socket, known, fails)
=============================================================================
