------------------------------- MODULE TxFormat -------------------------------
(***************************************************************************)
(* The EIP-712 transactions of Acala (packages/eth-transactions): the      *)
(* payload that is signed, the serialized form and its parsing, and the    *)
(* sender that parsing recovers from the signature.                        *)
(*                                                                         *)
(* A field as a caller gives it is a value with a form: absent, an empty   *)
(* value ("" or the number 0, which JavaScript takes for false), the big   *)
(* number zero (which it does not), or some value.  Signing is the pair of *)
(* the signer and what was signed.                                         *)
(***************************************************************************)
Absent == "absent"       \* undefined or null
Empty == "empty"         \* "" or 0: falsy
BigZero == "bigzero"     \* BigNumber 0: truthy
Some == "some"           \* any other value

MaxU32 == "max"          \* MAX_UINT256 of the source, 0xffffffff
Zero == "zero"

Falsy == {Absent, Empty}
Forms == {Absent, Empty, BigZero, Some}

(* A transaction as a caller gives it. *)
TxRecord ==
  [type : {Absent, "0", "1", "2", "7", "96"},
   chainId : Forms, salt : {Absent, Empty, Some}, nonce : Forms, gasLimit : Forms,
   storageLimit : Forms, to : {Absent, Empty, Some}, value : Forms,
   data : {Absent, Empty, "0x", Some}, validUntil : Forms, tip : Forms,
   accessList : {Absent, Empty, Some}, action : {Absent, "Call", "Create"}]

(* BigNumber.from(value || default) *)
NumberOr(form, default) ==
  CASE form \in Falsy -> default
    [] form = BigZero -> Zero
    [] OTHER          -> form

(***************************************************************************)
(* createTransactionPayload: salt and chain must be given.  What a wallet  *)
(* signs, whatever the form a field was given in.  The nonce has no        *)
(* default.                                                                *)
(***************************************************************************)
Throws == [throws |-> TRUE]

CreateTransactionPayload(tx) ==
  IF {tx.salt, tx.chainId} \cap Falsy # {} \/ tx.nonce = Absent THEN Throws
  ELSE [chainId      |-> NumberOr(tx.chainId, Zero),
        salt         |-> tx.salt,
        action       |-> IF tx.action # Absent THEN tx.action
                         ELSE IF tx.to \in Falsy THEN "Create" ELSE "Call",
        to           |-> NumberOr(tx.to, Zero),      \* the zero address
        nonce        |-> IF tx.nonce = Some THEN Some ELSE Zero,
        tip          |-> NumberOr(tx.tip, Zero),
        data         |-> IF tx.data \in Falsy THEN "0x" ELSE tx.data,
        value        |-> NumberOr(tx.value, Zero),
        gasLimit     |-> NumberOr(tx.gasLimit, Zero),
        storageLimit |-> NumberOr(tx.storageLimit, Zero),
        accessList   |-> IF tx.accessList = Absent THEN Empty ELSE tx.accessList,
        validUntil   |-> NumberOr(tx.validUntil, MaxU32)]

SignTransaction(signer, tx) ==
  LET p == CreateTransactionPayload(tx)
  IN  IF p = Throws THEN Throws ELSE [by |-> signer, of |-> p]

TransactionHash(tx) == CreateTransactionPayload(tx)

(* Recovery gives the signer if the payload is the one that was signed,    *)
(* and somebody else's address otherwise.                                  *)
Nobody == "nobody"
NoSignature == [by |-> Nobody, of |-> Throws]

VerifyTransaction(tx, sig) ==
  IF CreateTransactionPayload(tx) = sig.of THEN sig.by ELSE Nobody

(***************************************************************************)
(* serializeEip712: eleven fields, and three of the signature.  A number   *)
(* loses its leading zeros, zero its only one.  "action" is not among      *)
(* them, and an address is not taken for missing when it is empty:         *)
(* getAddress refuses it.                                                  *)
(***************************************************************************)
(* A slip: every number that is left out becomes zero. *)
FormatNumberOrZero(form, default) ==
  LET n == NumberOr(form, Zero) IN IF n = Zero THEN "0x" ELSE n

FormatNumber(form, default) ==
  LET n == NumberOr(form, default) IN IF n = Zero THEN "0x" ELSE n

SerializeEip712(tx, sig) ==
  IF tx.to \in {Empty, BigZero} THEN Throws
  ELSE [fields |-> [chainId      |-> FormatNumber(tx.chainId, Zero),
                    salt         |-> IF tx.salt \in Falsy THEN "0x" ELSE tx.salt,
                    nonce        |-> FormatNumber(tx.nonce, Zero),
                    gasLimit     |-> FormatNumber(tx.gasLimit, Zero),
                    storageLimit |-> FormatNumber(tx.storageLimit, Zero),
                    to           |-> IF tx.to = Absent THEN "0x" ELSE tx.to,
                    value        |-> FormatNumber(tx.value, Zero),
                    data         |-> IF tx.data \in Falsy THEN "0x" ELSE tx.data,
                    validUntil   |-> FormatNumber(tx.validUntil, MaxU32),
                    tip          |-> FormatNumber(tx.tip, Zero),
                    accessList   |-> IF tx.accessList \in Falsy THEN Empty
                                     ELSE tx.accessList],
        sig |-> sig, first |-> "96"]

(* The first byte of a serialized transaction, by its type. *)
SerializeTransaction(tx, sig) ==
  CASE tx.type \in {Absent, "0"} -> [first |-> "rlp", tx |-> tx, sig |-> sig]
    [] tx.type \in {"1", "2"}    -> [first |-> tx.type, tx |-> tx, sig |-> sig]
    [] tx.type = "96"            -> SerializeEip712(tx, sig)
    [] OTHER                     -> Throws

(***************************************************************************)
(* parseTransaction.  Zero comes back as a big number, an empty address as *)
(* null; of what ethers parses only the sender matters.                    *)
(***************************************************************************)
HandleNumber(v) == IF v = "0x" THEN BigZero ELSE v
HandleAddress(v) == IF v = "0x" THEN Absent ELSE v
PlainNumber(v) == IF v = "0x" THEN Empty ELSE v       \* .toNumber() of it

ParseFields(f) ==
  [type         |-> "96",
   chainId      |-> PlainNumber(f.chainId),
   salt         |-> f.salt,
   nonce        |-> PlainNumber(f.nonce),
   gasLimit     |-> HandleNumber(f.gasLimit),
   storageLimit |-> HandleNumber(f.storageLimit),
   to           |-> HandleAddress(f.to),
   value        |-> HandleNumber(f.value),
   data         |-> f.data,
   validUntil   |-> HandleNumber(f.validUntil),
   tip          |-> HandleNumber(f.tip),
   accessList   |-> f.accessList,
   action       |-> Absent,
   hash         |-> Absent,
   from         |-> Absent]

ParseEip712(raw) ==
  LET tx == ParseFields(raw.fields)
  IN  IF raw.sig = NoSignature THEN tx
      ELSE IF CreateTransactionPayload(tx) = Throws THEN Throws
      ELSE [tx EXCEPT !.hash = TransactionHash(tx), !.from = VerifyTransaction(tx, raw.sig)]

ParseTransaction(raw) ==
  CASE raw.first \in {"rlp", "1", "2"} -> [from |-> raw.sig.by]     \* ethers
    [] raw.first = "96"                -> ParseEip712(raw)

CheckSignatureType(raw) ==
  CASE raw.first = "rlp" -> "Ethereum"
    [] raw.first = "1"   -> "Eip2930"
    [] raw.first = "96"  -> "AcalaEip712"
    [] OTHER             -> "unsupported"
=============================================================================
