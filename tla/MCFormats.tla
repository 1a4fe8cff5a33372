------------------------------ MODULE MCFormats ------------------------------
(* Inputs around the bounds of every conversion. *)
EXTENDS Formats

MCCosts == {[need |-> 50000, used |-> 48000, storage |-> 0],
            [need |-> 500000, used |-> 60000, storage |-> 300],
            [need |-> 29980000, used |-> 24000000, storage |-> -20],
            [need |-> 1000, used |-> 900, storage |-> 10],
            [need |-> 200000000, used |-> 90000000, storage |-> 3670016]}

(* A wallet's default, a small one, one of a lifetime that is over, zero.  *)
MCOverrides == {Default, [price |-> OneHundredGwei + 7, limit |-> 199999],
                [price |-> OneHundredGwei + 7, limit |-> 1710],
                [price |-> OneHundredGwei - 1, limit |-> 199999],
                [price |-> OneHundredGwei + 7, limit |-> 0]}

MCGasJobs ==
  [gas : {0, 29999, 30000, 270000, 9959999, 9960000, 29669999, 29670000, 29969999, 29970000, 29990016},
   storage : {0, 1, 63, 64, 65, 3670016, 4194304}, raw : {0, 100000, 100001, 350000},
   transfer : BOOLEAN, tip : {0, 1, 9, 10, 30}, validUntil : {1, 200}]

MCNativeGasJobs ==
  [gas : {0, 21000, 21000000}, storage : {0, 1, 64, 65, 959, 960}, validUntil : {0, 1, 29, 30, 31, 200}]

Fields == [type : {"96"}, chainId : {Empty, BigZero, Some}, salt : {Absent, Some},
           nonce : {Absent, Empty, Some}, gasLimit : {Absent, BigZero, Some},
           storageLimit : {Empty, Some}, to : {Absent, Empty, Some},
           value : {Absent, BigZero}, data : {Absent, "0x", Some},
           validUntil : {Absent, Empty, BigZero, Some}, tip : {Absent, Empty},
           accessList : {Absent, Some}, action : {Absent, "Call", "Create"}]

Plain == [type : {Absent, "0", "1", "2", "7"}, chainId : {Some}, salt : {Some}, nonce : {Some},
          gasLimit : {Some}, storageLimit : {Some}, to : {Some}, value : {Some},
          data : {Some}, validUntil : {Some}, tip : {Some}, accessList : {Absent},
          action : {Absent}]

MCTxJobs == [tx : Fields \cup Plain, signed : BOOLEAN]

(* Blocks of up to two extrinsics and one other event, a mark of the       *)
(* runtime before or after the events of each extrinsic.                   *)
Event(m, n, i) == [method |-> m, target |-> "t", gas |-> IF m = "CreatedFailed" THEN 0 ELSE 3,
                   storage |-> IF m = "Created" THEN -1 ELSE 2,
                   logs |-> IF m \in EvmMethods THEN <<<<n, i, 1>>, <<n, i, 2>>>> ELSE <<>>]
Events(ms, n) == [i \in DOMAIN ms |-> Event(ms[i], n, i)]

Histories == {<<>>, <<"Executed">>, <<"CreatedFailed">>, <<"Executed", "Executed">>,
              <<"Executed", "Created">>, <<"Created", "Executed">>}
Ends == {<<"ExtrinsicSuccess">>, <<"ExtrinsicFailed">>, <<"BatchCompleted">>}

Extrinsics(n) ==
  {[hash |-> <<"extrinsic", n>>, call |-> c, fee |-> 100,
    events |-> Events(<<"Paid">> \o h \o e, n)] :
     h \in Histories, e \in Ends, c \in {"evm", "setValidationData"}}

MCBlocks ==
  {[extrinsics |-> xs, events |-> Events(os, 0)] :
     xs \in {<<>>} \cup {<<x>> : x \in Extrinsics(1)}
             \cup {<<x, y>> : x \in Extrinsics(1), y \in Extrinsics(2)},
     os \in {<<>>, <<"Executed">>}}

Hx(id, case) == [id |-> id, case |-> case]
A == Hx("a", "mixed")
a == Hx("a", "lower")
b == Hx("b", "lower")
Parts == {None, One(A), One(b), ListOf(<<>>), ListOf(<<b>>), ListOf(<<b, A>>)}

MCLogJobs ==
  [log : [address : {a, b}, topics : {<<>>, <<A>>, <<b, A>>, <<b, b, b, b>>}, number : {2}],
   filter : [address : Parts, from : {1, 3}, to : {2, 3},
             topics : {<<>>} \cup {<<p>> : p \in Parts} \cup {<<p, q>> : p, q \in Parts}
                      \cup {<<None, One(b), ListOf(<<b>>), One(b), One(A)>>,
                            <<None, None, None, One(A)>>}]]

(* Arguments that pass, two of them replaced by every shape. *)
Fitting(type) ==
  CASE type \in {"block", "block?", "hexNumber", "position"} -> "hexNumber"
    [] type \in {"blockHash", "trasactionHash"} -> "hexHash"
    [] type = "transactionData" -> "hexTx"
    [] type = "address" -> "hexAddress"
    [] type = "flag" -> "true"
    [] type = "eventName" -> "newHeads"
    [] type = "message" -> "text"
    [] OTHER -> "{}"

FittingParams(m) == [i \in DOMAIN Methods[m].schema |-> Fitting(Methods[m].schema[i])]

ParamsOf(m) ==
  {FittingParams(m), Append(FittingParams(m), "hexNumber"), <<>>}
    \cup {[FittingParams(m) EXCEPT ![i] = v, ![j] = w] :
             i, j \in DOMAIN Methods[m].schema, v, w \in Shapes}

MCRequestJobs ==
  UNION {[method : {m}, params : ParamsOf(m), socket : BOOLEAN, known : BOOLEAN,
          fails : MayFail(m)] : m \in DOMAIN Methods}
    \cup [method : {"eth_getCompilers", "eth_sendTransaction", "web3_clientVersion"},
          params : {<<>>}, socket : {TRUE}, known : {TRUE}, fails : {"no"}]
=============================================================================
