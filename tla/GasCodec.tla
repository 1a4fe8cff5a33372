------------------------------- MODULE GasCodec -------------------------------
(***************************************************************************)
(* How EVM+ packs a gas limit, a storage limit and a lifetime into the gas *)
(* price and the gas limit of an Ethereum transaction                      *)
(* (eth-providers/src/utils/transactionHelper.ts), and how                 *)
(* _getSubstrateGasParams of base-provider.ts reads them back.  There are  *)
(* two encodings and nothing in a transaction says which one it uses: it   *)
(* is read as the first one unless that gives a negative value.            *)
(*                                                                         *)
(* Gas and storage have their real sizes; prices are scaled, so that they  *)
(* fit TLC's integers.                                                     *)
(***************************************************************************)
EXTENDS Integers

CONSTANTS TenGwei,        \* the unit of a tip in the second encoding
          EntryRange,     \* 2^16: storage entries in the first one's price
          TxFeePerGas, StorageByteDeposit,      \* constants of the runtime
          MaxValidUntil   \* U32_MAX

ASSUME GasCodecAssumption ==
  /\ {TenGwei, EntryRange, StorageByteDeposit, MaxValidUntil} \subseteq Nat \ {0}
  /\ TxFeePerGas \in Nat \ {0} /\ TxFeePerGas % EntryRange = 0

GasMask == 100000
StorageMask == 100
GasLimitChunk == 30000
MaxGasLimitCC == 22
BlockGasLimit == 29990016
BlockStorageLimit == 3670016
OneHundredGwei == 10 * TenGwei

Larger(a, b) == IF a >= b THEN a ELSE b
Smaller(a, b) == IF a <= b THEN a ELSE b

DivRoundUp(x, y) == x \div y + (IF x % y > 0 THEN 1 ELSE 0)

(* Math.ceil(Math.log2(n)) *)
CeilLog2(n) == CHOOSE c \in 0 .. 30 : n <= 2^c /\ (c > 0 => 2^(c - 1) < n)

(***************************************************************************)
(* The first encoding: price = fee + periods of thirty blocks above the    *)
(* storage entries of 64 bytes, and a limit that pays for the entries.     *)
(***************************************************************************)
EntryDeposit == (StorageByteDeposit * 64) \div TxFeePerGas

CalcEthereumTransactionParams(gas, storage, validUntil) ==
  LET entries == DivRoundUp(storage, 64)
  IN  [price |-> TxFeePerGas + DivRoundUp(validUntil, 30) * EntryRange + entries,
       limit |-> EntryDeposit * entries + gas]

CalcSubstrateTransactionParams(price, limit) ==
  LET entries == price % EntryRange
  IN  [gasLimit     |-> limit - EntryDeposit * entries,
       storageLimit |-> entries * 64,
       validUntil   |-> ((price - entries - TxFeePerGas) \div EntryRange) * 30]

(***************************************************************************)
(* The second one: a limit aaaabbbcc, where aaaa stands for the fee, bbb   *)
(* for chunks of gas and cc for the logarithm of the storage, and a price  *)
(* of 100 gwei plus the lifetime, plus ten gwei for each tenth of tip.     *)
(***************************************************************************)
(* A slip: chunks are rounded down. *)
ChunksRoundedDown(gas, isTokenTransfer) ==
  LET bbb == gas \div GasLimitChunk
  IN  IF isTokenTransfer THEN (bbb \div 10 + 1) * 10 ELSE bbb

EncodedChunks(gas, isTokenTransfer) ==
  LET bbb == gas \div GasLimitChunk + 1
  IN  IF isTokenTransfer THEN (bbb \div 10 + 1) * 10 ELSE bbb

(* rawLimit: what the fee is worth at the gas price. *)
EncodeGasLimit(rawLimit, gas, storage, isTokenTransfer) ==
  LET aaaa == IF rawLimit > GasMask THEN rawLimit \div GasMask ELSE 1
      cc == IF storage > 0 THEN CeilLog2(storage) ELSE 0
  IN  aaaa * GasMask + EncodedChunks(gas, isTokenTransfer) * StorageMask + cc

DecodeEthGas(price, limit) ==
  LET bbbcc == limit % GasMask
      tip == Larger(price \div TenGwei - 10, 0)
  IN  [gasLimit     |-> (bbbcc \div StorageMask) * GasLimitChunk,
       storageLimit |-> 2^Smaller(bbbcc % StorageMask, MaxGasLimitCC),
       validUntil   |-> Smaller(price - tip * TenGwei - OneHundredGwei, MaxValidUntil),
       tip          |-> tip]       \* in tenths of price times limit

(***************************************************************************)
(* What a parsed transaction is executed with.  Its fields are big numbers *)
(* once it is parsed, so that none of them is ever missing.                *)
(***************************************************************************)
Refused == [refused |-> TRUE]

GetSubstrateGasParams(tx) ==
  LET v1 == CalcSubstrateTransactionParams(tx.price, tx.limit)
      v2 == DecodeEthGas(tx.price, tx.limit)
  IN  CASE tx.type = 96 ->
             [gasLimit |-> tx.limit, storageLimit |-> tx.storageLimit,
              validUntil |-> tx.validUntil, tip |-> tx.tip, v2 |-> FALSE]
        [] tx.type \in {0, 1} ->
             IF v1.gasLimit >= 0 /\ v1.validUntil >= 0
             THEN [gasLimit |-> v1.gasLimit, storageLimit |-> v1.storageLimit,
                   validUntil |-> v1.validUntil, tip |-> 0, v2 |-> FALSE]
             ELSE [gasLimit |-> v2.gasLimit, storageLimit |-> v2.storageLimit,
                   validUntil |-> v2.validUntil, tip |-> v2.tip, v2 |-> TRUE]
        [] OTHER -> Refused
=============================================================================
