------------------------------ MODULE LogFilters ------------------------------
(***************************************************************************)
(* Which logs a filter lets through, said three times in the code:         *)
(* filterLog for a subscription, the three filters over cached blocks, and *)
(* the GraphQL filter of the indexer with the topics left to the provider  *)
(* (eth-providers/src/utils/logs.ts, subqlProvider.ts, base-provider.ts).  *)
(*                                                                         *)
(* An address or a topic is [id, case]: hex digits, in some case.          *)
(***************************************************************************)
EXTENDS Naturals, Sequences

(* A part of a filter: left out (or null, or the empty string), one value, *)
(* or a list of them.                                                      *)
None == [kind |-> "none", list |-> <<>>]
One(v) == [kind |-> "one", list |-> <<v>>]
ListOf(s) == [kind |-> "list", list |-> s]

Digits == [id : STRING, case : {"lower", "mixed"}]
Part == [kind : {"none", "one", "list"}, list : Seq(Digits)]
LogRecord == [address : Digits, topics : Seq(Digits), number : Nat]
FilterRecord == [address : Part, topics : Seq(Part), from : Nat, to : Nat]

Lower(v) == [v EXCEPT !.case = "lower"]
LowerAll(s) == {Lower(s[i]) : i \in DOMAIN s}

FilterLogByThreeTopics(log, topics) ==         \* a slip: one topic too few
  \A i \in DOMAIN topics :
    i <= 3 /\ topics[i].list # <<>> =>
      i <= Len(log.topics) /\ Lower(log.topics[i]) \in LowerAll(topics[i].list)

(* Topics are matched by position; a null or an empty list lets everything *)
(* through, a position the log has no topic at nothing else.  Topics after *)
(* the fourth are ignored.                                                 *)
FilterLogByTopics(log, topics) ==
  \A i \in DOMAIN topics :
    i <= 4 /\ topics[i].list # <<>> =>
      i <= Len(log.topics) /\ Lower(log.topics[i]) \in LowerAll(topics[i].list)

FilterLogByAddress(log, address) ==
  address.list # <<>> => Lower(log.address) \in LowerAll(address.list)

FilterLogByBlockNumber(log, from, to) == from <= log.number /\ log.number <= to

(* eth_subscribe has no range. *)
FilterLog(log, filter) ==
  FilterLogByAddress(log, filter.address) /\ FilterLogByTopics(log, filter.topics)

(* _getLogsFromCache *)
CacheLets(log, filter) ==
  /\ FilterLogByBlockNumber(log, filter.from, filter.to)
  /\ FilterLogByAddress(log, filter.address)
  /\ FilterLogByTopics(log, filter.topics)

(* buildLogsGqlFilter: an address that is given becomes a list in which    *)
(* the indexer looks up the log's, without regard to case; the range is    *)
(* always given by _sanitizeRawFilter.                                     *)
BuildLogsGqlFilter(filter) ==
  [inInsensitive |-> IF filter.address.kind = "none" THEN {} ELSE LowerAll(filter.address.list),
   anyAddress    |-> filter.address.kind = "none",
   from |-> filter.from, to |-> filter.to]

IndexerLets(log, gql) ==
  /\ gql.from <= log.number /\ log.number <= gql.to
  /\ gql.anyAddress \/ Lower(log.address) \in gql.inInsensitive

(* getLogs with an indexer. *)
GetLogsLets(log, filter) ==
  IndexerLets(log, BuildLogsGqlFilter(filter)) /\ FilterLogByTopics(log, filter.topics)
=============================================================================
