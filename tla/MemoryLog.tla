------------------------------ MODULE MemoryLog ------------------------------
(***************************************************************************)
(* What the memory tools promise, without connections, transactions or       *)
(* tables: one log of memories that only grows.  A call of memory_save       *)
(* enters its memory whole, with its embedding if it has one, in one step    *)
(* and at most once, and its report says whether it did; a search answers    *)
(* from the log as it is at one moment.                                      *)
(***************************************************************************)
EXTENDS Naturals, Sequences, FiniteSets

CONSTANTS
  Texts, Queries,
  Containing,    \* <<q, t>>: text t contains query q
  Similarity,    \* Similarity[q][t]: how similar a text is to a query
  Dims,          \* dimensions of embeddings
  Limits         \* of a search

VARIABLES
  log,           \* the memories; a memory's id is its place
  calls,         \* the calls of memory_save and what is known of them
  reply          \* output: what a search has just answered

vars == <<log, calls, reply>>

NoReply == [success |-> FALSE, by |-> "none", query |-> "", dims |-> 0, limit |-> 0,
            entries |-> {}]

Init == log = <<>> /\ calls = <<>> /\ reply = NoReply

Quiet == reply' = NoReply

(* The reply is forgotten.                                                   *)
Forget == Quiet /\ UNCHANGED <<log, calls>>

Call ==
  /\ \E t \in Texts : calls' = Append(calls, [text |-> t, status |-> "running", id |-> 0])
  /\ UNCHANGED log /\ Quiet

Running(n) == calls[n].status = "running"
Entered(n) == \E i \in DOMAIN log : log[i].call = n

(* A memory has one embedding or none.                                       *)
Enter(n) ==
  /\ Running(n) /\ ~Entered(n)
  /\ \E dims \in {{}} \cup {{d} : d \in Dims} :
       log' = Append(log, [text |-> calls[n].text, dims |-> dims, call |-> n])
  /\ UNCHANGED calls /\ Quiet

Report(n) ==
  /\ Running(n)
  /\ \E i \in DOMAIN log :
       /\ log[i].call = n
       /\ calls' = [calls EXCEPT ![n].status = "saved", ![n].id = i]
  /\ UNCHANGED log /\ Quiet

(* A call that fails has entered nothing.                                    *)
Fail(n) ==
  /\ Running(n) /\ ~Entered(n)
  /\ calls' = [calls EXCEPT ![n].status = "failed"]
  /\ UNCHANGED log /\ Quiet

(* Whether a call cut short has entered its memory is not known.             *)
Stop ==
  /\ calls' = [n \in DOMAIN calls |->
                 IF Running(n) THEN [calls[n] EXCEPT !.status = "lost"] ELSE calls[n]]
  /\ UNCHANGED log /\ Quiet

Best(S, n, Precedes(_, _)) == {x \in S : Cardinality({y \in S : Precedes(y, x)}) < n}

MoreSimilar(q, i, j) ==
  LET s == Similarity[q][log[i].text]
      t == Similarity[q][log[j].text]
  IN s > t \/ (s = t /\ i > j)

(* The newest memories that contain the query, or the most similar to it of  *)
(* those with an embedding of its dimension.                                 *)
ByKeyword(q, limit) ==
  Best({i \in DOMAIN log : <<q, log[i].text>> \in Containing}, limit, LAMBDA i, j : i > j)
BySimilarity(q, d, limit) ==
  Best({i \in DOMAIN log : d \in log[i].dims}, limit, LAMBDA i, j : MoreSimilar(q, i, j))

Reply(by, q, d, limit, entries) ==
  /\ reply' = [success |-> TRUE, by |-> by, query |-> q, dims |-> d, limit |-> limit,
               entries |-> entries]
  /\ UNCHANGED <<log, calls>>

Search(q, d, limit) ==
  \/ Reply("keyword", q, d, limit, ByKeyword(q, limit))
  \/ Reply("semantic", q, d, limit, BySimilarity(q, d, limit))

Next ==
  \/ Call \/ Stop \/ Forget
  \/ \E n \in DOMAIN calls : Enter(n) \/ Report(n) \/ Fail(n)
  \/ \E q \in Queries, d \in Dims \cup {0}, limit \in Limits : Search(q, d, limit)

Spec == Init /\ [][Next]_vars

==============================================================================
