----------------------------- MODULE ToolsProofs -----------------------------
(***************************************************************************)
(* Proofs about what the agents reach outside of the program: the HTTP       *)
(* services (HttpCalls), a file (FileTools) and the display (GuiActions),    *)
(* each for any number of agents and of calls.                               *)
(***************************************************************************)
EXTENDS MCTools, SequenceTheorems, TLAPS

-----------------------------------------------------------------------------
(* The HTTP services of HttpCalls.                                           *)

Ollama == Site("chat")
Places == {"idle", "static", "init", "setup", "perform", "parse"}

ControlType ==
  /\ static \in [Sites -> {"no", "running", "ok", "failed"}]
  /\ pc \in [Workers -> Places]
  /\ kind \in [Workers -> Kinds]
  /\ transfer \in [Workers -> {"ok", "error"}]
  /\ chatted \in [Workers -> BOOLEAN]
  /\ easy \in [Workers -> {0, 1}]
  /\ headers \in [Workers -> {0, 1}]

(* A worker has a handle from EasyInit until a failure or the end of the     *)
(* transfer, and a header list for a part of that time; a search has none.   *)
HandlesInv ==
  \A w \in Workers :
    /\ easy[w] = 1 <=> pc[w] \in {"setup", "perform"}
    /\ headers[w] = 1 => pc[w] \in {"setup", "perform"} /\ kind[w] # "search"
    /\ pc[w] = "perform" /\ kind[w] # "search" => headers[w] = 1

(* A site is initialised by one worker at a time.                            *)
SiteInv ==
  \A w \in Workers : pc[w] = "init" =>
    /\ static[Site(kind[w])] = "running"
    /\ \A v \in Workers : pc[v] = "init" /\ Site(kind[v]) = Site(kind[w]) => v = w

(* What has got past the initialisation of its site found it successful; so  *)
(* did an agent whose chat succeeded, before it may search.                  *)
OrderInv ==
  \A w \in Workers :
    /\ pc[w] \in {"setup", "perform"} => static[Site(kind[w])] = "ok"
    /\ pc[w] = "parse" /\ transfer[w] = "ok" => static[Site(kind[w])] = "ok"
    /\ chatted[w] => static[Ollama] = "ok"
    /\ pc[w] # "idle" /\ kind[w] = "search" => static[Ollama] = "ok"

HttpInv == ControlType /\ HandlesInv /\ SiteInv /\ OrderInv

-----------------------------------------------------------------------------
(* The two sites are apart, and only searches have the second.               *)
LEMMA SiteFacts ==
  /\ Ollama \in Sites
  /\ \A k \in Kinds : Site(k) \in Sites
  /\ \A k \in Kinds : k # "search" => Site(k) = Ollama
  /\ Site("search") # Ollama
BY DEF Ollama, Site, Sites, Kinds

LEMMA Initially == Init => HttpInv
BY SiteFacts DEF Init, HttpInv, ControlType, HandlesInv, SiteInv, OrderInv, Places, Kinds

LEMMA Preserved ==
  ASSUME HttpInv, NEW w \in Workers, Step(w)
  PROVE  HttpInv'
<1> USE SiteFacts DEF HttpInv, Places, Kinds
<1>1. CASE Begin(w)
  <2>1. ControlType'
    BY <1>1 DEF Begin, Goto, ControlType
  <2>2. HandlesInv'
    BY <1>1 DEF Begin, Goto, ControlType, HandlesInv
  <2>3. SiteInv'
    BY <1>1 DEF Begin, Goto, ControlType, SiteInv, OrderInv
  <2>4. OrderInv'
    BY <1>1 DEF Begin, Goto, ControlType, SiteInv, OrderInv
  <2> QED
    BY <2>1, <2>2, <2>3, <2>4
<1>2. CASE Refuse(w)
  <2>1. ControlType'
    BY <1>2 DEF Refuse, Return, Goto, Failed, ControlType
  <2>2. HandlesInv'
    BY <1>2 DEF Refuse, Return, Goto, Failed, ControlType, HandlesInv
  <2>3. SiteInv'
    BY <1>2 DEF Refuse, Return, Goto, Failed, ControlType, SiteInv, OrderInv
  <2>4. OrderInv'
    BY <1>2 DEF Refuse, Return, Goto, Failed, ControlType, SiteInv, OrderInv
  <2> QED
    BY <2>1, <2>2, <2>3, <2>4
<1>3. CASE StartInit(w)
  <2>1. ControlType'
    BY <1>3 DEF StartInit, Goto, ControlType
  <2>2. HandlesInv'
    BY <1>3 DEF StartInit, Goto, ControlType, HandlesInv
  <2>3. SiteInv'
    BY <1>3 DEF StartInit, Goto, ControlType, SiteInv, OrderInv
  <2>4. OrderInv'
    BY <1>3 DEF StartInit, Goto, ControlType, SiteInv, OrderInv
  <2> QED
    BY <2>1, <2>2, <2>3, <2>4
<1>4. CASE GlobalInit(w)
  <2>1. ControlType'
    BY <1>4 DEF GlobalInit, Goto, ControlType
  <2>2. HandlesInv'
    BY <1>4 DEF GlobalInit, Goto, ControlType, HandlesInv
  <2>3. SiteInv'
    BY <1>4 DEF GlobalInit, Goto, ControlType, SiteInv, OrderInv
  <2>4. OrderInv'
    BY <1>4 DEF GlobalInit, Goto, ControlType, SiteInv, OrderInv
  <2> QED
    BY <2>1, <2>2, <2>3, <2>4
<1>5. CASE EasyInit(w)
  <2>1. ControlType'
    BY <1>5 DEF EasyInit, Goto, Abandon, ControlType, HandlesInv
  <2>2. HandlesInv'
    BY <1>5 DEF EasyInit, Goto, Abandon, ControlType, HandlesInv
  <2>3. SiteInv'
    BY <1>5 DEF EasyInit, Goto, Abandon, ControlType, SiteInv, OrderInv
  <2>4. OrderInv'
    BY <1>5 DEF EasyInit, Goto, Abandon, ControlType, SiteInv, OrderInv
  <2> QED
    BY <2>1, <2>2, <2>3, <2>4
<1>6. CASE AddHeaders(w)
  <2>1. ControlType'
    BY <1>6 DEF AddHeaders, ControlType, HandlesInv
  <2>2. HandlesInv'
    BY <1>6 DEF AddHeaders, ControlType, HandlesInv
  <2>3. SiteInv'
    BY <1>6 DEF AddHeaders, ControlType, SiteInv, OrderInv
  <2>4. OrderInv'
    BY <1>6 DEF AddHeaders, ControlType, SiteInv, OrderInv
  <2> QED
    BY <2>1, <2>2, <2>3, <2>4
<1>7. CASE SetupFails(w)
  <2>1. ControlType'
    BY <1>7 DEF SetupFails, Goto, Abandon, ControlType, HandlesInv
  <2>2. HandlesInv'
    BY <1>7 DEF SetupFails, Goto, Abandon, ControlType, HandlesInv
  <2>3. SiteInv'
    BY <1>7 DEF SetupFails, Goto, Abandon, ControlType, SiteInv, OrderInv
  <2>4. OrderInv'
    BY <1>7 DEF SetupFails, Goto, Abandon, ControlType, SiteInv, OrderInv
  <2> QED
    BY <2>1, <2>2, <2>3, <2>4
<1>8. CASE Send(w)
  <2>1. ControlType'
    BY <1>8 DEF Send, Goto, ControlType
  <2>2. HandlesInv'
    BY <1>8 DEF Send, Goto, ControlType, HandlesInv
  <2>3. SiteInv'
    BY <1>8 DEF Send, Goto, ControlType, SiteInv, OrderInv
  <2>4. OrderInv'
    BY <1>8 DEF Send, Goto, ControlType, SiteInv, OrderInv
  <2> QED
    BY <2>1, <2>2, <2>3, <2>4
<1>9. CASE Perform(w)
  <2>1. ControlType'
    BY <1>9 DEF Perform, Goto, ControlType, HandlesInv
  <2>2. HandlesInv'
    BY <1>9 DEF Perform, Goto, ControlType, HandlesInv
  <2>3. SiteInv'
    BY <1>9 DEF Perform, Goto, ControlType, SiteInv, OrderInv
  <2>4. OrderInv'
    BY <1>9 DEF Perform, Goto, ControlType, SiteInv, OrderInv
  <2> QED
    BY <2>1, <2>2, <2>3, <2>4
<1>10. CASE Parse(w)
  <2>1. ControlType'
    BY <1>10 DEF Parse, Return, Goto, Failed, Fields, ControlType
  <2>2. HandlesInv'
    BY <1>10 DEF Parse, Return, Goto, Failed, Fields, ControlType, HandlesInv
  <2>3. SiteInv'
    BY <1>10 DEF Parse, Return, Goto, Failed, Fields, ControlType, SiteInv, OrderInv
  <2>4. OrderInv'
    BY <1>10 DEF Parse, Return, Goto, Failed, Fields, ControlType, SiteInv, OrderInv
  <2> QED
    BY <2>1, <2>2, <2>3, <2>4
<1> QED
  BY <1>1, <1>2, <1>3, <1>4, <1>5, <1>6, <1>7, <1>8, <1>9, <1>10 DEF Step

(* Where each call is, what it holds and which initialisation has run, for   *)
(* any number of agents (ollama_client.cpp:235-330).                         *)
THEOREM HttpInvariance == Spec => []HttpInv
<1>1. HttpInv /\ UNCHANGED vars => HttpInv'
  BY DEF vars, HttpInv, ControlType, HandlesInv, SiteInv, OrderInv
<1>2. HttpInv /\ [Next]_vars => HttpInv'
  BY <1>1, Preserved DEF Next
<1> QED
  BY Initially, <1>2, PTL DEF Spec

(* Every call frees the handle and the header list it got, once, on every    *)
(* path through the transports.                                              *)
THEOREM HandlesFreed == Spec => []HandlesReleased
<1>1. HttpInv => HandlesReleased
  BY DEF HttpInv, ControlType, HandlesInv, HandlesReleased, Places
<1> QED
  BY <1>1, HttpInvariance, PTL

(* No two calls of curl_global_init overlap, whatever the number of agents.  *)
THEOREM InitExclusive == Spec => []InitIsExclusive
<1>1. ASSUME HttpInv, NEW v \in Workers, NEW w \in Workers, pc[v] = "init", pc[w] = "init"
      PROVE  v = w
  <2>1. CASE Site(kind[v]) = Site(kind[w])
    BY <1>1, <2>1 DEF HttpInv, SiteInv
  <2>2. CASE Site(kind[v]) # Site(kind[w])
    <3>1. static[Site(kind[v])] = "running" /\ static[Site(kind[w])] = "running"
      BY <1>1 DEF HttpInv, SiteInv
    <3>2. kind[v] = "search" \/ kind[w] = "search"
      BY <1>1, <2>2, SiteFacts DEF HttpInv, ControlType
    <3>3. Site(kind[v]) = Ollama \/ Site(kind[w]) = Ollama
      BY <1>1, <2>2, <3>2, SiteFacts DEF HttpInv, ControlType
    <3>4. static[Ollama] = "ok"
      BY <1>1, <3>2 DEF HttpInv, OrderInv
    <3> QED
      BY <3>1, <3>3, <3>4
  <2> QED
    BY <2>1, <2>2
<1>2. HttpInv => InitIsExclusive
  BY <1>1 DEF InitIsExclusive
<1> QED
  BY <1>2, HttpInvariance, PTL

-----------------------------------------------------------------------------
(* What servers answer, and that variables about workers are functions.      *)
Answers == [status : {200, 500}, body : Bodies, count : Nat, results : Nat]

DataType ==
  /\ pc \in [Workers -> Places]
  /\ kind \in [Workers -> Kinds]
  /\ reply \in [Workers -> Answers]
  /\ received = [w \in Workers |-> received[w]]
  /\ status = [w \in Workers |-> status[w]]
  /\ response = [w \in Workers |-> response[w]]

(* A call that is over has failed or returned the fields of its own reply,   *)
(* which was whole; curl knows no status before the transfer ends, and then  *)
(* no other.                                                                 *)
ReplyInvOf(w) ==
  /\ pc[w] \notin {"idle", "parse"} => status[w] = 0
  /\ pc[w] = "parse" => status[w] \in {0, reply[w].status}
  /\ pc[w] = "idle" =>
       \/ response[w] = Failed
       \/ /\ response[w] = Fields(reply[w])
          /\ reply[w].status = 200 /\ Readable(w)

ReplyInv == DataType /\ \A w \in Workers : ReplyInvOf(w)

LEMMA RepliesType ==
  ASSUME NEW k \in Kinds, NEW r \in Replies(k)
  PROVE  r \in Answers
BY DEF Replies, Answers

(* What a step of w leaves alone: everything of other workers.               *)
LEMMA OthersKeep ==
  ASSUME DataType, NEW w \in Workers, Step(w), NEW v \in Workers, v # w
  PROVE  UNCHANGED <<pc[v], kind[v], reply[v], received[v], status[v], response[v]>>
<1> USE DEF DataType
<1>1. CASE Begin(w)
  BY <1>1 DEF Begin, Goto
<1>2. CASE Refuse(w)
  BY <1>2 DEF Refuse, Return, Goto
<1>3. CASE StartInit(w)
  BY <1>3 DEF StartInit, Goto
<1>4. CASE GlobalInit(w)
  BY <1>4 DEF GlobalInit, Goto
<1>5. CASE EasyInit(w)
  BY <1>5 DEF EasyInit, Goto, Abandon
<1>6. CASE AddHeaders(w)
  BY <1>6 DEF AddHeaders
<1>7. CASE SetupFails(w)
  BY <1>7 DEF SetupFails, Goto, Abandon
<1>8. CASE Send(w)
  BY <1>8 DEF Send, Goto
<1>9. CASE Perform(w)
  BY <1>9 DEF Perform, Goto
<1>10. CASE Parse(w)
  BY <1>10 DEF Parse, Return, Goto
<1> QED
  BY <1>1, <1>2, <1>3, <1>4, <1>5, <1>6, <1>7, <1>8, <1>9, <1>10 DEF Step

LEMMA ReplyPreserved ==
  ASSUME ReplyInv, NEW w \in Workers, Step(w)
  PROVE  ReplyInv'
<1>1. ASSUME NEW v \in Workers, v # w
      PROVE  ReplyInvOf(v)'
  <2>1. UNCHANGED <<pc[v], kind[v], reply[v], received[v], status[v], response[v]>>
    BY <1>1, OthersKeep DEF ReplyInv
  <2>2. ReplyInvOf(v)
    BY DEF ReplyInv
  <2> QED
    BY <2>1, <2>2 DEF ReplyInvOf, Fields, Readable
<1>2. DataType' /\ ReplyInvOf(w)'
  <2> USE DEF ReplyInv, DataType, Places, Failed
  <2>1. CASE Begin(w)
    <3>1. DataType'
      <4>1. pc' \in [Workers -> Places]
        BY <2>1 DEF Begin, Goto
      <4>2. kind' \in [Workers -> Kinds] /\ reply' \in [Workers -> Answers]
        BY <2>1 DEF Begin, Goto, Kinds, NoReply, Answers, Bodies
      <4>3. /\ received' = [v \in Workers |-> received'[v]]
            /\ status' = [v \in Workers |-> status'[v]]
        BY <2>1 DEF Begin, Goto, Kinds, NoReply, Answers, Bodies
      <4>4. response' = [v \in Workers |-> response'[v]]
        BY <2>1 DEF Begin
      <4> QED
        BY <4>1, <4>2, <4>3, <4>4
    <3>2. ReplyInvOf(w)'
      BY <2>1 DEF Begin, Goto, ReplyInvOf
    <3> QED
      BY <3>1, <3>2
  <2>2. CASE Refuse(w)
    BY <2>2 DEF Refuse, Return, Goto, ReplyInvOf
  <2>3. CASE StartInit(w)
    BY <2>3 DEF StartInit, Goto, ReplyInvOf
  <2>4. CASE GlobalInit(w)
    BY <2>4 DEF GlobalInit, Goto, ReplyInvOf
  <2>5. CASE EasyInit(w)
    <3>1. DataType'
      <4>1. pc' \in [Workers -> Places]
        BY <2>5 DEF EasyInit, Goto, Abandon
      <4>2. kind' \in [Workers -> Kinds] /\ reply' \in [Workers -> Answers]
        BY <2>5 DEF EasyInit, Goto, Abandon
      <4>3. /\ received' = [v \in Workers |-> received'[v]]
            /\ status' = [v \in Workers |-> status'[v]]
        BY <2>5 DEF EasyInit, Goto, Abandon
      <4>4. response' = [v \in Workers |-> response'[v]]
        BY <2>5 DEF EasyInit, Goto, Abandon
      <4> QED
        BY <4>1, <4>2, <4>3, <4>4
    <3>2. ReplyInvOf(w)'
      BY <2>5 DEF EasyInit, Goto, Abandon, ReplyInvOf
    <3> QED
      BY <3>1, <3>2
  <2>6. CASE AddHeaders(w)
    BY <2>6 DEF AddHeaders, ReplyInvOf
  <2>7. CASE SetupFails(w)
    <3>1. DataType'
      <4>1. pc' \in [Workers -> Places]
        BY <2>7 DEF SetupFails, Goto, Abandon
      <4>2. kind' \in [Workers -> Kinds] /\ reply' \in [Workers -> Answers]
        BY <2>7 DEF SetupFails, Goto, Abandon
      <4>3. /\ received' = [v \in Workers |-> received'[v]]
            /\ status' = [v \in Workers |-> status'[v]]
        BY <2>7 DEF SetupFails, Goto, Abandon
      <4>4. response' = [v \in Workers |-> response'[v]]
        BY <2>7 DEF SetupFails, Goto, Abandon
      <4> QED
        BY <4>1, <4>2, <4>3, <4>4
    <3>2. ReplyInvOf(w)'
      BY <2>7 DEF SetupFails, Goto, Abandon, ReplyInvOf
    <3> QED
      BY <3>1, <3>2
  <2>8. CASE Send(w)
    <3>1. PICK r \in Replies(kind[w]) : reply' = [reply EXCEPT ![w] = r]
      BY <2>8 DEF Send
    <3>2. r \in Answers
      BY <3>1, RepliesType
    <3> QED
      BY <2>8, <3>1, <3>2 DEF Send, Goto, ReplyInvOf
  <2>9. CASE Perform(w)
    <3>1. PICK known \in {0, reply[w].status} : status' = [status EXCEPT ![w] = known]
      BY <2>9 DEF Perform
    <3>2. DataType'
      BY <2>9, <3>1 DEF Perform, Goto
    <3>3. ReplyInvOf(w)'
      BY <2>9, <3>1 DEF Perform, Goto, ReplyInvOf
    <3> QED
      BY <3>2, <3>3
  <2>10. CASE Parse(w)
    <3>1. DataType'
      <4>1. pc' \in [Workers -> Places]
        BY <2>10 DEF Parse, Return, Goto
      <4>2. kind' \in [Workers -> Kinds] /\ reply' \in [Workers -> Answers]
        BY <2>10 DEF Parse, Return, Goto
      <4>3. /\ received' = [v \in Workers |-> received'[v]]
            /\ status' = [v \in Workers |-> status'[v]]
        BY <2>10 DEF Parse, Return, Goto
      <4>4. response' = [v \in Workers |-> response'[v]]
        BY <2>10 DEF Parse, Return, Goto
      <4> QED
        BY <4>1, <4>2, <4>3, <4>4
    <3>2. ReplyInvOf(w)'
      BY <2>10 DEF Parse, Return, Goto, ReplyInvOf, Readable, Fields
    <3> QED
      BY <3>1, <3>2
  <2> QED
    BY <2>1, <2>2, <2>3, <2>4, <2>5, <2>6, <2>7, <2>8, <2>9, <2>10 DEF Step
<1> QED
  BY <1>1, <1>2 DEF ReplyInv

LEMMA FieldsOfReply ==
  ASSUME NEW r \in Answers
  PROVE  /\ Fields(r).results <= MaxResults /\ Fields(r).results <= r.results
         /\ r.body = "good" /\ r.count < 2^(Width - 1) => Fields(r).tokens = r.count
BY HttpAssumption DEF Answers, Fields, AtMost, Tokens

(* A success stands for a whole reply of its own request, with a status of   *)
(* success, any 2xx in the code, for which 200 stands here;                  *)
(* an embedding has only numbers in it; a count that fits is taken over from *)
(* a reply without a bad element, and a search has no more results than were *)
(* asked for or came (ollama_client.cpp:190-222).                            *)
THEOREM SuccessWhole == Spec => []SuccessIsWholeReply
<1>1. Init => ReplyInv
  BY DEF Init, ReplyInv, DataType, ReplyInvOf, Places, Kinds, NoReply, Answers, Bodies
<1>2. ReplyInv /\ UNCHANGED vars => ReplyInv'
  BY DEF vars, ReplyInv, DataType, ReplyInvOf, Readable, Fields
<1>3. ReplyInv /\ [Next]_vars => ReplyInv'
  BY <1>2, ReplyPreserved DEF Next
<1>4. ASSUME ReplyInv, NEW w \in Workers, pc[w] = "idle", response[w].success
      PROVE  /\ reply[w].status = 200 /\ received[w] = "whole"
             /\ reply[w].body = "good" \/ (reply[w].body = "badElement" /\ kind[w] # "embed")
             /\ response[w] = Fields(reply[w])
  BY <1>4 DEF ReplyInv, DataType, ReplyInvOf, Failed, Readable, Accepted
<1>5. ReplyInv => SuccessIsWholeReply
  BY <1>4, FieldsOfReply DEF ReplyInv, DataType, SuccessIsWholeReply
<1> QED
  BY <1>1, <1>3, <1>5, PTL DEF Spec

-----------------------------------------------------------------------------
(* The file of FileTools.                                                    *)
FileByte == [by : Workers \cup {None}, call : Nat]
Text == Seq(FileByte)
FilePlaces == {"idle", "inspect", "measure", "open", "read", "parent", "put", "close"}

FileTypes ==
  /\ path \in Inodes \cup {None, Directory}
  /\ data \in [Inodes -> Text]
  /\ filePc \in [Workers -> FilePlaces]
  /\ mode \in [Workers -> {"read", "write", "append"}]
  /\ handle \in [Workers -> Inodes \cup {None, Directory}]
  /\ buffer \in [Workers -> Text] /\ output \in [Workers -> Text] /\ before \in [Workers -> Text]
  /\ good \in [Workers -> BOOLEAN]
  /\ alone \in [Workers -> BOOLEAN] /\ overwritten \in [Workers -> BOOLEAN]
  /\ fileResult \in [Workers -> {"none", "ok", "failed"}]
  /\ fileCalls \in [Workers -> Nat] /\ edits \in Nat

(* The places of a call belong to what it does; only a short text waits in   *)
(* the buffer, and only until close().                                       *)
PlaceOf(c) ==
  /\ filePc[c] \in {"inspect", "measure", "read"} => mode[c] = "read"
  /\ filePc[c] \in {"parent", "put", "close"} => mode[c] # "read"
  /\ filePc[c] \in {"put", "close"} => handle[c] \in Inodes
  /\ filePc[c] \notin {"idle", "close"} => buffer[c] = <<>>
  /\ filePc[c] \in {"inspect", "measure", "parent", "open"} => output[c] = <<>>
  /\ filePc[c] = "close" => buffer[c] \in {<<>>, Files!Content(c)}

Base(c) == IF mode[c] = "append" THEN before[c] ELSE <<>>
Pending(c) == filePc[c] = "put" \/ (filePc[c] = "close" /\ buffer[c] # <<>>)
Flushed(c) == filePc[c] = "close" /\ buffer[c] = <<>> /\ good[c]
Stored(c) == filePc[c] = "idle" /\ fileResult[c] = "ok" /\ mode[c] # "read"
Reading(c) == filePc[c] = "read"
Returned(c) == filePc[c] = "idle" /\ fileResult[c] = "ok" /\ mode[c] = "read"

(* While nobody else changes the file: where the caller's content is, and    *)
(* what a reader has of it.                                                  *)
AloneOf(c) == alone[c] =>
  /\ Pending(c) => path = handle[c] /\ data[path] = Base(c)
  /\ Flushed(c) => path = handle[c] /\ data[path] = Base(c) \o Files!Content(c)
  /\ Stored(c) => path \in Inodes /\ data[path] = Base(c) \o Files!Content(c)
  /\ filePc[c] = "open" /\ mode[c] = "read" => path \in Inodes /\ Len(data[path]) <= MaxReadBytes
  /\ Reading(c) \/ Returned(c) =>
       /\ path \in Inodes /\ path = handle[c] /\ Len(data[path]) <= MaxReadBytes
       /\ Len(output[c]) <= Len(data[path])
       /\ output[c] = SubSeq(data[path], 1, Len(output[c]))

(* An append that has reached the file is in it, and nobody who might write  *)
(* over it is under way.                                                     *)
KeptOf(c) ==
  (Flushed(c) \/ Stored(c)) /\ mode[c] = "append" /\ ~overwritten[c] =>
    /\ path \in Inodes
    /\ \E i \in 1..(Len(data[path]) - 1) : SubSeq(data[path], i, i + 1) = Files!Content(c)
    /\ \A d \in Workers \ {c} : ~Files!Writing(d)

FileInv ==
  FileTypes /\ \A c \in Workers : PlaceOf(c) /\ AloneOf(c) /\ KeptOf(c)

LEMMA TextFacts ==
  /\ <<>> \in Text
  /\ \A t \in Text : Len(t) \in Nat /\ t \o <<>> = t /\ <<>> \o t = t
  /\ \A t, u \in Text : t \o u \in Text
  /\ \A t \in Text : \A b \in FileByte : Append(t, b) \in Text
  /\ \A t \in Text : \A m, n \in Nat : m >= 1 /\ n <= Len(t) => SubSeq(t, m, n) \in Text
  /\ \A t \in Text : SubSeq(t, 1, Len(t)) = t /\ SubSeq(t, 1, 0) = <<>>
<1>1. \A t \in Text : Len(t) \in Nat /\ t \o <<>> = t /\ <<>> \o t = t
  BY ConcatEmptySeq DEF Text
<1>2. \A t, u \in Text : t \o u \in Text
  BY ConcatProperties DEF Text
<1>3. ASSUME NEW t \in Text, NEW m \in Nat, NEW n \in Nat, m >= 1, n <= Len(t)
      PROVE  SubSeq(t, m, n) \in Text
  BY <1>3 DEF Text
<1>4. \A t \in Text : SubSeq(t, 1, Len(t)) = t /\ SubSeq(t, 1, 0) = <<>>
  BY SubSeqFull DEF Text
<1> QED
  BY <1>1, <1>2, <1>3, <1>4 DEF Text

(* Two bytes in a row.                                                       *)
LEMMA PairFacts ==
  ASSUME NEW t \in Text, NEW i \in 1..(Len(t) - 1), NEW b \in FileByte
  PROVE  SubSeq(t, i, i + 1) = <<b, b>> <=> t[i] = b /\ t[i + 1] = b
<1> DEFINE u == SubSeq(t, i, i + 1)
<1>1. i \in 1..Len(t) + 1 /\ i + 1 \in i - 1..Len(t) /\ Len(t) \in Nat
  BY DEF Text
<1>2. /\ u \in Text /\ Len(u) = 2 /\ u[1] = t[i] /\ u[2] = t[i + 1]
  BY <1>1, SubSeqProperties DEF Text
<1> DEFINE p == <<b, b>>
<1>3. p \in Text /\ Len(p) = 2 /\ p[1] = b /\ p[2] = b
  BY DEF Text
<1> HIDE DEF u, p
<1>4. ASSUME u[1] = b, u[2] = b PROVE u = p
  <2>1. \A j \in 1..Len(u) : u[j] = p[j]
    BY <1>2, <1>3, <1>4
  <2> QED
    BY <1>2, <1>3, <2>1, SeqEqual DEF Text
<1> QED
  BY <1>2, <1>3, <1>4 DEF u, p

LEMMA PairKept ==
  ASSUME NEW t \in Text, NEW u \in Text, NEW b \in FileByte,
         \E i \in 1..(Len(t) - 1) : SubSeq(t, i, i + 1) = <<b, b>>
  PROVE  \E i \in 1..(Len(t \o u) - 1) : SubSeq(t \o u, i, i + 1) = <<b, b>>
<1> DEFINE v == t \o u
<1>1. PICK i \in 1..(Len(t) - 1) : SubSeq(t, i, i + 1) = <<b, b>>
  OBVIOUS
<1>2. /\ v \in Text /\ Len(v) = Len(t) + Len(u) /\ Len(t) \in Nat /\ Len(u) \in Nat
      /\ \A j \in 1..Len(t) : v[j] = t[j]
  BY ConcatProperties DEF Text
<1>3. i \in 1..(Len(v) - 1) /\ v[i] = t[i] /\ v[i + 1] = t[i + 1]
  <2> HIDE DEF v
  <2> QED
    BY <1>2
<1> HIDE DEF v
<1>4. SubSeq(v, i, i + 1) = <<b, b>>
  <2>1. t[i] = b /\ t[i + 1] = b
    BY <1>1, PairFacts
  <2>2. v \in Text /\ i \in 1..(Len(v) - 1) /\ v[i] = b /\ v[i + 1] = b
    BY <1>2, <1>3, <2>1
  <2> QED
    BY <2>2, PairFacts
<1> QED
  BY <1>3, <1>4 DEF v

LEMMA PairAdded ==
  ASSUME NEW t \in Text, NEW b \in FileByte
  PROVE  \E i \in 1..(Len(t \o <<b, b>>) - 1) : SubSeq(t \o <<b, b>>, i, i + 1) = <<b, b>>
<1> DEFINE u == <<b, b>>
           v == t \o u
           i == Len(t) + 1
<1>1. u \in Text /\ Len(u) = 2 /\ u[1] = b /\ u[2] = b /\ Len(t) \in Nat
  BY DEF Text
<1> HIDE DEF u
<1>2. v \in Text /\ Len(v) = Len(t) + 2 /\ v[i] = b /\ v[i + 1] = b
  <2>1. /\ v \in Text /\ Len(v) = Len(t) + Len(u)
        /\ \A j \in 1..Len(t) + Len(u) : v[j] = IF j <= Len(t) THEN t[j] ELSE u[j - Len(t)]
    BY <1>1, ConcatProperties DEF Text
  <2> HIDE DEF v
  <2> QED
    BY <1>1, <2>1
<1> HIDE DEF v
<1>3. i \in 1..(Len(v) - 1)
  BY <1>1, <1>2
<1> HIDE DEF i
<1>4. SubSeq(v, i, i + 1) = <<b, b>>
  BY <1>2, <1>3, PairFacts
<1> QED
  BY <1>3, <1>4 DEF v, u

(* One byte more of the same text.                                           *)
LEMMA PrefixGrows ==
  ASSUME NEW t \in Text, NEW u \in Text, Len(u) < Len(t), u = SubSeq(t, 1, Len(u))
  PROVE  /\ Append(u, t[Len(u) + 1]) \in Text
         /\ Len(Append(u, t[Len(u) + 1])) = Len(u) + 1
         /\ Append(u, t[Len(u) + 1]) = SubSeq(t, 1, Len(u) + 1)
<1> DEFINE n == Len(u)
           v == SubSeq(t, 1, n + 1)
           w == Append(u, t[n + 1])
<1>1. n \in Nat /\ Len(t) \in Nat /\ n + 1 \in 1..Len(t)
  BY DEF Text
<1>2. t[n + 1] \in FileByte
  BY <1>1 DEF Text
<1>3. w \in Text /\ Len(w) = n + 1 /\ w[n + 1] = t[n + 1] /\ \A i \in 1..n : w[i] = u[i]
  BY <1>2 DEF Text
<1>4. v \in Text /\ Len(v) = n + 1 /\ \A i \in 1..(n + 1) : v[i] = t[i]
  <2> HIDE DEF n
  <2>1. 1 \in 1..Len(t) + 1 /\ n + 1 \in 1 - 1..Len(t)
    BY <1>1
  <2> QED
    BY <1>1, <2>1, SubSeqProperties DEF Text
<1>5. \A i \in 1..n : u[i] = t[i]
  <2> DEFINE x == SubSeq(t, 1, n)
  <2>1. 1 \in 1..Len(t) + 1 /\ n \in 1 - 1..Len(t)
    BY <1>1
  <2>2. Len(x) = n /\ \A i \in 1..n : x[i] = t[i]
    <3> HIDE DEF n
    <3> QED
      BY <1>1, <2>1, SubSeqProperties DEF Text
  <2>3. u = x
    OBVIOUS
  <2> HIDE DEF n, x
  <2> QED
    BY <2>2, <2>3
<1> HIDE DEF v, w, n
<1>6. \A i \in 1..Len(w) : w[i] = v[i]
  BY <1>1, <1>3, <1>4, <1>5
<1>7. w = v
  BY <1>3, <1>4, <1>6, SeqEqual DEF Text
<1> QED
  BY <1>3, <1>7 DEF n, v, w

LEMMA ContentFacts ==
  ASSUME FileTypes, NEW c \in Workers
  PROVE  /\ Files!Byte(c) \in FileByte /\ Files!Content(c) = <<Files!Byte(c), Files!Byte(c)>>
         /\ Files!Content(c) \in Text /\ Len(Files!Content(c)) = 2
         /\ Base(c) \in Text
<1>1. Files!Byte(c) \in FileByte
  BY DEF FileTypes, FileByte, Files!Byte
<1>2. /\ Files!Content(c) = <<Files!Byte(c), Files!Byte(c)>>
      /\ Files!Content(c) \in Text /\ Len(Files!Content(c)) = 2
  BY <1>1 DEF Text, Files!Content
<1>3. Base(c) \in Text
  BY TextFacts DEF FileTypes, Base
<1> QED
  BY <1>1, <1>2, <1>3

(* A step of c leaves the other calls alone.                                 *)
Untouched(d) ==
  /\ filePc'[d] = filePc[d] /\ mode'[d] = mode[d] /\ fileResult'[d] = fileResult[d]
  /\ fileCalls'[d] = fileCalls[d]
  /\ handle'[d] = handle[d] /\ buffer'[d] = buffer[d] /\ good'[d] = good[d]
  /\ output'[d] = output[d] /\ before'[d] = before[d]

LEMMA UntouchedKeep ==
  ASSUME NEW d \in Workers, Untouched(d)
  PROVE  /\ Files!Content(d)' = Files!Content(d) /\ Base(d)' = Base(d)
         /\ Pending(d)' <=> Pending(d)
         /\ Flushed(d)' <=> Flushed(d)
         /\ Stored(d)' <=> Stored(d)
         /\ Reading(d)' <=> Reading(d)
         /\ Returned(d)' <=> Returned(d)
         /\ Files!Writing(d)' <=> Files!Writing(d)
         /\ PlaceOf(d) => PlaceOf(d)'
BY DEF Untouched, Files!Content, Files!Byte, Base, Pending, Flushed, Stored, Reading, Returned,
       Files!Writing, PlaceOf

LEMMA AloneKept ==
  ASSUME NEW d \in Workers, Untouched(d), AloneOf(d),
         alone'[d] => alone[d] /\ path' = path /\ data' = data
  PROVE  AloneOf(d)'
<1> SUFFICES ASSUME alone'[d] PROVE AloneOf(d)'
  BY DEF AloneOf
<1>1. alone[d] /\ path' = path /\ data' = data
  OBVIOUS
<1>2. /\ Files!Content(d)' = Files!Content(d) /\ Base(d)' = Base(d)
      /\ Pending(d)' <=> Pending(d)
      /\ Flushed(d)' <=> Flushed(d)
      /\ Stored(d)' <=> Stored(d)
      /\ Reading(d)' <=> Reading(d)
      /\ Returned(d)' <=> Returned(d)
  BY UntouchedKeep
<1>3. filePc'[d] = filePc[d] /\ mode'[d] = mode[d] /\ handle'[d] = handle[d] /\ output'[d] = output[d]
  BY DEF Untouched
<1> QED
  BY <1>1, <1>2, <1>3 DEF AloneOf

LEMMA AppendKept ==
  ASSUME FileTypes, NEW d \in Workers, Untouched(d), KeptOf(d),
         ~overwritten'[d] =>
           /\ ~overwritten[d]
           /\ (\A e \in Workers \ {d} : ~Files!Writing(e)) =>
                /\ path \in Inodes => path' = path /\ \E t \in Text : data'[path] = data[path] \o t
                /\ \A e \in Workers \ {d} : ~Files!Writing(e)'
  PROVE  KeptOf(d)'
<1> SUFFICES ASSUME (Flushed(d) \/ Stored(d))', mode'[d] = "append", ~overwritten'[d]
             PROVE  /\ path' \in Inodes
                    /\ \E i \in 1..(Len(data'[path']) - 1) :
                         SubSeq(data'[path'], i, i + 1) = Files!Content(d)'
                    /\ \A e \in Workers \ {d} : ~Files!Writing(e)'
  BY DEF KeptOf
<1>1. (Flushed(d) \/ Stored(d)) /\ mode[d] = "append" /\ ~overwritten[d]
  BY UntouchedKeep DEF Untouched
<1>2. /\ path \in Inodes
      /\ \E i \in 1..(Len(data[path]) - 1) : SubSeq(data[path], i, i + 1) = Files!Content(d)
      /\ \A e \in Workers \ {d} : ~Files!Writing(e)
  BY <1>1 DEF KeptOf
<1>3. PICK t \in Text : data'[path] = data[path] \o t
  BY <1>2
<1>4. path' = path /\ Files!Content(d)' = Files!Content(d)
  BY <1>2, UntouchedKeep
<1>5. data[path] \in Text
  BY <1>2 DEF FileTypes
<1>6. \E i \in 1..(Len(data[path] \o t) - 1) :
        SubSeq(data[path] \o t, i, i + 1) = Files!Content(d)
  <2> DEFINE b == Files!Byte(d)
             s == data[path]
  <2>1. b \in FileByte /\ Files!Content(d) = <<b, b>>
    BY ContentFacts
  <2>2. \E i \in 1..(Len(s) - 1) : SubSeq(s, i, i + 1) = <<b, b>>
    BY <1>2, <2>1
  <2> HIDE DEF b, s
  <2>3. \E i \in 1..(Len(s \o t) - 1) : SubSeq(s \o t, i, i + 1) = <<b, b>>
    BY <1>5, <2>1, <2>2, PairKept DEF s
  <2> QED
    BY <2>1, <2>3 DEF s
<1> QED
  BY <1>2, <1>3, <1>4, <1>6

(* So a step keeps the invariant if it does for the caller whose it is.      *)
Respects(d) ==
  /\ Untouched(d)
  /\ alone'[d] => alone[d] /\ path' = path /\ data' = data
  /\ ~overwritten'[d] =>
       /\ ~overwritten[d]
       /\ (\A e \in Workers \ {d} : ~Files!Writing(e)) =>
            /\ path \in Inodes => path' = path /\ \E t \in Text : data'[path] = data[path] \o t
            /\ \A e \in Workers \ {d} : ~Files!Writing(e)'

LEMMA RespectSuffices ==
  ASSUME FileInv, NEW d \in Workers, Respects(d)
  PROVE  PlaceOf(d)' /\ AloneOf(d)' /\ KeptOf(d)'
<1>1. FileTypes /\ PlaceOf(d) /\ AloneOf(d) /\ KeptOf(d)
  BY DEF FileInv
<1>2. Untouched(d)
  BY DEF Respects
<1>3. PlaceOf(d)'
  BY <1>1, <1>2, UntouchedKeep
<1>4. AloneOf(d)'
  BY <1>1, <1>2, AloneKept DEF Respects
<1>5. KeptOf(d)'
  BY <1>1, <1>2, AppendKept DEF Respects
<1> QED
  BY <1>3, <1>4, <1>5

(* Steps that change no file.                                                *)
SameFiles(c) ==
  /\ path' = path /\ data' = data
  /\ \A d \in Workers \ {c} : Untouched(d) /\ alone'[d] = alone[d] /\ overwritten'[d] = overwritten[d]

LEMMA QuietSteps ==
  ASSUME FileTypes, NEW c \in Workers, SameFiles(c),
         Files!Writing(c)' => Files!Writing(c)
  PROVE  \A d \in Workers \ {c} : Respects(d)
<1> TAKE d \in Workers \ {c}
<1>1. Untouched(d) /\ alone'[d] = alone[d] /\ overwritten'[d] = overwritten[d]
  BY DEF SameFiles
<1>2. path \in Inodes => \E t \in Text : data'[path] = data[path] \o t
  <2> SUFFICES ASSUME path \in Inodes PROVE data'[path] = data[path] \o <<>>
    BY TextFacts
  <2>1. data[path] \in Text
    BY DEF FileTypes
  <2> QED
    BY <2>1, TextFacts DEF SameFiles
<1>3. \A e \in Workers \ {d} : Files!Writing(e)' => Files!Writing(e)
  <2> TAKE e \in Workers \ {d}
  <2>1. CASE e = c
    BY <2>1
  <2>2. CASE e # c
    BY <2>2, UntouchedKeep DEF SameFiles
  <2> QED
    BY <2>1, <2>2
<1> QED
  BY <1>1, <1>2, <1>3 DEF Respects, SameFiles

(* The callers' steps.                                                       *)
CallerStep(c) ==
  /\ FileTypes'
  /\ PlaceOf(c)' /\ AloneOf(c)' /\ KeptOf(c)'
  /\ \A d \in Workers \ {c} : Respects(d)

LEMMA BeginStep ==
  ASSUME FileInv, NEW c \in Workers, Files!Begin(c)
  PROVE  CallerStep(c)
<1> USE DEF Files!fileVars
<1>t. FileTypes /\ PlaceOf(c)
  BY DEF FileInv
<1>1. PICK m \in {"read", "write", "append"} :
        /\ mode' = [mode EXCEPT ![c] = m]
        /\ \/ filePc' = [filePc EXCEPT ![c] = IF m = "read" THEN "inspect" ELSE "parent"]
              /\ fileResult' = fileResult
           \/ filePc' = [filePc EXCEPT ![c] = "idle"] /\ fileResult' = [fileResult EXCEPT ![c] = "failed"]
  BY DEF Files!Begin, Files!Goto, Files!Return
<1>2. /\ fileCalls' = [fileCalls EXCEPT ![c] = @ + 1]
      /\ handle' = [handle EXCEPT ![c] = None] /\ good' = [good EXCEPT ![c] = TRUE]
      /\ buffer' = [buffer EXCEPT ![c] = <<>>] /\ output' = [output EXCEPT ![c] = <<>>]
      /\ alone' = [alone EXCEPT ![c] = TRUE]
      /\ overwritten' = [overwritten EXCEPT ![c] = FALSE]
      /\ before' = [before EXCEPT ![c] = <<>>]
      /\ path' = path /\ data' = data /\ edits' = edits
  BY DEF Files!Begin
<1>3. FileTypes'
  <2>1. /\ filePc' \in [Workers -> FilePlaces] /\ fileResult' \in [Workers -> {"none", "ok", "failed"}]
        /\ mode' \in [Workers -> {"read", "write", "append"}]
    BY <1>t, <1>1 DEF FileTypes, FilePlaces
  <2>2. /\ buffer' \in [Workers -> Text] /\ output' \in [Workers -> Text] /\ before' \in [Workers -> Text]
    BY <1>t, <1>2, TextFacts DEF FileTypes
  <2>3. fileCalls' \in [Workers -> Nat]
    BY <1>t, <1>2 DEF FileTypes
  <2>4. /\ handle' \in [Workers -> Inodes \cup {None, Directory}]
        /\ good' \in [Workers -> BOOLEAN] /\ alone' \in [Workers -> BOOLEAN]
        /\ overwritten' \in [Workers -> BOOLEAN]
    BY <1>t, <1>2 DEF FileTypes
  <2> QED
    BY <1>t, <1>2, <2>1, <2>2, <2>3, <2>4 DEF FileTypes
<1>4. /\ mode'[c] = m /\ buffer'[c] = <<>> /\ output'[c] = <<>>
      /\ \/ filePc'[c] = (IF m = "read" THEN "inspect" ELSE "parent")
         \/ filePc'[c] = "idle" /\ fileResult'[c] = "failed"
  BY <1>t, <1>1, <1>2 DEF FileTypes
<1>5. PlaceOf(c)' /\ AloneOf(c)' /\ KeptOf(c)' /\ ~Files!Writing(c)'
  BY <1>4 DEF PlaceOf, AloneOf, KeptOf, Pending, Flushed, Stored, Reading, Returned, Files!Writing
<1>6. SameFiles(c)
  BY <1>t, <1>1, <1>2 DEF SameFiles, Untouched, FileTypes
<1> QED
  BY <1>t, <1>3, <1>5, <1>6, QuietSteps DEF CallerStep

(* A step of a call that leaves the file and what is noted about it alone.   *)
LEMMA QuietStep ==
  ASSUME FileInv, NEW c \in Workers, FileTypes', SameFiles(c),
         PlaceOf(c)', AloneOf(c)', mode' = mode, filePc'[c] \notin {"put", "close"},
         ~(Stored(c)' /\ mode[c] = "append")
  PROVE  CallerStep(c)
<1>1. FileTypes
  BY DEF FileInv
<1>2. KeptOf(c)' /\ ~Files!Writing(c)'
  BY DEF KeptOf, Flushed, Files!Writing
<1> QED
  BY <1>1, <1>2, QuietSteps DEF CallerStep

LEMMA InspectStep ==
  ASSUME FileInv, NEW c \in Workers, Files!Inspect(c) \/ Files!Measure(c)
  PROVE  CallerStep(c)
<1> USE DEF Files!fileVars, Files!streamVars, Files!historyVars
<1>t. FileTypes /\ PlaceOf(c)
  BY DEF FileInv
<1>1. /\ filePc[c] \in {"inspect", "measure"}
      /\ \/ filePc' = [filePc EXCEPT ![c] = "measure"] /\ fileResult' = fileResult
         \/ /\ filePc' = [filePc EXCEPT ![c] = "open"] /\ fileResult' = fileResult
            /\ path \in Inodes /\ Len(data[path]) <= MaxReadBytes
         \/ filePc' = [filePc EXCEPT ![c] = "idle"] /\ fileResult' = [fileResult EXCEPT ![c] = "failed"]
  BY DEF Files!Inspect, Files!Measure, Files!Goto, Files!Return, Files!Bytes
<1>2. /\ fileCalls' = fileCalls /\ handle' = handle /\ good' = good /\ buffer' = buffer
      /\ output' = output /\ alone' = alone /\ overwritten' = overwritten /\ before' = before
      /\ path' = path /\ data' = data /\ edits' = edits /\ mode' = mode
  BY DEF Files!Inspect, Files!Measure
<1>3. FileTypes'
  BY <1>t, <1>1, <1>2 DEF FileTypes, FilePlaces
<1>4. /\ mode'[c] = "read" /\ buffer'[c] = <<>> /\ output'[c] = <<>>
      /\ \/ filePc'[c] = "measure"
         \/ filePc'[c] = "open" /\ path \in Inodes /\ Len(data[path]) <= MaxReadBytes
         \/ filePc'[c] = "idle" /\ fileResult'[c] = "failed"
  BY <1>t, <1>1, <1>2 DEF FileTypes, PlaceOf
<1>5. PlaceOf(c)' /\ filePc'[c] \notin {"put", "close"} /\ ~Stored(c)'
  BY <1>4 DEF PlaceOf, Stored
<1>7. AloneOf(c)'
  BY <1>2, <1>4 DEF AloneOf, Pending, Flushed, Stored, Reading, Returned
<1>6. SameFiles(c)
  BY <1>t, <1>1, <1>2 DEF SameFiles, Untouched, FileTypes
<1> QED
  BY <1>2, <1>3, <1>5, <1>6, <1>7, QuietStep

LEMMA OpenReadStep ==
  ASSUME FileInv, NEW c \in Workers, Files!OpenRead(c)
  PROVE  CallerStep(c)
<1> USE DEF Files!fileVars, Files!historyVars
<1>t. FileTypes /\ PlaceOf(c) /\ AloneOf(c)
  BY DEF FileInv
<1>1. /\ filePc[c] = "open" /\ mode[c] = "read" /\ handle' = [handle EXCEPT ![c] = path]
      /\ \/ filePc' = [filePc EXCEPT ![c] = "read"] /\ fileResult' = fileResult
         \/ filePc' = [filePc EXCEPT ![c] = "idle"] /\ fileResult' = [fileResult EXCEPT ![c] = "failed"]
  BY DEF Files!OpenRead, Files!Goto, Files!Return
<1>2. /\ fileCalls' = fileCalls /\ good' = good /\ buffer' = buffer
      /\ output' = output /\ alone' = alone /\ overwritten' = overwritten /\ before' = before
      /\ path' = path /\ data' = data /\ edits' = edits /\ mode' = mode
  BY DEF Files!OpenRead
<1>3. FileTypes'
  BY <1>t, <1>1, <1>2 DEF FileTypes, FilePlaces
<1>4. /\ mode'[c] = "read" /\ buffer'[c] = <<>> /\ output'[c] = <<>> /\ handle'[c] = path
      /\ \/ filePc'[c] = "read"
         \/ filePc'[c] = "idle" /\ fileResult'[c] = "failed"
  BY <1>t, <1>1, <1>2 DEF FileTypes, PlaceOf
<1>5. PlaceOf(c)' /\ filePc'[c] \notin {"put", "close"} /\ ~Stored(c)'
  BY <1>4 DEF PlaceOf, Stored
<1>6. SameFiles(c)
  BY <1>t, <1>1, <1>2 DEF SameFiles, Untouched, FileTypes
<1>7. AloneOf(c)'
  <2> SUFFICES ASSUME alone'[c], filePc'[c] = "read" PROVE AloneOf(c)'
    BY <1>4 DEF AloneOf, Pending, Flushed, Stored, Reading, Returned
  <2>1. path \in Inodes /\ Len(data[path]) <= MaxReadBytes
    BY <1>t, <1>1, <1>2 DEF AloneOf
  <2>2. /\ Len(output'[c]) = 0 /\ Len(output'[c]) <= Len(data[path])
        /\ output'[c] = SubSeq(data[path], 1, Len(output'[c]))
    <3>1. Len(data[path]) \in Nat /\ SubSeq(data[path], 1, 0) = <<>>
      BY <1>t, <2>1, TextFacts DEF FileTypes
    <3> QED
      BY <1>4, <3>1
  <2> QED
    BY <1>2, <1>4, <2>1, <2>2 DEF AloneOf, Pending, Flushed, Stored, Reading, Returned
<1> QED
  BY <1>2, <1>3, <1>5, <1>6, <1>7, QuietStep

LEMMA ReadSomeStep ==
  ASSUME FileInv, NEW c \in Workers, Files!ReadSome(c)
  PROVE  CallerStep(c)
<1> USE DEF Files!fileVars, Files!historyVars
<1> DEFINE u == output[c]
           t == data[handle[c]]
<1>t. FileTypes /\ PlaceOf(c) /\ AloneOf(c)
  BY DEF FileInv
<1>1. /\ filePc[c] = "read" /\ handle[c] \in Inodes /\ ~(Len(u) >= Len(t))
      /\ output' = [output EXCEPT ![c] = Append(u, t[Len(u) + 1])]
  BY <1>t DEF Files!ReadSome, Files!AtEnd, Files!Bytes, FileTypes
<1>2. /\ fileCalls' = fileCalls /\ good' = good /\ buffer' = buffer /\ filePc' = filePc
      /\ handle' = handle /\ fileResult' = fileResult
      /\ alone' = alone /\ overwritten' = overwritten /\ before' = before
      /\ path' = path /\ data' = data /\ edits' = edits /\ mode' = mode
  BY DEF Files!ReadSome
<1>3. u \in Text /\ t \in Text /\ Len(u) \in Nat /\ Len(t) \in Nat
  BY <1>t, <1>1, TextFacts DEF FileTypes
<1>4. t[Len(u) + 1] \in FileByte
  BY <1>1, <1>3 DEF Text
<1>5. Append(u, t[Len(u) + 1]) \in Text
  BY <1>3, <1>4, TextFacts
<1> DEFINE v == Append(u, t[Len(u) + 1])
<1> HIDE DEF u, t, v
<1>6. output' = [output EXCEPT ![c] = v] /\ v \in Text /\ output'[c] = v
  BY <1>t, <1>1, <1>5 DEF v, FileTypes
<1>7. FileTypes'
  BY <1>t, <1>2, <1>6 DEF FileTypes
<1>8. PlaceOf(c)' /\ filePc'[c] \notin {"put", "close"} /\ ~Stored(c)'
  BY <1>t, <1>1, <1>2 DEF PlaceOf, Stored
<1>9. SameFiles(c)
  BY <1>t, <1>2, <1>6 DEF SameFiles, Untouched, FileTypes
<1>10. AloneOf(c)'
  <2> SUFFICES ASSUME alone[c] PROVE AloneOf(c)'
    BY <1>2 DEF AloneOf
  <2>1. /\ path \in Inodes /\ path = handle[c] /\ Len(data[path]) <= MaxReadBytes
        /\ u = SubSeq(t, 1, Len(u)) /\ data[path] = t
    BY <1>t, <1>1 DEF AloneOf, Reading, u, t
  <2>2. Len(u) < Len(t)
    BY <1>1, <1>3
  <2>3. Len(v) = Len(u) + 1 /\ v = SubSeq(t, 1, Len(u) + 1)
    BY <1>3, <2>1, <2>2, PrefixGrows DEF v
  <2>4. Len(v) <= Len(t) /\ v = SubSeq(t, 1, Len(v))
    BY <1>3, <2>2, <2>3
  <2> QED
    BY <1>1, <1>2, <1>6, <2>1, <2>4 DEF AloneOf, Pending, Flushed, Stored, Reading, Returned
<1> QED
  BY <1>2, <1>7, <1>8, <1>9, <1>10, QuietStep

LEMMA ReadEndsStep ==
  ASSUME FileInv, NEW c \in Workers, Files!ReadEnds(c)
  PROVE  CallerStep(c)
<1> USE DEF Files!fileVars, Files!streamVars, Files!historyVars
<1>t. FileTypes /\ PlaceOf(c) /\ AloneOf(c)
  BY DEF FileInv
<1>1. /\ filePc[c] = "read"
      /\ filePc' = [filePc EXCEPT ![c] = "idle"] /\ fileResult' = [fileResult EXCEPT ![c] = "ok"]
  BY DEF Files!ReadEnds, Files!Return
<1>2. /\ fileCalls' = fileCalls /\ good' = good /\ buffer' = buffer /\ handle' = handle
      /\ output' = output /\ alone' = alone /\ overwritten' = overwritten /\ before' = before
      /\ path' = path /\ data' = data /\ edits' = edits /\ mode' = mode
  BY DEF Files!ReadEnds
<1>3. FileTypes'
  BY <1>t, <1>1, <1>2 DEF FileTypes, FilePlaces
<1>4. filePc'[c] = "idle" /\ fileResult'[c] = "ok" /\ mode[c] = "read"
  BY <1>t, <1>1 DEF FileTypes, PlaceOf
<1>5. PlaceOf(c)' /\ filePc'[c] \notin {"put", "close"} /\ ~Stored(c)'
  BY <1>2, <1>4 DEF PlaceOf, Stored
<1>6. SameFiles(c)
  BY <1>t, <1>1, <1>2 DEF SameFiles, Untouched, FileTypes
<1>7. AloneOf(c)'
  BY <1>t, <1>1, <1>2, <1>4 DEF AloneOf, Pending, Flushed, Stored, Reading, Returned
<1> QED
  BY <1>2, <1>3, <1>5, <1>6, <1>7, QuietStep

LEMMA PrepareParentStep ==
  ASSUME FileInv, NEW c \in Workers, Files!PrepareParent(c)
  PROVE  CallerStep(c)
<1> USE DEF Files!streamVars, Files!historyVars
<1>t. FileTypes /\ PlaceOf(c)
  BY DEF FileInv
<1>1. /\ filePc[c] = "parent"
      /\ \/ filePc' = [filePc EXCEPT ![c] = "open"] /\ fileResult' = fileResult
         \/ filePc' = [filePc EXCEPT ![c] = "idle"] /\ fileResult' = [fileResult EXCEPT ![c] = "failed"]
  BY DEF Files!PrepareParent, Files!Goto, Files!Return
<1>2. /\ fileCalls' = fileCalls /\ good' = good /\ buffer' = buffer /\ handle' = handle
      /\ output' = output /\ alone' = alone /\ overwritten' = overwritten /\ before' = before
      /\ path' = path /\ data' = data /\ edits' = edits /\ mode' = mode
  BY DEF Files!PrepareParent
<1>3. FileTypes'
  BY <1>t, <1>1, <1>2 DEF FileTypes, FilePlaces
<1>4. /\ mode'[c] # "read" /\ buffer'[c] = <<>> /\ output'[c] = <<>>
      /\ \/ filePc'[c] = "open"
         \/ filePc'[c] = "idle" /\ fileResult'[c] = "failed"
  BY <1>t, <1>1, <1>2 DEF FileTypes, PlaceOf
<1>5. PlaceOf(c)' /\ filePc'[c] \notin {"put", "close"} /\ ~Stored(c)'
  BY <1>4 DEF PlaceOf, Stored
<1>6. SameFiles(c)
  BY <1>t, <1>1, <1>2 DEF SameFiles, Untouched, FileTypes
<1>7. AloneOf(c)'
  BY <1>4 DEF AloneOf, Pending, Flushed, Stored, Reading, Returned
<1> QED
  BY <1>2, <1>3, <1>5, <1>6, <1>7, QuietStep

LEMMA OpenWriteStep ==
  ASSUME FileInv, NEW c \in Workers, Files!OpenWrite(c)
  PROVE  CallerStep(c)
<1> USE DEF Files!historyVars
<1>t. FileTypes /\ PlaceOf(c)
  BY DEF FileInv
<1>1. /\ filePc[c] = "open" /\ mode[c] # "read"
      /\ fileCalls' = fileCalls /\ good' = good /\ buffer' = buffer
      /\ output' = output /\ edits' = edits /\ mode' = mode
  BY DEF Files!OpenWrite
<1>2. CASE /\ filePc' = [filePc EXCEPT ![c] = "idle"]
           /\ fileResult' = [fileResult EXCEPT ![c] = "failed"]
           /\ path' = path /\ data' = data /\ handle' = handle
           /\ before' = before /\ alone' = alone /\ overwritten' = overwritten
  <2>3. FileTypes'
    BY <1>t, <1>1, <1>2 DEF FileTypes, FilePlaces
  <2>4. filePc'[c] = "idle" /\ fileResult'[c] = "failed"
    BY <1>t, <1>2 DEF FileTypes
  <2>5. PlaceOf(c)' /\ AloneOf(c)' /\ filePc'[c] \notin {"put", "close"} /\ ~Stored(c)'
    BY <2>4 DEF PlaceOf, AloneOf, Pending, Flushed, Stored, Reading, Returned
  <2>6. SameFiles(c)
    BY <1>t, <1>1, <1>2 DEF SameFiles, Untouched, FileTypes
  <2> QED
    BY <1>1, <2>3, <2>5, <2>6, QuietStep
<1>3. CASE /\ path # Directory
           /\ path' \in IF path \in Inodes THEN {path} ELSE Files!Free
           /\ data' = IF path = None \/ mode[c] = "write"
                        THEN [data EXCEPT ![path'] = <<>>] ELSE data
           /\ handle' = [handle EXCEPT ![c] = path']
           /\ before' = [before EXCEPT ![c] = data'[path']]
           /\ Files!Changed(c)
           /\ overwritten' = [d \in Workers |-> overwritten[d] \/ (d # c /\ mode[c] = "write")]
           /\ filePc' = [filePc EXCEPT ![c] = "put"] /\ fileResult' = fileResult
  <2>1. /\ path' \in Inodes /\ (path \in Inodes => path' = path)
        /\ path \in Inodes /\ mode[c] # "write" => data' = data
        /\ path = None \/ mode[c] = "write" => data'[path'] = <<>>
        /\ path \in Inodes \/ path = None
    BY <1>t, <1>3, ToolsAssumption DEF FileTypes, Files!Free
  <2>2. data' \in [Inodes -> Text] /\ data'[path'] \in Text
    BY <1>t, <1>3, <2>1, TextFacts DEF FileTypes
  <2>3. /\ alone' = [d \in Workers |-> alone[d] /\ d = c]
    BY <1>3 DEF Files!Changed
  <2>4. before' \in [Workers -> Text] /\ before'[c] = data'[path'] /\ handle'[c] = path'
    BY <1>t, <1>3, <2>2 DEF FileTypes
  <2>5. FileTypes'
    <3>1. handle' \in [Workers -> Inodes \cup {None, Directory}]
      BY <1>t, <1>3, <2>1 DEF FileTypes
    <3>2. alone' \in [Workers -> BOOLEAN] /\ overwritten' \in [Workers -> BOOLEAN]
      BY <1>t, <1>3, <2>3 DEF FileTypes
    <3>3. filePc' \in [Workers -> FilePlaces]
      BY <1>t, <1>3 DEF FileTypes, FilePlaces
    <3> QED
      BY <1>t, <1>1, <1>3, <2>1, <2>2, <2>4, <3>1, <3>2, <3>3 DEF FileTypes
  <2>6. filePc'[c] = "put" /\ buffer'[c] = <<>> /\ output'[c] = <<>> /\ mode'[c] # "read"
    BY <1>t, <1>1, <1>3 DEF FileTypes, PlaceOf
  <2>7. PlaceOf(c)'
    BY <2>1, <2>4, <2>6 DEF PlaceOf
  <2>8. KeptOf(c)'
    BY <2>6 DEF KeptOf, Flushed, Stored
  <2>9. AloneOf(c)'
    <3>1. data'[path'] = Base(c)'
      BY <1>t, <1>1, <2>1, <2>4 DEF Base, FileTypes
    <3> QED
      BY <2>4, <2>6, <3>1 DEF AloneOf, Pending, Flushed, Stored, Reading, Returned
  <2>10. ASSUME NEW d \in Workers \ {c} PROVE Respects(d)
    <3>1. Untouched(d)
      BY <1>t, <1>1, <1>3 DEF Untouched, FileTypes
    <3>2. ~alone'[d] /\ (~overwritten'[d] => ~overwritten[d] /\ mode[c] # "write")
      BY <1>3, <2>3
    <3>3. ASSUME mode[c] # "write", path \in Inodes
          PROVE  path' = path /\ \E t \in Text : data'[path] = data[path] \o t
      <4>1. path' = path /\ data'[path] = data[path] /\ data[path] \in Text
        BY <1>t, <2>1, <3>3 DEF FileTypes
      <4> QED
        BY <4>1, TextFacts
    <3>4. ASSUME mode[c] # "write", NEW e \in Workers \ {d}, ~Files!Writing(e)
          PROVE  ~Files!Writing(e)'
      <4>1. CASE e = c
        BY <1>1, <3>4, <4>1 DEF Files!Writing
      <4>2. CASE e # c
        BY <1>t, <1>1, <1>3, <3>4, <4>2 DEF Files!Writing, FileTypes
      <4> QED
        BY <4>1, <4>2
    <3> QED
      BY <3>1, <3>2, <3>3, <3>4 DEF Respects
  <2> QED
    BY <2>5, <2>7, <2>8, <2>9, <2>10 DEF CallerStep
<1> QED
  BY <1>2, <1>3 DEF Files!OpenWrite, Files!Return, Files!Goto

(* The bytes, or the first of them, reach the file: at its end, or at its    *)
(* start.                                                                    *)
LEMMA WrittenFacts ==
  ASSUME FileTypes, NEW c \in Workers, handle[c] \in Inodes, NEW b \in Text
  PROVE  /\ Files!Written(c, b) \in Text
         /\ mode[c] = "append" => Files!Written(c, b) = data[handle[c]] \o b
         /\ data[handle[c]] = <<>> => Files!Written(c, b) = b
<1> DEFINE old == data[handle[c]]
           rest == SubSeq(old, Len(b) + 1, Len(old))
<1>1. old \in Text /\ Len(old) \in Nat /\ Len(b) \in Nat
  BY TextFacts DEF FileTypes
<1>2. rest \in Text
  <2> HIDE DEF old
  <2>1. Len(b) + 1 \in Nat /\ Len(b) + 1 >= 1
    BY <1>1
  <2> QED
    BY <1>1, <2>1, TextFacts
<1>3. old = <<>> => rest = <<>>
  <2> HIDE DEF old
  <2>1. old = <<>> => Len(old) = 0
    OBVIOUS
  <2>2. Len(old) = 0 => Len(rest) = 0
    BY <1>1 DEF Text
  <2>3. Len(rest) = 0 => rest = <<>>
    <3> HIDE DEF rest
    <3> QED
      BY <1>2 DEF Text
  <2> QED
    BY <2>1, <2>2, <2>3
<1>4. Files!Written(c, b) = IF mode[c] = "append" THEN old \o b ELSE b \o rest
  BY DEF Files!Written
<1>5. old \o b \in Text /\ b \o rest \in Text /\ b \o <<>> = b /\ <<>> \o b = b
  BY <1>1, <1>2, TextFacts
<1> HIDE DEF old, rest
<1>6. /\ Files!Written(c, b) \in Text
      /\ mode[c] = "append" => Files!Written(c, b) = old \o b
      /\ old = <<>> => Files!Written(c, b) = b
  BY <1>3, <1>4, <1>5
<1> QED
  BY <1>6 DEF old

(* What c flushes is there, unless an error was noted; for the others, c has *)
(* changed the file.                                                         *)
LEMMA FlushStep ==
  ASSUME FileInv, NEW c \in Workers, Files!Flush(c, Files!Content(c)),
         Pending(c), ~Pending(c)',
         FileTypes', PlaceOf(c)', filePc'[c] # "read",
         (Flushed(c) \/ Stored(c) \/ Returned(c))' => good'[c],
         mode' = mode /\ handle' = handle /\ path' = path /\ before' = before,
         fileCalls' = fileCalls,
         \A d \in Workers \ {c} : Untouched(d)
  PROVE  CallerStep(c)
<1> DEFINE b == Files!Content(c)
           h == handle[c]
<1>t. FileTypes /\ PlaceOf(c) /\ AloneOf(c) /\ KeptOf(c)
  BY DEF FileInv
<1>1. b \in Text /\ Len(b) = 2 /\ b = <<Files!Byte(c), Files!Byte(c)>> /\ Files!Byte(c) \in FileByte
      /\ Base(c) \in Text
  BY <1>t, ContentFacts
<1>2. /\ filePc[c] \in {"put", "close"} /\ mode[c] \in {"write", "append"} /\ h \in Inodes
  BY <1>t DEF Pending, PlaceOf, FileTypes
<1>3. PICK n \in 0..Len(b) :
        /\ data' = [data EXCEPT ![h] = Files!Written(c, SubSeq(b, 1, n))]
        /\ good'[c] => n = Len(b)
  BY <1>t DEF Files!Flush, FileTypes
<1>4. /\ alone' = [d \in Workers |-> alone[d] /\ d = c]
      /\ overwritten' = [overwritten EXCEPT ![c] =
                           h # path \/ \E d \in Workers \ {c} : Files!Writing(d)]
  BY DEF Files!Flush, Files!Changed
<1> DEFINE part == SubSeq(b, 1, n)
           w == Files!Written(c, part)
<1>5. part \in Text /\ (n = Len(b) => part = b)
  <2> HIDE DEF b
  <2>1. n \in Nat /\ n <= Len(b) /\ 1 \in Nat /\ 1 >= 1
    BY <1>1
  <2> QED
    BY <1>1, <2>1, TextFacts
<1>6. /\ w \in Text
      /\ mode[c] = "append" => w = data[h] \o part
      /\ data[h] = <<>> => w = part
  <2> HIDE DEF part
  <2> QED
    BY <1>t, <1>2, <1>5, WrittenFacts
<1> HIDE DEF w, part, b, h
<1>7. /\ data' = [data EXCEPT ![h] = w] /\ data'[h] = w /\ data[h] \in Text
      /\ \A i \in Inodes : i # h => data'[i] = data[i]
  BY <1>t, <1>2, <1>3 DEF FileTypes, w, part
<1>8. /\ Files!Content(c)' = b /\ Base(c)' = Base(c)
  BY DEF Files!Content, Files!Byte, Base, b
<1>9. AloneOf(c)'
  <2> SUFFICES ASSUME alone'[c], (Flushed(c) \/ Stored(c))', good'[c]
               PROVE  path \in Inodes /\ path = h /\ w = Base(c) \o b
    BY <1>2, <1>7, <1>8, ~Pending(c)' DEF AloneOf, Flushed, Stored, Reading, Returned, h
  <2>1. path = h /\ data[h] = Base(c)
    BY <1>t, <1>4 DEF AloneOf, h
  <2>2. w = Base(c) \o b
    <3>1. part = b
      BY <1>3, <1>5
    <3>2. CASE mode[c] = "append"
      BY <1>6, <2>1, <3>1, <3>2
    <3>3. CASE mode[c] # "append"
      <4>1. Base(c) = <<>>
        BY <3>3 DEF Base
      <4> QED
        BY <1>1, <1>6, <2>1, <3>1, <4>1, TextFacts
    <3> QED
      BY <3>2, <3>3
  <2> QED
    BY <1>2, <2>1, <2>2
<1>10. KeptOf(c)'
  <2> SUFFICES ASSUME (Flushed(c) \/ Stored(c))', mode[c] = "append", ~overwritten'[c]
               PROVE  /\ path \in Inodes
                      /\ \E i \in 1..(Len(data'[path]) - 1) : SubSeq(data'[path], i, i + 1) = b
                      /\ \A d \in Workers \ {c} : ~Files!Writing(d)'
    BY <1>8 DEF KeptOf
  <2>1. path = h /\ \A d \in Workers \ {c} : ~Files!Writing(d)
    BY <1>t, <1>4 DEF FileTypes
  <2>2. \A d \in Workers \ {c} : ~Files!Writing(d)'
    BY <2>1, UntouchedKeep
  <2>3. w = data[h] \o b
    BY <1>3, <1>5, <1>6
  <2> DEFINE x == Files!Byte(c)
  <2>4. b = <<x, x>> /\ x \in FileByte
    BY <1>1
  <2> HIDE DEF x
  <2>5. \E i \in 1..(Len(w) - 1) : SubSeq(w, i, i + 1) = b
    BY <1>7, <2>3, <2>4, PairAdded
  <2> QED
    BY <1>2, <1>7, <2>1, <2>2, <2>5
<1>11. ASSUME NEW d \in Workers \ {c} PROVE Respects(d)
  <2>1. ~alone'[d] /\ overwritten'[d] = overwritten[d]
    BY <1>t, <1>4 DEF FileTypes
  <2>2. ASSUME ~Files!Writing(c), path \in Inodes
        PROVE  \E t \in Text : data'[path] = data[path] \o t
    <3>1. mode[c] = "append"
      BY <1>2, <2>2 DEF Files!Writing
    <3>2. CASE path = h
      BY <1>5, <1>6, <1>7, <3>1, <3>2
    <3>3. CASE path # h
      <4>1. data'[path] = data[path] /\ data[path] \in Text
        BY <1>t, <1>7, <2>2, <3>3 DEF FileTypes
      <4> QED
        BY <4>1, TextFacts
    <3> QED
      BY <3>2, <3>3
  <2>3. ~Files!Writing(c) => ~Files!Writing(c)'
    BY <1>2 DEF Files!Writing
  <2>4. \A e \in Workers \ {c} : ~Files!Writing(e) => ~Files!Writing(e)'
    BY UntouchedKeep
  <2> QED
    BY <2>1, <2>2, <2>3, <2>4 DEF Respects
<1> QED
  BY <1>9, <1>10, <1>11 DEF CallerStep

(* What Flush sets, for the types.                                           *)
LEMMA FlushTypes ==
  ASSUME FileTypes, NEW c \in Workers, handle[c] \in Inodes, Files!Flush(c, Files!Content(c))
  PROVE  /\ data' \in [Inodes -> Text] /\ good' \in [Workers -> BOOLEAN]
         /\ alone' \in [Workers -> BOOLEAN] /\ overwritten' \in [Workers -> BOOLEAN]
         /\ \A d \in Workers \ {c} : good'[d] = good[d]
<1> DEFINE b == Files!Content(c)
<1>1. PICK n \in 0..Len(b) :
        /\ data' = [data EXCEPT ![handle[c]] = Files!Written(c, SubSeq(b, 1, n))]
        /\ \/ good' = [good EXCEPT ![c] = @ /\ n = Len(b)]
           \/ good' = [good EXCEPT ![c] = FALSE]
  BY DEF Files!Flush
<1>2. b \in Text /\ Len(b) = 2
  BY ContentFacts
<1>3. SubSeq(b, 1, n) \in Text
  <2> HIDE DEF b
  <2>1. n \in Nat /\ n <= Len(b) /\ 1 \in Nat /\ 1 >= 1
    BY <1>2
  <2> QED
    BY <1>2, <2>1, TextFacts
<1> DEFINE w == Files!Written(c, SubSeq(b, 1, n))
<1>4. w \in Text
  <2> DEFINE part == SubSeq(b, 1, n)
  <2> HIDE DEF part
  <2>1. part \in Text
    BY <1>3 DEF part
  <2>2. Files!Written(c, part) \in Text
    BY <2>1, WrittenFacts
  <2> QED
    BY <2>2 DEF part
<1> HIDE DEF w, b
<1>5. data' \in [Inodes -> Text]
  <2>1. data' = [data EXCEPT ![handle[c]] = w]
    BY <1>1 DEF w
  <2> QED
    BY <1>4, <2>1 DEF FileTypes
<1>6. good' \in [Workers -> BOOLEAN] /\ \A d \in Workers \ {c} : good'[d] = good[d]
  BY <1>1 DEF FileTypes
<1>7. alone' \in [Workers -> BOOLEAN] /\ overwritten' \in [Workers -> BOOLEAN]
  <2>1. /\ alone' = [d \in Workers |-> alone[d] /\ d = c]
        /\ overwritten' = [overwritten EXCEPT ![c] =
                             handle[c] # path \/ \E d \in Workers \ {c} : Files!Writing(d)]
    BY DEF Files!Flush, Files!Changed
  <2> DEFINE o == handle[c] # path \/ \E d \in Workers \ {c} : Files!Writing(d)
  <2>2. o \in BOOLEAN
    OBVIOUS
  <2> HIDE DEF o
  <2>3. overwritten' = [overwritten EXCEPT ![c] = o]
    BY <2>1 DEF o
  <2>4. alone' \in [Workers -> BOOLEAN]
    BY <2>1 DEF FileTypes
  <2> QED
    BY <2>2, <2>3, <2>4 DEF FileTypes
<1> QED
  BY <1>5, <1>6, <1>7

LEMMA PutStep ==
  ASSUME FileInv, NEW c \in Workers, Files!Put(c)
  PROVE  CallerStep(c)
<1>t. FileTypes /\ PlaceOf(c) /\ AloneOf(c)
  BY DEF FileInv
<1>1. /\ filePc[c] = "put" /\ filePc' = [filePc EXCEPT ![c] = "close"] /\ fileResult' = fileResult
      /\ path' = path /\ mode' = mode /\ handle' = handle /\ output' = output
      /\ fileCalls' = fileCalls /\ edits' = edits /\ before' = before
  BY DEF Files!Put, Files!Goto
<1>2. mode[c] # "read" /\ handle[c] \in Inodes /\ buffer[c] = <<>>
  BY <1>t, <1>1 DEF PlaceOf
<1>3. filePc'[c] = "close" /\ filePc' \in [Workers -> FilePlaces]
  BY <1>t, <1>1 DEF FileTypes, FilePlaces
<1>4. Files!Content(c) \in Text /\ Len(Files!Content(c)) = 2 /\ Files!Content(c)' = Files!Content(c)
  BY <1>t, <1>1, ContentFacts DEF Files!Content, Files!Byte
<1>5. CASE /\ buffer' = [buffer EXCEPT ![c] = Files!Content(c)]
           /\ data' = data /\ good' = good /\ alone' = alone /\ overwritten' = overwritten
  <2>1. buffer'[c] = Files!Content(c) /\ buffer' \in [Workers -> Text] /\ buffer'[c] # <<>>
    <3> DEFINE b == Files!Content(c)
    <3>1. b # <<>> /\ b \in Text /\ buffer' = [buffer EXCEPT ![c] = b]
      <4>1. Len(b) = 2
        BY <1>4
      <4> HIDE DEF b
      <4>2. b # <<>>
        BY <4>1
      <4> QED
        BY <1>4, <1>5, <4>2 DEF b
    <3> HIDE DEF b
    <3>2. buffer'[c] = b /\ buffer' \in [Workers -> Text]
      BY <1>t, <3>1 DEF FileTypes
    <3> QED
      BY <3>1, <3>2 DEF b
  <2>2. FileTypes'
    BY <1>t, <1>1, <1>3, <1>5, <2>1 DEF FileTypes
  <2>3. PlaceOf(c)'
    BY <1>1, <1>2, <1>3, <1>4, <2>1 DEF PlaceOf
  <2>4. KeptOf(c)'
    BY <1>3, <2>1 DEF KeptOf, Flushed, Stored
  <2>5. AloneOf(c)'
    BY <1>t, <1>1, <1>3, <1>5, <2>1 DEF AloneOf, Base, Pending, Flushed, Stored, Reading, Returned
  <2>6. SameFiles(c) /\ (Files!Writing(c)' => Files!Writing(c))
    BY <1>t, <1>1, <1>5 DEF SameFiles, Untouched, FileTypes, Files!Writing
  <2> QED
    BY <1>t, <2>2, <2>3, <2>4, <2>5, <2>6, QuietSteps DEF CallerStep
<1>6. CASE Files!Flush(c, Files!Content(c)) /\ buffer' = buffer
  <2>1. /\ data' \in [Inodes -> Text] /\ good' \in [Workers -> BOOLEAN]
        /\ alone' \in [Workers -> BOOLEAN] /\ overwritten' \in [Workers -> BOOLEAN]
        /\ \A d \in Workers \ {c} : good'[d] = good[d]
    BY <1>t, <1>2, <1>6, FlushTypes
  <2>2. FileTypes'
    BY <1>t, <1>1, <1>3, <1>6, <2>1 DEF FileTypes
  <2>3. PlaceOf(c)'
    BY <1>1, <1>2, <1>3, <1>6 DEF PlaceOf
  <2>4. /\ Pending(c) /\ ~Pending(c)'
        /\ (Flushed(c) \/ Stored(c) \/ Returned(c))' => good'[c]
    BY <1>1, <1>2, <1>3, <1>6 DEF Pending, Flushed, Stored, Returned
  <2>5. \A d \in Workers \ {c} : Untouched(d)
    BY <1>t, <1>1, <1>6, <2>1 DEF Untouched, FileTypes
  <2> QED
    BY <1>1, <1>3, <1>6, <2>2, <2>3, <2>4, <2>5, FlushStep
<1> QED
  BY <1>5, <1>6 DEF Files!Put

LEMMA CloseStep ==
  ASSUME FileInv, NEW c \in Workers, Files!Close(c)
  PROVE  CallerStep(c)
<1>t. FileTypes /\ PlaceOf(c) /\ AloneOf(c) /\ KeptOf(c)
  BY DEF FileInv
<1>1. /\ filePc[c] = "close" /\ filePc' = [filePc EXCEPT ![c] = "idle"]
      /\ fileResult' = [fileResult EXCEPT ![c] = IF good'[c] THEN "ok" ELSE "failed"]
      /\ path' = path /\ mode' = mode /\ handle' = handle /\ output' = output
      /\ buffer' = buffer /\ fileCalls' = fileCalls /\ edits' = edits /\ before' = before
  BY DEF Files!Close, Files!Return
<1>2. mode[c] # "read" /\ handle[c] \in Inodes /\ buffer[c] \in {<<>>, Files!Content(c)}
  BY <1>t, <1>1 DEF PlaceOf
<1>3. /\ filePc'[c] = "idle" /\ filePc' \in [Workers -> FilePlaces]
      /\ fileResult' \in [Workers -> {"none", "ok", "failed"}]
      /\ fileResult'[c] = "ok" <=> good'[c]
  BY <1>t, <1>1 DEF FileTypes, FilePlaces
<1>4. Files!Content(c)' = Files!Content(c) /\ PlaceOf(c)'
  BY <1>1, <1>3 DEF Files!Content, Files!Byte, PlaceOf
<1>5. CASE /\ buffer[c] = <<>>
           /\ data' = data /\ good' = good /\ alone' = alone /\ overwritten' = overwritten
  <2>1. FileTypes'
    BY <1>t, <1>1, <1>3, <1>5 DEF FileTypes
  <2>2. Stored(c)' => Flushed(c)
    BY <1>1, <1>3, <1>5 DEF Stored, Flushed
  <2>3. ~Pending(c)' /\ ~Flushed(c)' /\ ~Reading(c)' /\ ~Returned(c)' /\ ~Files!Writing(c)'
    BY <1>1, <1>2, <1>3 DEF Pending, Flushed, Reading, Returned, Files!Writing
  <2>4. AloneOf(c)'
    BY <1>t, <1>1, <1>2, <1>3, <1>4, <1>5, <2>2, <2>3 DEF AloneOf, Base
  <2>5. SameFiles(c)
    BY <1>t, <1>1, <1>5 DEF SameFiles, Untouched, FileTypes
  <2>6. KeptOf(c)'
    <3>1. \A d \in Workers \ {c} : ~Files!Writing(d) => ~Files!Writing(d)'
      BY <2>5, UntouchedKeep DEF SameFiles
    <3> QED
      BY <1>t, <1>1, <1>4, <1>5, <2>2, <2>3, <3>1 DEF KeptOf
  <2> QED
    BY <1>t, <1>4, <2>1, <2>3, <2>4, <2>5, <2>6, QuietSteps DEF CallerStep
<1>6. CASE buffer[c] # <<>> /\ Files!Flush(c, buffer[c])
  <2>0. buffer[c] = Files!Content(c) /\ Files!Flush(c, Files!Content(c))
    BY <1>2, <1>6
  <2>1. /\ data' \in [Inodes -> Text] /\ good' \in [Workers -> BOOLEAN]
        /\ alone' \in [Workers -> BOOLEAN] /\ overwritten' \in [Workers -> BOOLEAN]
        /\ \A d \in Workers \ {c} : good'[d] = good[d]
    BY <1>t, <1>2, <2>0, FlushTypes
  <2>2. FileTypes'
    BY <1>t, <1>1, <1>3, <2>1 DEF FileTypes
  <2>4. /\ Pending(c) /\ ~Pending(c)'
        /\ (Flushed(c) \/ Stored(c) \/ Returned(c))' => good'[c]
    BY <1>1, <1>3, <1>6 DEF Pending, Flushed, Stored, Returned
  <2>5. \A d \in Workers \ {c} : Untouched(d)
    BY <1>t, <1>1, <2>1 DEF Untouched, FileTypes
  <2> QED
    BY <1>1, <1>3, <1>4, <2>0, <2>2, <2>4, <2>5, FlushStep
<1> QED
  BY <1>5, <1>6 DEF Files!Close

(* What others do to the file.                                               *)
LEMMA EditStep ==
  ASSUME FileInv, Files!Edit
  PROVE  FileTypes' /\ \A d \in Workers : Respects(d)
<1> USE DEF Files!streamVars
<1>t. FileTypes
  BY DEF FileInv
<1>1. /\ path \in Inodes /\ edits' = edits + 1 /\ alone' = [c \in Workers |-> FALSE]
      /\ filePc' = filePc /\ mode' = mode /\ handle' = handle /\ buffer' = buffer
      /\ good' = good /\ output' = output /\ fileResult' = fileResult /\ fileCalls' = fileCalls
      /\ before' = before
  BY DEF Files!Edit
<1>2. CASE /\ data' = [data EXCEPT ![path] = Append(@, [by |-> None, call |-> edits])]
           /\ path' = path /\ overwritten' = overwritten
  <2> DEFINE b == [by |-> None, call |-> edits]
             t == data[path]
  <2>1. b \in FileByte /\ t \in Text
    BY <1>t, <1>1 DEF FileTypes, FileByte
  <2> HIDE DEF b, t
  <2>2. <<b>> \in Text /\ Append(t, b) \in Text /\ Append(t, b) = t \o <<b>>
    BY <2>1 DEF Text
  <2>3. data' = [data EXCEPT ![path] = Append(t, b)]
    BY <1>2 DEF t, b
  <2>4. FileTypes'
    <3>1. data' \in [Inodes -> Text]
      BY <1>t, <1>1, <2>2, <2>3 DEF FileTypes
    <3>2. edits' \in Nat
      BY <1>t, <1>1 DEF FileTypes
    <3>3. alone' \in [Workers -> BOOLEAN] /\ overwritten' \in [Workers -> BOOLEAN]
      BY <1>t, <1>1, <1>2 DEF FileTypes
    <3>4. path' \in Inodes \cup {None, Directory}
      BY <1>t, <1>2 DEF FileTypes
    <3> QED
      BY <1>t, <1>1, <3>1, <3>2, <3>3, <3>4 DEF FileTypes
  <2>5. data'[path] = data[path] \o <<b>>
    BY <1>t, <1>1, <2>2, <2>3 DEF FileTypes, t
  <2>6. \A d \in Workers : Untouched(d) /\ ~alone'[d] /\ (Files!Writing(d)' <=> Files!Writing(d))
    BY <1>1 DEF Untouched, Files!Writing
  <2> QED
    BY <1>2, <2>2, <2>4, <2>5, <2>6 DEF Respects
<1>3. CASE /\ path' \in {None, Directory}
           /\ overwritten' = [c \in Workers |-> TRUE]
           /\ data' = data
  <2>1. FileTypes'
    BY <1>t, <1>1, <1>3 DEF FileTypes
  <2>2. \A d \in Workers : Untouched(d) /\ ~alone'[d] /\ overwritten'[d]
    BY <1>1, <1>3 DEF Untouched
  <2> QED
    BY <2>1, <2>2 DEF Respects
<1> QED
  BY <1>2, <1>3 DEF Files!Edit

LEMMA FilePreserved ==
  ASSUME FileInv, [Files!Next]_(Files!vars)
  PROVE  FileInv'
<1>1. ASSUME NEW c \in Workers, Files!Step(c) PROVE FileInv'
  <2>1. CallerStep(c)
    BY <1>1, BeginStep, InspectStep, OpenReadStep, ReadSomeStep, ReadEndsStep, PrepareParentStep,
       OpenWriteStep, PutStep, CloseStep DEF Files!Step
  <2>2. \A d \in Workers \ {c} : PlaceOf(d)' /\ AloneOf(d)' /\ KeptOf(d)'
    BY <2>1, RespectSuffices DEF CallerStep
  <2> QED
    BY <2>1, <2>2 DEF CallerStep, FileInv
<1>2. CASE Files!Edit
  <2>1. FileTypes' /\ \A d \in Workers : Respects(d)
    BY <1>2, EditStep
  <2>2. \A d \in Workers : PlaceOf(d)' /\ AloneOf(d)' /\ KeptOf(d)'
    BY <2>1, RespectSuffices
  <2> QED
    BY <2>1, <2>2 DEF FileInv
<1>3. CASE UNCHANGED Files!vars
  <2>1. /\ path' = path /\ data' = data /\ filePc' = filePc /\ mode' = mode
        /\ handle' = handle /\ buffer' = buffer /\ good' = good /\ output' = output
        /\ fileResult' = fileResult /\ fileCalls' = fileCalls /\ edits' = edits
        /\ before' = before /\ alone' = alone /\ overwritten' = overwritten
    BY <1>3 DEF Files!vars, Files!fileVars, Files!streamVars, Files!historyVars
  <2>2. FileTypes'
    BY <2>1 DEF FileInv, FileTypes
  <2>3. ASSUME NEW c \in Workers PROVE PlaceOf(c)' /\ AloneOf(c)' /\ KeptOf(c)'
    <3>1. PlaceOf(c) /\ AloneOf(c) /\ KeptOf(c)
      BY DEF FileInv
    <3>2. Files!Content(c)' = Files!Content(c)
      BY <2>1 DEF Files!Content, Files!Byte
    <3>3. PlaceOf(c)'
      BY <2>1, <3>1, <3>2 DEF PlaceOf
    <3>4. AloneOf(c)'
      BY <2>1, <3>1, <3>2 DEF AloneOf, Base, Pending, Flushed, Stored, Reading, Returned
    <3>5. \A d \in Workers : Files!Writing(d)' <=> Files!Writing(d)
      BY <2>1 DEF Files!Writing
    <3>6. KeptOf(c)'
      BY <2>1, <3>1, <3>2, <3>5 DEF KeptOf, Flushed, Stored
    <3> QED
      BY <3>3, <3>4, <3>6
  <2> QED
    BY <2>2, <2>3 DEF FileInv
<1> QED
  BY <1>1, <1>2, <1>3 DEF Files!Next

LEMMA FileInitially == Files!Init => FileInv
<1> SUFFICES ASSUME Files!Init PROVE FileInv
  OBVIOUS
<1>1. FileTypes
  <2>1. path \in Inodes \cup {None, Directory}
    BY ToolsAssumption DEF Files!Init
  <2>2. /\ data \in [Inodes -> Text] /\ buffer \in [Workers -> Text]
        /\ output \in [Workers -> Text] /\ before \in [Workers -> Text]
    BY TextFacts DEF Files!Init
  <2> QED
    BY <2>1, <2>2 DEF Files!Init, FileTypes, FilePlaces
<1>2. \A c \in Workers : filePc[c] = "idle" /\ fileResult[c] = "none"
  BY DEF Files!Init
<1>3. \A c \in Workers : PlaceOf(c) /\ AloneOf(c) /\ KeptOf(c)
  BY <1>2 DEF PlaceOf, AloneOf, KeptOf, Pending, Flushed, Stored, Reading, Returned
<1> QED
  BY <1>1, <1>3 DEF FileInv

THEOREM FileInvariance == Files!Spec => []FileInv
<1>1. FileInv /\ [Files!Next]_(Files!vars) => FileInv'
  BY FilePreserved
<1> QED
  BY <1>1, FileInitially, PTL DEF Files!Spec

(* A write_file that reports success has stored its content, and a read_file *)
(* that does returns the start of the file, never more than the limit, if    *)
(* nobody else touches the file (file_tool.cpp:85-110, 190-222).             *)
THEOREM SuccessStored == Files!Spec => []SuccessIsStored
<1>1. FileInv => SuccessIsStored
  <2> SUFFICES ASSUME FileInv, NEW c \in Workers, alone[c]
               PROVE  /\ Files!Succeeded(c, {"write", "append"}) =>
                           /\ path \in Inodes
                           /\ data[path] = (IF mode[c] = "append" THEN before[c] ELSE <<>>)
                                             \o Files!Content(c)
                      /\ Files!Succeeded(c, {"read"}) =>
                           /\ Len(output[c]) <= MaxReadBytes
                           /\ output[c] = SubSeq(Files!Bytes(path), 1, Len(output[c]))
    BY DEF SuccessIsStored, Files!SuccessIsStored
  <2>1. FileTypes /\ AloneOf(c)
    BY DEF FileInv
  <2>2. ASSUME Files!Succeeded(c, {"write", "append"})
        PROVE  path \in Inodes /\ data[path] = Base(c) \o Files!Content(c)
    BY <2>1, <2>2 DEF Files!Succeeded, AloneOf, Stored
  <2>3. ASSUME Files!Succeeded(c, {"read"})
        PROVE  /\ Len(output[c]) <= MaxReadBytes
               /\ output[c] = SubSeq(Files!Bytes(path), 1, Len(output[c]))
    <3>1. /\ path \in Inodes /\ Len(data[path]) <= MaxReadBytes
          /\ Len(output[c]) <= Len(data[path])
          /\ output[c] = SubSeq(data[path], 1, Len(output[c]))
      BY <2>1, <2>3 DEF Files!Succeeded, AloneOf, Returned
    <3>2. Len(output[c]) \in Nat /\ Len(data[path]) \in Nat
      BY <2>1, <3>1, TextFacts DEF FileTypes
    <3> QED
      BY <3>1, <3>2, ToolsAssumption DEF Files!Bytes
  <2> QED
    BY <2>2, <2>3 DEF Base
<1> QED
  BY <1>1, FileInvariance, PTL

(* Appends through one path do not overwrite each other, however they        *)
(* interleave (file_tool.cpp:199-222).                                       *)
THEOREM AppendsKept == Files!Spec => []AppendsAreKept
<1>1. FileInv => AppendsAreKept
  <2> SUFFICES ASSUME FileInv, NEW c \in Workers, Files!Succeeded(c, {"append"}), ~overwritten[c]
               PROVE  \E i \in 1..(Len(Files!Bytes(path)) - 1) :
                        SubSeq(Files!Bytes(path), i, i + 1) = Files!Content(c)
    BY DEF AppendsAreKept, Files!AppendsAreKept
  <2>1. Stored(c) /\ mode[c] = "append"
    BY DEF Files!Succeeded, Stored
  <2>2. KeptOf(c)
    BY DEF FileInv
  <2> QED
    BY <2>1, <2>2 DEF KeptOf, Files!Bytes
<1> QED
  BY <1>1, FileInvariance, PTL

-----------------------------------------------------------------------------
(* The display of GuiActions.                                                *)
EffectNames == {"move", "down", "up", "type", "key", "some"}
Effects == EffectNames \X Points

GuiTypes ==
  /\ pointer \in Points
  /\ guiPc \in [Workers -> 0..4]
  /\ request \in [Workers -> Gui!Requests \cup {Gui!NoRequest}]
  /\ effects \in [Workers -> Seq(Effects)]
  /\ guiResult \in [Workers -> {"none", "ok", "failed"}]
  /\ disturbed \in [Workers -> BOOLEAN]

(* What was done, and whether all of it was done at p.                       *)
NamesOf(e) == [i \in 1..Len(e) |-> e[i][1]]
AllAt(e, p) == \A i \in 1..Len(e) : e[i][2] = p

(* A call that was told a place on the screen has the pointer there, unless  *)
(* somebody has moved it since.                                              *)
OnScreen(c) ==
  /\ request[c].action \in {"move_mouse", "click"}
  /\ request[c].at \in Points /\ ~disturbed[c]
Placed(c) == OnScreen(c) => AllAt(effects[c], request[c].at)

(* Under way, a call has done nothing, or of a click the move and perhaps    *)
(* the press.                                                                *)
UnderWay(c) ==
  /\ guiResult[c] = "none" /\ Gui!Accepted(request[c])
  /\ guiPc[c] <= Len(Gui!Plan(request[c]))
  /\ guiPc[c] = 1 \/ request[c].action # "click" => effects[c] = <<>>
  /\ guiPc[c] # 1 /\ request[c].action = "click" =>
       /\ NamesOf(effects[c]) = IF guiPc[c] = 4 THEN <<"move", "down">> ELSE <<"move">>
       /\ OnScreen(c) => pointer = request[c].at

(* What is left of a call that succeeded, and of one that failed.            *)
AllDone(c) ==
  \/ request[c].action = "move_mouse" /\ NamesOf(effects[c]) = <<"move">>
  \/ request[c].action = "click" /\ NamesOf(effects[c]) = <<"move", "down", "up">>
  \/ request[c].action = "type_text" /\ NamesOf(effects[c]) = <<"type">>
  \/ request[c].action = "key_press" /\ NamesOf(effects[c]) = <<"key">>

NotDone(c) ==
  \/ effects[c] = <<>>
  \/ /\ request[c].action = "click"
     /\ NamesOf(effects[c]) \in {<<"move">>, <<"move", "down">>}
  \/ request[c].action = "type_text" /\ NamesOf(effects[c]) = <<"some">>

GuiOf(c) ==
  /\ Placed(c)
  /\ guiPc[c] # 0 => UnderWay(c)
  /\ guiResult[c] = "ok" => AllDone(c)
  /\ guiResult[c] = "failed" => NotDone(c)

GuiInv == GuiTypes /\ \A c \in Workers : GuiOf(c)

LEMMA NothingDone == NamesOf(<<>>) = <<>> /\ \A p : AllAt(<<>>, p)
  BY DEF NamesOf, AllAt

LEMMA NameAdded ==
  ASSUME NEW s \in Seq(EffectNames), NEW x \in EffectNames
  PROVE  /\ Append(s, x) \in Seq(EffectNames) /\ Len(Append(s, x)) = Len(s) + 1
         /\ Append(s, x)[Len(s) + 1] = x
         /\ \A i \in 1..Len(s) : Append(s, x)[i] = s[i]
  OBVIOUS

LEMMA NamesGrow ==
  /\ Append(<<>>, "move") = <<"move">>
  /\ Append(<<"move">>, "down") = <<"move", "down">>
  /\ Append(<<"move", "down">>, "up") = <<"move", "down", "up">>
  /\ Append(<<>>, "type") = <<"type">> /\ Append(<<>>, "key") = <<"key">>
  /\ Append(<<>>, "some") = <<"some">>
<1>1. Append(<<>>, "move") = <<"move">>
  OBVIOUS
<1>2. Append(<<"move">>, "down") = <<"move", "down">>
  <2> DEFINE s == <<"move">>
             t == <<"move", "down">>
             a == Append(s, "down")
  <2>1. /\ s \in Seq(EffectNames) /\ Len(s) = 1 /\ "down" \in EffectNames
        /\ s[1] = "move"
    BY DEF EffectNames
  <2>2. /\ t \in Seq(EffectNames) /\ Len(t) = 2
        /\ t[1] = "move" /\ t[2] = "down"
    <3>1. "move" \in EffectNames /\ "down" \in EffectNames
      BY DEF EffectNames
    <3>2. t \in Seq(EffectNames)
      BY <3>1
    <3>3. Len(t) = 2
      OBVIOUS
    <3>4. t[1] = "move" /\ t[2] = "down"
      OBVIOUS
    <3> QED
      BY <3>2, <3>3, <3>4
  <2> HIDE DEF s, t
  <2>3. /\ a \in Seq(EffectNames) /\ Len(a) = 2 /\ a[2] = "down"
        /\ a[1] = s[1]
    BY <2>1
  <2> HIDE DEF a
  <2>4. \A i \in 1..Len(a) : a[i] = t[i]
    <3> SUFFICES ASSUME NEW i \in 1..Len(a) PROVE a[i] = t[i]
      OBVIOUS
    <3>1. i = 1 \/ i = 2
      BY <2>3
    <3> QED
      BY <2>1, <2>2, <2>3, <3>1
  <2>5. a = t
    BY <2>2, <2>3, <2>4, SeqEqual
  <2> QED
    BY <2>5 DEF a, s, t
<1>3. Append(<<"move", "down">>, "up") = <<"move", "down", "up">>
  <2> DEFINE s == <<"move", "down">>
             t == <<"move", "down", "up">>
             a == Append(s, "up")
  <2>1. /\ s \in Seq(EffectNames) /\ Len(s) = 2 /\ "up" \in EffectNames
        /\ s[1] = "move" /\ s[2] = "down"
    BY DEF EffectNames
  <2>2. /\ t \in Seq(EffectNames) /\ Len(t) = 3
        /\ t[1] = "move" /\ t[2] = "down" /\ t[3] = "up"
    <3>1. "move" \in EffectNames /\ "down" \in EffectNames /\ "up" \in EffectNames
      BY DEF EffectNames
    <3>2. t \in Seq(EffectNames)
      BY <3>1
    <3>3. Len(t) = 3
      OBVIOUS
    <3>4. t[1] = "move" /\ t[2] = "down" /\ t[3] = "up"
      OBVIOUS
    <3> QED
      BY <3>2, <3>3, <3>4
  <2> HIDE DEF s, t
  <2>3. /\ a \in Seq(EffectNames) /\ Len(a) = Len(s) + 1 /\ a[Len(s) + 1] = "up"
        /\ \A i \in 1..Len(s) : a[i] = s[i]
    BY <2>1, NameAdded, Zenon
  <2> HIDE DEF a
  <2>4. /\ a \in Seq(EffectNames) /\ Len(a) = 3 /\ a[3] = "up"
        /\ a[1] = s[1] /\ a[2] = s[2]
    BY <2>1, <2>3
  <2>5. \A i \in 1..Len(a) : a[i] = t[i]
    <3> SUFFICES ASSUME NEW i \in 1..Len(a) PROVE a[i] = t[i]
      OBVIOUS
    <3>1. i = 1 \/ i = 2 \/ i = 3
      BY <2>4
    <3> QED
      BY <2>1, <2>2, <2>4, <3>1
  <2>6. a = t
    BY <2>2, <2>4, <2>5, SeqEqual
  <2> QED
    BY <2>6 DEF a, s, t
<1>4. Append(<<>>, "type") = <<"type">>
  OBVIOUS
<1>5. Append(<<>>, "key") = <<"key">>
  OBVIOUS
<1>6. Append(<<>>, "some") = <<"some">>
  OBVIOUS
<1> QED
  BY <1>1, <1>2, <1>3, <1>4, <1>5, <1>6

(* An effect more.                                                           *)
LEMMA EffectAdded ==
  ASSUME NEW e \in Seq(Effects), NEW name \in EffectNames, NEW p \in Points
  PROVE  /\ Append(e, <<name, p>>) \in Seq(Effects)
         /\ NamesOf(Append(e, <<name, p>>)) = Append(NamesOf(e), name)
         /\ \A q : AllAt(e, q) /\ p = q => AllAt(Append(e, <<name, p>>), q)
<1> DEFINE x == <<name, p>>
           f == Append(e, x)
<1>1. x \in Effects /\ x[1] = name /\ x[2] = p
  BY DEF Effects
<1> HIDE DEF x
<1>2. /\ f \in Seq(Effects) /\ Len(e) \in Nat /\ Len(f) = Len(e) + 1 /\ f[Len(e) + 1] = x
      /\ \A i \in 1..Len(e) : f[i] = e[i]
  BY <1>1
<1> HIDE DEF f
<1>3. NamesOf(f) = Append(NamesOf(e), name)
  <2> DEFINE u == NamesOf(f)
             d == NamesOf(e)
             v == Append(d, name)
  <2>1. \A i \in 1..Len(e) : e[i][1] \in EffectNames
    <3>1. \A i \in 1..Len(e) : e[i] \in Effects
      BY <1>2
    <3> QED
      BY <3>1 DEF Effects
  <2>2. d \in Seq(EffectNames) /\ Len(d) = Len(e) /\ \A i \in 1..Len(e) : d[i] = e[i][1]
    BY <1>2, <2>1 DEF NamesOf
  <2>3. \A i \in 1..Len(f) : f[i][1] \in EffectNames
    <3>1. \A i \in 1..Len(f) : f[i] \in Effects
      BY <1>2
    <3> QED
      BY <3>1 DEF Effects
  <2>4. u \in Seq(EffectNames) /\ Len(u) = Len(f) /\ \A i \in 1..Len(f) : u[i] = f[i][1]
    BY <1>2, <2>3 DEF NamesOf
  <2> HIDE DEF u, d
  <2>5. /\ v \in Seq(EffectNames) /\ Len(v) = Len(e) + 1 /\ v[Len(e) + 1] = name
        /\ \A i \in 1..Len(e) : v[i] = d[i]
    BY <2>2
  <2> HIDE DEF v
  <2>6. \A i \in 1..Len(u) : u[i] = v[i]
    <3> TAKE i \in 1..Len(u)
    <3>1. CASE i \in 1..Len(e)
      BY <1>2, <2>2, <2>4, <2>5, <3>1
    <3>2. CASE i = Len(e) + 1
      BY <1>1, <1>2, <2>4, <2>5, <3>2
    <3> QED
      BY <1>2, <2>4, <3>1, <3>2
  <2>7. u = v
    BY <1>2, <2>4, <2>5, <2>6, SeqEqual
  <2> QED
    BY <2>7 DEF u, d, v
<1>4. ASSUME NEW q, AllAt(e, q), p = q PROVE AllAt(f, q)
  <2> SUFFICES ASSUME NEW i \in 1..Len(f) PROVE f[i][2] = q
    BY DEF AllAt
  <2>1. CASE i \in 1..Len(e)
    BY <1>2, <1>4, <2>1 DEF AllAt
  <2>2. CASE i = Len(e) + 1
    BY <1>1, <1>2, <1>4, <2>2
  <2> QED
    BY <1>2, <2>1, <2>2
<1> QED
  BY <1>2, <1>3, <1>4 DEF f, x

(* What an accepted call asks for, and that its default changes none of it.  *)
LEMMA AcceptedFacts ==
  ASSUME NEW r, Gui!Accepted(r)
  PROVE  \/ r.action = "move_mouse" /\ Gui!Plan(r) = <<"move">>
         \/ r.action = "click" /\ Gui!Plan(r) = <<"move", "window", "down", "up">>
         \/ r.action = "type_text" /\ Gui!Plan(r) = <<"window", "type">>
         \/ r.action = "key_press" /\ Gui!Plan(r) = <<"window", "key">>
<1>1. r.action \in {"move_mouse", "click", "type_text", "key_press"}
  BY DEF Gui!Accepted
<1>2. CASE r.action = "move_mouse"
  BY <1>2 DEF Gui!Accepted, Gui!Plan
<1>3. CASE r.action = "click"
  BY <1>3 DEF Gui!Accepted, Gui!Plan
<1>4. CASE r.action = "type_text"
  BY <1>4 DEF Gui!Accepted, Gui!Plan
<1>5. CASE r.action = "key_press"
  BY <1>5 DEF Gui!Accepted, Gui!Plan
<1> QED
  BY <1>1, <1>2, <1>3, <1>4, <1>5

LEMMA DefaultAccepted ==
  ASSUME NEW r \in Gui!Acceptable
  PROVE  Gui!Defaulted(r) \in Gui!Requests /\ Gui!Accepted(Gui!Defaulted(r))
<1>1. r \in Gui!Requests /\ Gui!Accepted(r)
  BY DEF Gui!Acceptable
<1>2. CASE r.action = "click" /\ r.button = "missing"
  <2> DEFINE R == [action : {"move_mouse", "click"},
                   at : Gui!Arguments \cup {Gui!NoPoint} \cup Points \cup Beyond,
                   button : Gui!Arguments \cup Gui!Buttons, text : {"missing"}]
             s == [r EXCEPT !.button = "1"]
  <2>1. r \in R
    BY <1>1, <1>2 DEF Gui!Requests
  <2>2. "1" \in Gui!Arguments \cup Gui!Buttons
    BY DEF Gui!Buttons
  <2>3. s \in R /\ s.action = "click" /\ s.at = r.at /\ s.button = "1"
    <3> DEFINE B == Gui!Arguments \cup Gui!Buttons
               P == Gui!Arguments \cup {Gui!NoPoint} \cup Points \cup Beyond
    <3> HIDE DEF B, P
    <3>1. r \in [action : {"move_mouse", "click"}, at : P, button : B, text : {"missing"}] /\ "1" \in B
      BY <2>1, <2>2 DEF B, P
    <3>2. s \in [action : {"move_mouse", "click"}, at : P, button : B, text : {"missing"}]
          /\ s.action = "click" /\ s.at = r.at /\ s.button = "1"
      BY <1>2, <3>1
    <3> QED
      BY <3>2 DEF B, P
  <2>4. Gui!Defaulted(r) = s
    BY <1>2 DEF Gui!Defaulted
  <2> HIDE DEF s
  <2>5. Gui!Accepted(s)
    BY <1>1, <1>2, <2>3 DEF Gui!Accepted, Gui!ButtonAccepted
  <2>6. s \in Gui!Requests
    BY <2>3 DEF Gui!Requests
  <2> QED
    BY <2>4, <2>5, <2>6
<1>3. CASE ~(r.action = "click" /\ r.button = "missing")
  BY <1>1, <1>3 DEF Gui!Defaulted
<1> QED
  BY <1>2, <1>3

LEMMA AtRequest ==
  ASSUME NEW c \in Workers, UnderWay(c), guiPc[c] \in 1..4
  PROVE  LET n == guiPc[c]
             plan == Gui!Plan(request[c])
             what == plan[n]
         IN \/ /\ request[c].action = "move_mouse"
               /\ n = 1 /\ Len(plan) = 1 /\ what = "move" /\ effects[c] = <<>>
            \/ /\ request[c].action = "click" /\ Len(plan) = 4
               /\ \/ n = 1 /\ what = "move" /\ effects[c] = <<>>
                  \/ n = 2 /\ what = "window" /\ NamesOf(effects[c]) = <<"move">>
                  \/ n = 3 /\ what = "down" /\ NamesOf(effects[c]) = <<"move">>
                  \/ n = 4 /\ what = "up" /\ NamesOf(effects[c]) = <<"move", "down">>
               /\ n # 1 => (OnScreen(c) => pointer = request[c].at)
            \/ /\ request[c].action = "type_text" /\ Len(plan) = 2 /\ effects[c] = <<>>
               /\ (n = 1 /\ what = "window") \/ (n = 2 /\ what = "type")
            \/ /\ request[c].action = "key_press" /\ Len(plan) = 2 /\ effects[c] = <<>>
               /\ (n = 1 /\ what = "window") \/ (n = 2 /\ what = "key")
<1> DEFINE plan == Gui!Plan(request[c])
           n == guiPc[c]
<1>1. /\ Gui!Accepted(request[c]) /\ n \in {1, 2, 3, 4} /\ n <= Len(plan)
      /\ n = 1 \/ request[c].action # "click" => effects[c] = <<>>
      /\ n # 1 /\ request[c].action = "click" =>
           /\ NamesOf(effects[c]) = IF n = 4 THEN <<"move", "down">> ELSE <<"move">>
           /\ OnScreen(c) => pointer = request[c].at
  BY DEF UnderWay
<1>2. \/ request[c].action = "move_mouse" /\ plan = <<"move">>
      \/ request[c].action = "click" /\ plan = <<"move", "window", "down", "up">>
      \/ request[c].action = "type_text" /\ plan = <<"window", "type">>
      \/ request[c].action = "key_press" /\ plan = <<"window", "key">>
  BY <1>1, AcceptedFacts
<1> HIDE DEF plan, n
<1>3. CASE request[c].action = "move_mouse"
  <2>1. plan = <<"move">> /\ Len(plan) = 1 /\ plan[1] = "move"
    BY <1>2, <1>3
  <2> QED
    BY <1>1, <1>3, <2>1 DEF plan, n
<1>4. CASE request[c].action = "click"
  <2>1. Len(plan) = 4 /\ plan[1] = "move" /\ plan[2] = "window" /\ plan[3] = "down" /\ plan[4] = "up"
    BY <1>2, <1>4
  <2> QED
    BY <1>1, <1>4, <2>1 DEF plan, n
<1>5. CASE request[c].action = "type_text"
  <2>1. Len(plan) = 2 /\ plan[1] = "window" /\ plan[2] = "type"
    BY <1>2, <1>5
  <2> QED
    BY <1>1, <1>5, <2>1 DEF plan, n
<1>6. CASE request[c].action = "key_press"
  <2>1. Len(plan) = 2 /\ plan[1] = "window" /\ plan[2] = "key"
    BY <1>2, <1>6
  <2> QED
    BY <1>1, <1>6, <2>1 DEF plan, n
<1> QED
  BY <1>2, <1>3, <1>4, <1>5, <1>6

(* A step leaves alone what a call has or has done; if it moves the pointer, *)
(* it says so.                                                               *)
GuiUntouched(d) ==
  /\ guiPc'[d] = guiPc[d] /\ request'[d] = request[d] /\ effects'[d] = effects[d]
  /\ guiResult'[d] = guiResult[d]
  /\ ~disturbed'[d] => ~disturbed[d] /\ pointer' = pointer

LEMMA UntouchedStays ==
  ASSUME NEW d \in Workers, GuiOf(d), GuiUntouched(d)
  PROVE  GuiOf(d)'
<1>0. Placed(d)' /\ (OnScreen(d)' => OnScreen(d) /\ pointer' = pointer)
  BY DEF GuiOf, Placed, OnScreen, AllAt, GuiUntouched
<1>1. UnderWay(d) => UnderWay(d)'
  BY <1>0 DEF UnderWay, NamesOf, GuiUntouched, Gui!Accepted, Gui!Plan, Gui!ButtonAccepted
<1>2. AllDone(d) => AllDone(d)'
  BY DEF AllDone, NamesOf, GuiUntouched
<1>3. NotDone(d) => NotDone(d)'
  BY DEF NotDone, NamesOf, GuiUntouched
<1> QED
  BY <1>0, <1>1, <1>2, <1>3 DEF GuiOf, GuiUntouched

LEMMA CallStep ==
  ASSUME GuiInv, NEW c \in Workers, Gui!Call(c)
  PROVE  GuiInv'
<1>t. GuiTypes
  BY DEF GuiInv
<1>1. /\ guiPc[c] = 0 /\ effects' = [effects EXCEPT ![c] = <<>>]
      /\ disturbed' = [disturbed EXCEPT ![c] = FALSE] /\ pointer' = pointer
  BY DEF Gui!Call
<1>2. effects' \in [Workers -> Seq(Effects)] /\ disturbed' \in [Workers -> BOOLEAN] /\ effects'[c] = <<>>
  BY <1>t, <1>1 DEF GuiTypes
<1>3. \/ \E r \in Gui!Acceptable :
           /\ request' = [request EXCEPT ![c] = Gui!Defaulted(r)]
           /\ guiPc' = [guiPc EXCEPT ![c] = 1]
           /\ guiResult' = [guiResult EXCEPT ![c] = "none"]
      \/ /\ request' = [request EXCEPT ![c] = Gui!NoRequest]
         /\ guiPc' = [guiPc EXCEPT ![c] = 0]
         /\ guiResult' = [guiResult EXCEPT ![c] = "failed"]
  BY DEF Gui!Call, Gui!Return
<1>4. \A d \in Workers \ {c} : GuiUntouched(d)
  BY <1>t, <1>1, <1>3 DEF GuiUntouched, GuiTypes
<1>5. \A d \in Workers \ {c} : GuiOf(d)'
  BY <1>4, UntouchedStays DEF GuiInv
<1>p. Placed(c)'
  BY <1>2, NothingDone DEF Placed
<1>6. CASE \E r \in Gui!Acceptable :
              /\ request' = [request EXCEPT ![c] = Gui!Defaulted(r)]
              /\ guiPc' = [guiPc EXCEPT ![c] = 1]
              /\ guiResult' = [guiResult EXCEPT ![c] = "none"]
  <2>1. PICK s \in Gui!Requests :
           /\ Gui!Accepted(s) /\ request' = [request EXCEPT ![c] = s]
           /\ guiPc' = [guiPc EXCEPT ![c] = 1]
           /\ guiResult' = [guiResult EXCEPT ![c] = "none"]
    BY <1>6, DefaultAccepted
  <2>2. GuiTypes'
    BY <1>t, <1>1, <1>2, <2>1 DEF GuiTypes
  <2>3. request'[c] = s /\ guiPc'[c] = 1 /\ guiResult'[c] = "none"
    BY <1>t, <2>1 DEF GuiTypes
  <2>4. 1 <= Len(Gui!Plan(s))
    <3> DEFINE asked == Gui!Plan(s)
    <3>1. \/ asked = <<"move">> \/ asked = <<"move", "window", "down", "up">>
          \/ asked = <<"window", "type">> \/ asked = <<"window", "key">>
      BY <2>1, AcceptedFacts
    <3> HIDE DEF asked
    <3>2. 1 <= Len(asked)
      BY <3>1
    <3> QED
      BY <3>2 DEF asked
  <2>5. Gui!Accepted(request[c])' /\ Gui!Plan(request[c])' = Gui!Plan(s)
    BY <2>1, <2>3 DEF Gui!Accepted, Gui!Plan, Gui!ButtonAccepted
  <2>6. UnderWay(c)'
    <3>1. guiPc'[c] <= Len(Gui!Plan(request[c])')
      BY <2>3, <2>4, <2>5
    <3> QED
      BY <1>2, <2>3, <2>5, <3>1 DEF UnderWay
  <2>7. GuiOf(c)'
    BY <1>p, <2>3, <2>6 DEF GuiOf
  <2> QED
    BY <1>5, <2>2, <2>7 DEF GuiInv
<1>7. CASE /\ request' = [request EXCEPT ![c] = Gui!NoRequest]
           /\ guiPc' = [guiPc EXCEPT ![c] = 0]
           /\ guiResult' = [guiResult EXCEPT ![c] = "failed"]
  <2>2. GuiTypes'
    BY <1>t, <1>1, <1>2, <1>7 DEF GuiTypes
  <2>3. guiPc'[c] = 0 /\ guiResult'[c] = "failed"
    BY <1>t, <1>7 DEF GuiTypes
  <2>4. GuiOf(c)'
    BY <1>2, <1>p, <2>3 DEF GuiOf, NotDone
  <2> QED
    BY <1>5, <2>2, <2>4 DEF GuiInv
<1> QED
  BY <1>3, <1>6, <1>7

LEMMA XSucceedsStep ==
  ASSUME GuiInv, NEW c \in Workers, Gui!XSucceeds(c)
  PROVE  GuiInv'
<1> DEFINE plan == Gui!Plan(request[c])
           n == guiPc[c]
           what == plan[n]
           e == IF what = "window" THEN effects[c] ELSE Append(effects[c], <<what, pointer'>>)
<1>t. GuiTypes
  BY DEF GuiInv
<1>1. /\ n # 0
      /\ pointer' \in IF what = "move" THEN Gui!Landings(request[c].at) ELSE {pointer}
      /\ effects' = [effects EXCEPT ![c] = e]
      /\ disturbed' = [d \in Workers |-> IF what # "move" THEN disturbed[d] ELSE d # c]
      /\ request' = request
  BY DEF Gui!XSucceeds
<1>2. IF n = Len(plan)
        THEN guiPc' = [guiPc EXCEPT ![c] = 0] /\ guiResult' = [guiResult EXCEPT ![c] = "ok"]
        ELSE guiPc' = [guiPc EXCEPT ![c] = n + 1] /\ guiResult' = guiResult
  BY DEF Gui!XSucceeds, Gui!Return
<1>3. UnderWay(c) /\ Placed(c) /\ n \in 1..4
  BY <1>t, <1>1 DEF GuiInv, GuiOf, GuiTypes
<1>a. \/ /\ request[c].action = "move_mouse"
         /\ n = 1 /\ Len(plan) = 1 /\ what = "move" /\ effects[c] = <<>>
      \/ /\ request[c].action = "click" /\ Len(plan) = 4
         /\ \/ n = 1 /\ what = "move" /\ effects[c] = <<>>
            \/ n = 2 /\ what = "window" /\ NamesOf(effects[c]) = <<"move">>
            \/ n = 3 /\ what = "down" /\ NamesOf(effects[c]) = <<"move">>
            \/ n = 4 /\ what = "up" /\ NamesOf(effects[c]) = <<"move", "down">>
         /\ n # 1 => (OnScreen(c) => pointer = request[c].at)
      \/ /\ request[c].action = "type_text" /\ Len(plan) = 2 /\ effects[c] = <<>>
         /\ (n = 1 /\ what = "window") \/ (n = 2 /\ what = "type")
      \/ /\ request[c].action = "key_press" /\ Len(plan) = 2 /\ effects[c] = <<>>
         /\ (n = 1 /\ what = "window") \/ (n = 2 /\ what = "key")
  BY <1>3, AtRequest
<1>b. /\ Gui!Accepted(request[c])' /\ Gui!Plan(request[c])' = plan
      /\ request'[c] = request[c]
  BY <1>1, <1>3 DEF UnderWay, Gui!Accepted, Gui!Plan, Gui!ButtonAccepted
<1> HIDE DEF plan, n, what
<1>5. /\ pointer' \in Points
      /\ what = "move" /\ request[c].at \in Points => pointer' = request[c].at
      /\ what # "move" => pointer' = pointer
  BY <1>t, <1>1 DEF GuiTypes, Gui!Landings
<1>6. \A d \in Workers \ {c} : GuiUntouched(d)
  BY <1>t, <1>1, <1>2, <1>5 DEF GuiUntouched, GuiTypes
<1>7. \A d \in Workers \ {c} : GuiOf(d)'
  BY <1>6, UntouchedStays DEF GuiInv
<1>c. /\ e \in Seq(Effects) /\ what \in EffectNames \cup {"window"}
      /\ what = "window" => e = effects[c]
      /\ what # "window" =>
           /\ NamesOf(e) = Append(NamesOf(effects[c]), what)
           /\ \A q : AllAt(effects[c], q) /\ pointer' = q => AllAt(e, q)
  <2>1. what \in EffectNames \cup {"window"}
    BY <1>a DEF EffectNames
  <2>2. effects[c] \in Seq(Effects)
    BY <1>t DEF GuiTypes
  <2> QED
    BY <1>5, <2>1, <2>2, EffectAdded
<1> HIDE DEF e
<1>d. /\ effects'[c] = e
      /\ disturbed'[c] = IF what # "move" THEN disturbed[c] ELSE FALSE
  BY <1>t, <1>1 DEF GuiTypes
<1>e. IF n = Len(plan) THEN guiPc'[c] = 0 /\ guiResult'[c] = "ok"
                       ELSE guiPc'[c] = n + 1 /\ guiResult'[c] = "none"
  <2>1. guiResult[c] = "none"
    BY <1>3 DEF UnderWay
  <2> QED
    BY <1>t, <1>2, <2>1 DEF GuiTypes
<1>8. GuiTypes'
  <2>1. effects' \in [Workers -> Seq(Effects)]
    BY <1>t, <1>1, <1>c DEF GuiTypes
  <2>2. guiPc' \in [Workers -> 0..4]
    <3>1. n = Len(plan) \/ n + 1 \in 0..4
      <4>1. n = Len(plan) \/ n = 1 \/ n = 2 \/ n = 3
        BY <1>a
      <4> QED
        BY <4>1
    <3>2. guiPc \in [Workers -> 0..4] /\ 0 \in 0..4
      BY <1>t DEF GuiTypes
    <3> QED
      BY <1>2, <3>1, <3>2
  <2>3. guiResult' \in [Workers -> {"none", "ok", "failed"}]
    BY <1>t, <1>2 DEF GuiTypes
  <2>4. disturbed' \in [Workers -> BOOLEAN] /\ request' \in [Workers -> Gui!Requests \cup {Gui!NoRequest}]
    BY <1>t, <1>1 DEF GuiTypes
  <2> QED
    BY <1>5, <2>1, <2>2, <2>3, <2>4 DEF GuiTypes
<1>9. Placed(c)' /\ (OnScreen(c)' => pointer' = request[c].at \/ what = "window")
      /\ (OnScreen(c)' /\ what = "window" => OnScreen(c) /\ pointer' = pointer)
  <2> SUFFICES ASSUME OnScreen(c)'
               PROVE  /\ AllAt(e, request[c].at) /\ (pointer' = request[c].at \/ what = "window")
                      /\ what = "window" => OnScreen(c) /\ pointer' = pointer
    BY <1>b, <1>d DEF Placed
  <2>1. /\ request[c].action \in {"move_mouse", "click"} /\ request[c].at \in Points
        /\ ~disturbed'[c]
    BY <1>b DEF OnScreen
  <2>2. CASE what = "move"
    <3>1. effects[c] = <<>> /\ pointer' = request[c].at
      BY <1>5, <1>a, <2>1, <2>2
    <3> QED
      BY <1>c, <2>2, <3>1, NothingDone
  <2>3. CASE what # "move"
    <3>1. OnScreen(c) /\ AllAt(effects[c], request[c].at) /\ pointer' = pointer
      BY <1>3, <1>5, <1>d, <2>1, <2>3 DEF OnScreen, Placed
    <3>2. what = "window" \/ pointer = request[c].at
      BY <1>a, <2>1, <2>3, <3>1
    <3> QED
      BY <1>c, <3>1, <3>2
  <2> QED
    BY <2>2, <2>3
<1>f. GuiOf(c)'
  <2>3. guiPc'[c] # 0 => Gui!Accepted(request[c])' /\ guiResult'[c] = "none"
                         /\ guiPc'[c] <= Len(Gui!Plan(request[c])')
    <3>1. n # Len(plan) => n + 1 <= Len(plan)
      <4> DEFINE m == Len(plan)
      <4>1. \/ n = 1 /\ m = 1
            \/ (n = 1 \/ n = 2 \/ n = 3 \/ n = 4) /\ m = 4
            \/ (n = 1 \/ n = 2) /\ m = 2
        BY <1>a, Zenon
      <4> HIDE DEF m
      <4>2. n # m => n + 1 <= m
        BY <4>1
      <4> QED
        BY <4>2 DEF m
    <3> QED
      BY <1>b, <1>e, <3>1
  <2>4. CASE request[c].action = "move_mouse"
    <3>1. guiPc'[c] = 0 /\ guiResult'[c] = "ok" /\ what = "move" /\ effects[c] = <<>>
      BY <1>a, <1>e, <2>4
    <3>2. NamesOf(effects'[c]) = <<"move">>
      BY <1>c, <1>d, <3>1, NothingDone, NamesGrow
    <3> QED
      BY <1>9, <1>b, <2>4, <3>1, <3>2 DEF GuiOf, AllDone, NamesOf
  <2>5. CASE request[c].action = "click"
    <3>0. Len(plan) = 4
      BY <1>a, <2>5
    <3>1. CASE n = 1
      <4>1. what = "move" /\ effects[c] = <<>> /\ guiPc'[c] = 2 /\ guiResult'[c] = "none"
        BY <1>a, <1>e, <2>5, <3>0, <3>1
      <4>2. NamesOf(effects'[c]) = <<"move">>
        BY <1>c, <1>d, <4>1, NothingDone, NamesGrow
      <4> QED
        BY <1>9, <1>b, <2>3, <2>5, <4>1, <4>2 DEF GuiOf, UnderWay, NamesOf
    <3>2. CASE n = 2
      <4>1. what = "window" /\ guiPc'[c] = 3 /\ guiResult'[c] = "none"
            /\ NamesOf(effects[c]) = <<"move">> /\ (OnScreen(c) => pointer = request[c].at)
        BY <1>a, <1>e, <2>5, <3>0, <3>2
      <4>2. NamesOf(effects'[c]) = <<"move">> /\ (OnScreen(c)' => pointer' = request[c].at)
        BY <1>9, <1>c, <1>d, <4>1
      <4> QED
        BY <1>9, <1>b, <2>3, <2>5, <4>1, <4>2 DEF GuiOf, UnderWay, NamesOf
    <3>3. CASE n = 3
      <4>1. what = "down" /\ guiPc'[c] = 4 /\ guiResult'[c] = "none" /\ NamesOf(effects[c]) = <<"move">>
        BY <1>a, <1>e, <2>5, <3>0, <3>3
      <4>2. NamesOf(effects'[c]) = <<"move", "down">>
        BY <1>c, <1>d, <4>1, NamesGrow
      <4> QED
        BY <1>9, <1>b, <2>3, <2>5, <4>1, <4>2 DEF GuiOf, UnderWay, NamesOf
    <3>4. CASE n = 4
      <4>1. what = "up" /\ guiPc'[c] = 0 /\ guiResult'[c] = "ok"
            /\ NamesOf(effects[c]) = <<"move", "down">>
        BY <1>a, <1>e, <2>5, <3>0, <3>4
      <4>2. NamesOf(effects'[c]) = <<"move", "down", "up">>
        BY <1>c, <1>d, <4>1, NamesGrow
      <4> QED
        BY <1>9, <1>b, <2>5, <4>1, <4>2 DEF GuiOf, AllDone, NamesOf
    <3> QED
      BY <1>a, <2>5, <3>1, <3>2, <3>3, <3>4
  <2>6. CASE request[c].action \in {"type_text", "key_press"}
    <3>0. Len(plan) = 2 /\ effects[c] = <<>>
      BY <1>a, <2>6
    <3>1. CASE n = 1
      <4>1. what = "window" /\ guiPc'[c] = 2 /\ guiResult'[c] = "none"
        BY <1>a, <1>e, <2>6, <3>0, <3>1
      <4>2. effects'[c] = <<>>
        BY <1>c, <1>d, <3>0, <4>1
      <4> QED
        BY <1>9, <1>b, <2>3, <2>6, <4>1, <4>2 DEF GuiOf, UnderWay
    <3>2. CASE n = 2
      <4>1. /\ what = IF request[c].action = "type_text" THEN "type" ELSE "key"
            /\ guiPc'[c] = 0 /\ guiResult'[c] = "ok"
        BY <1>a, <1>e, <2>6, <3>0, <3>2
      <4>2. NamesOf(effects'[c]) = IF request[c].action = "type_text" THEN <<"type">> ELSE <<"key">>
        BY <1>c, <1>d, <3>0, <4>1, NothingDone, NamesGrow
      <4> QED
        BY <1>9, <1>b, <2>6, <4>1, <4>2 DEF GuiOf, AllDone, NamesOf
    <3> QED
      BY <1>a, <2>6, <3>1, <3>2
  <2> QED
    BY <1>a, <2>4, <2>5, <2>6
<1> QED
  BY <1>7, <1>8, <1>f DEF GuiInv

LEMMA XFailsStep ==
  ASSUME GuiInv, NEW c \in Workers, Gui!XFails(c)
  PROVE  GuiInv'
<1>t. GuiTypes
  BY DEF GuiInv
<1>1. /\ guiPc[c] # 0 /\ guiPc' = [guiPc EXCEPT ![c] = 0]
      /\ guiResult' = [guiResult EXCEPT ![c] = "failed"]
      /\ pointer' = pointer /\ request' = request /\ disturbed' = disturbed
  BY DEF Gui!XFails, Gui!Return
<1>2. \/ effects' = effects
      \/ /\ Gui!Plan(request[c])[guiPc[c]] = "type"
         /\ effects' = [effects EXCEPT ![c] = Append(@, <<"some", pointer>>)]
  BY DEF Gui!XFails
<1>3. UnderWay(c) /\ guiPc[c] \in 1..4
  BY <1>t, <1>1 DEF GuiInv, GuiOf, GuiTypes
<1> DEFINE e == Append(effects[c], <<"some", pointer>>)
<1>4. e \in Seq(Effects) /\ NamesOf(e) = Append(NamesOf(effects[c]), "some")
  <2>1. effects[c] \in Seq(Effects) /\ pointer \in Points
    BY <1>t DEF GuiTypes
  <2>2. "some" \in EffectNames
    BY DEF EffectNames
  <2> QED
    BY <2>1, <2>2, EffectAdded
<1>5. GuiTypes'
  <2>1. guiPc' \in [Workers -> 0..4]
    BY <1>t, <1>1 DEF GuiTypes
  <2>2. guiResult' \in [Workers -> {"none", "ok", "failed"}]
    BY <1>t, <1>1 DEF GuiTypes
  <2>3. effects' \in [Workers -> Seq(Effects)]
    <3>1. effects' = effects \/ effects' = [effects EXCEPT ![c] = e]
      BY <1>2
    <3> HIDE DEF e
    <3> QED
      BY <1>t, <1>4, <3>1 DEF GuiTypes
  <2> QED
    BY <1>t, <1>1, <2>1, <2>2, <2>3 DEF GuiTypes
<1>6. \A d \in Workers \ {c} : GuiUntouched(d)
  BY <1>t, <1>1, <1>2 DEF GuiUntouched, GuiTypes
<1>7. \A d \in Workers \ {c} : GuiOf(d)'
  BY <1>6, UntouchedStays DEF GuiInv
<1>8. request'[c] = request[c] /\ guiPc'[c] = 0 /\ guiResult'[c] = "failed" /\ disturbed'[c] = disturbed[c]
  BY <1>t, <1>1 DEF GuiTypes
<1>9. NotDone(c)' /\ Placed(c)'
  <2>1. CASE effects' = effects
    <3>1. NotDone(c)
      BY <1>3 DEF UnderWay, NotDone
    <3>2. Placed(c)
      BY DEF GuiInv, GuiOf
    <3> QED
      BY <1>8, <2>1, <3>1, <3>2 DEF NotDone, NamesOf, Placed, OnScreen, AllAt
  <2>2. CASE /\ Gui!Plan(request[c])[guiPc[c]] = "type"
             /\ effects' = [effects EXCEPT ![c] = Append(@, <<"some", pointer>>)]
    <3>1. request[c].action = "type_text"
      BY <1>3, <2>2, AtRequest
    <3>2. effects[c] = <<>>
      BY <1>3, <3>1 DEF UnderWay
    <3>3. effects'[c] = e
      BY <1>t, <2>2 DEF GuiTypes
    <3>4. NamesOf(effects'[c]) = <<"some">>
      BY <1>4, <3>2, <3>3, NothingDone, NamesGrow
    <3>5. ~OnScreen(c)'
      BY <1>8, <3>1 DEF OnScreen
    <3> QED
      BY <1>8, <3>1, <3>4, <3>5 DEF NotDone, NamesOf, Placed
  <2> QED
    BY <1>2, <2>1, <2>2
<1>10. GuiOf(c)'
  BY <1>8, <1>9 DEF GuiOf
<1> QED
  BY <1>5, <1>7, <1>10 DEF GuiInv

LEMMA GuiPreserved ==
  ASSUME GuiInv, [Gui!Next]_(Gui!vars)
  PROVE  GuiInv'
<1>t. GuiTypes
  BY DEF GuiInv
<1>1. ASSUME NEW c \in Workers, Gui!Call(c) \/ Gui!XSucceeds(c) \/ Gui!XFails(c)
      PROVE  GuiInv'
  BY <1>1, CallStep, XSucceedsStep, XFailsStep
<1>2. CASE Gui!Nudge
  <2>1. /\ pointer' \in Points /\ disturbed' = [d \in Workers |-> TRUE]
        /\ guiPc' = guiPc /\ request' = request /\ effects' = effects /\ guiResult' = guiResult
    BY <1>2 DEF Gui!Nudge
  <2>2. GuiTypes'
    BY <1>t, <2>1 DEF GuiTypes
  <2>3. \A d \in Workers : GuiUntouched(d)
    BY <2>1 DEF GuiUntouched
  <2> QED
    BY <2>2, <2>3, UntouchedStays DEF GuiInv
<1>3. CASE UNCHANGED Gui!vars
  <2>1. /\ pointer' = pointer /\ disturbed' = disturbed
        /\ guiPc' = guiPc /\ request' = request /\ effects' = effects /\ guiResult' = guiResult
    BY <1>3 DEF Gui!vars
  <2>2. GuiTypes'
    BY <1>t, <2>1 DEF GuiTypes
  <2>3. \A d \in Workers : GuiUntouched(d)
    BY <2>1 DEF GuiUntouched
  <2> QED
    BY <2>2, <2>3, UntouchedStays DEF GuiInv
<1> QED
  BY <1>1, <1>2, <1>3 DEF Gui!Next

LEMMA GuiInitially == Gui!Init => GuiInv
<1> SUFFICES ASSUME Gui!Init PROVE GuiInv
  OBVIOUS
<1>1. GuiTypes
  BY ToolsAssumption DEF Gui!Init, GuiTypes
<1>2. \A c \in Workers : GuiOf(c)
  <2> SUFFICES ASSUME NEW c \in Workers PROVE GuiOf(c)
    OBVIOUS
  <2>1. effects[c] = <<>> /\ guiPc[c] = 0 /\ guiResult[c] = "none"
    BY DEF Gui!Init
  <2> QED
    BY <2>1, NothingDone DEF GuiOf, Placed
<1> QED
  BY <1>1, <1>2 DEF GuiInv

(* What a call is told and what it has done, request by request to the X     *)
(* server, for every screen and every position beyond it                     *)
(* (action_executor.cpp:29-195).                                             *)
THEOREM GuiInvariance == Gui!Spec => []GuiInv
<1>1. GuiInv /\ [Gui!Next]_(Gui!vars) => GuiInv'
  BY GuiPreserved
<1> QED
  BY <1>1, GuiInitially, PTL DEF Gui!Spec

(* A GUI action reports what it did: a success has done all of it, at the    *)
(* place it was told if that is on the screen, unless somebody moved the     *)
(* pointer; a failure has done nothing, the first of a click, or a part of a *)
(* text (action_executor.cpp:29-195).                                        *)
THEOREM ReportHonest == Gui!Spec => []ReportIsTrue
<1>1. GuiInv => ReportIsTrue
  <2> SUFFICES ASSUME GuiInv, NEW c \in Workers
               PROVE  /\ guiResult[c] = "ok" =>
                           /\ Gui!Done(c) = Gui!Whole(request[c].action)
                           /\ (/\ request[c].action \in {"move_mouse", "click"}
                               /\ request[c].at \in Points /\ ~disturbed[c]) =>
                                \A i \in 1..Len(effects[c]) : effects[c][i][2] = request[c].at
                      /\ guiResult[c] = "failed" =>
                           \/ Gui!Done(c) = <<>>
                           \/ /\ request[c].action = "click"
                              /\ Gui!Done(c) \in {<<"move">>, <<"move", "down">>}
                           \/ request[c].action = "type_text" /\ Gui!Done(c) = <<"some">>
    BY DEF ReportIsTrue, Gui!ReportIsTrue
  <2>1. Gui!Done(c) = NamesOf(effects[c]) /\ (effects[c] = <<>> => Gui!Done(c) = <<>>)
    <3>1. Gui!Done(c) = NamesOf(effects[c])
      BY DEF Gui!Done, NamesOf
    <3> QED
      BY <3>1, NothingDone
  <2>2. ASSUME guiResult[c] = "failed"
        PROVE  \/ Gui!Done(c) = <<>>
               \/ request[c].action = "click" /\ Gui!Done(c) \in {<<"move">>, <<"move", "down">>}
               \/ request[c].action = "type_text" /\ Gui!Done(c) = <<"some">>
    BY <2>1, <2>2 DEF GuiInv, GuiOf, NotDone
  <2>3. ASSUME guiResult[c] = "ok"
        PROVE  Gui!Done(c) = Gui!Whole(request[c].action)
    <3> DEFINE kind_of == request[c].action
    <3>1. AllDone(c)
      BY <2>3 DEF GuiInv, GuiOf
    <3>2. CASE kind_of = "move_mouse"
      BY <2>1, <3>1, <3>2 DEF AllDone, Gui!Whole
    <3>3. CASE kind_of = "click"
      BY <2>1, <3>1, <3>3 DEF AllDone, Gui!Whole
    <3>4. CASE kind_of = "type_text"
      BY <2>1, <3>1, <3>4 DEF AllDone, Gui!Whole
    <3>5. CASE kind_of = "key_press"
      BY <2>1, <3>1, <3>5 DEF AllDone, Gui!Whole
    <3> QED
      BY <3>1, <3>2, <3>3, <3>4, <3>5 DEF AllDone
  <2>4. (/\ request[c].action \in {"move_mouse", "click"}
         /\ request[c].at \in Points /\ ~disturbed[c]) =>
          \A i \in 1..Len(effects[c]) : effects[c][i][2] = request[c].at
    BY DEF GuiInv, GuiOf, Placed, OnScreen, AllAt
  <2> QED
    BY <2>2, <2>3, <2>4
<1> QED
  BY <1>1, GuiInvariance, PTL

=============================================================================
