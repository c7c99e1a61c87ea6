------------------------------ MODULE HttpCalls ------------------------------
(***************************************************************************)
(* The HTTP calls of agents that run side by side: OllamaClient::chat and    *)
(* OllamaEmbeddingClient::embed over defaultOllamaHttpTransport, and         *)
(* web_search over performSearch (client/ollama_client.cpp,                  *)
(* client/ollama_embedding_client.cpp, tools/web_search_tool.cpp,            *)
(* tools/searxng_transport.cpp).  Each transport function initialises curl   *)
(* once per process in a static of its own and makes a curl handle per call. *)
(***************************************************************************)
EXTENDS Integers

CONSTANTS
  Workers,       \* the threads, each with an AgentLoop
  MaxCalls,      \* bound on the calls of a worker
  MaxResults,    \* request.max_results of a search
  Width          \* bits of the integers that count tokens

ASSUME HttpAssumption ==
  MaxCalls \in Nat /\ MaxResults \in Nat \ {0} /\ Width \in Nat \ {0}

Kinds == {"chat", "embed", "search"}
Site(k) == IF k = "search" THEN "performSearch" ELSE "defaultOllamaHttpTransport"
Sites == {Site(k) : k \in Kinds}

(* What a server can answer: nothing it should (not JSON, not the expected   *)
(* fields, a number no double can hold, an element of a wrong type), or what *)
(* it should.  The count is an unsigned number of Width bits; results is how *)
(* many well-formed results there are; a reply defective otherwise has none. *)
Bodies == {"good", "notJson", "missing", "overflow", "badElement"}
Replies(k) ==
  {r \in [status : {200, 500}, body : Bodies, count : 0..(2^Width - 1),
           results : 0..(MaxResults + 1)] :
     /\ r.count # 0 => k # "search" /\ r.body = "good"
     /\ r.results # 0 => k = "search" /\ r.body \in {"good", "badElement"}}

VARIABLES
  static,     \* static[s]: curl_initialized of transport s
  pc, kind,   \* where a worker is in its call, and what it calls
  easy, headers,  \* curl handles and header lists acquired less those freed
  reply,      \* what the server sends
  received,   \* how much of it arrived: "none", "part" or "whole"
  status,     \* the status code curl knows, 0 for none
  transfer,   \* error_message, "ok" for an empty one, or "error"
  response,   \* what the call returned
  chatted,    \* the agent's latest chat succeeded: it may call a tool
  calls

vars == <<static, pc, kind, easy, headers, reply, received, status, transfer,
          response, chatted, calls>>

NoReply == [status |-> 500, body |-> "notJson", count |-> 0, results |-> 0]
Failed == [success |-> FALSE, tokens |-> 0, results |-> 0]

Init ==
  /\ static = [s \in Sites |-> "no"]
  /\ pc = [w \in Workers |-> "idle"] /\ kind = [w \in Workers |-> "chat"]
  /\ easy = [w \in Workers |-> 0] /\ headers = [w \in Workers |-> 0]
  /\ reply = [w \in Workers |-> NoReply] /\ received = [w \in Workers |-> "none"]
  /\ status = [w \in Workers |-> 0] /\ transfer = [w \in Workers |-> "ok"]
  /\ response = [w \in Workers |-> Failed]
  /\ chatted = [w \in Workers |-> FALSE] /\ calls = [w \in Workers |-> 0]

Goto(w, place) == pc' = [pc EXCEPT ![w] = place]

Return(w, r) ==
  /\ response' = [response EXCEPT ![w] = r]
  /\ chatted' = [chatted EXCEPT ![w] = IF kind[w] = "chat" THEN r.success ELSE @]
  /\ Goto(w, "idle")

(* The transport gives up with an error message.                             *)
Abandon(w) ==
  /\ transfer' = [transfer EXCEPT ![w] = "error"]
  /\ Goto(w, "parse")

-----------------------------------------------------------------------------
(* The configuration and the request are checked before the transport is     *)
(* called.  AgentLoop::run asks the LLM first and calls tools only when it   *)
(* has an answer.                                                            *)
Begin(w) ==
  /\ pc[w] = "idle" /\ calls[w] < MaxCalls
  /\ calls' = [calls EXCEPT ![w] = @ + 1]
  /\ kind' \in {[kind EXCEPT ![w] = k] : k \in IF chatted[w] THEN Kinds ELSE {"chat"}}
  /\ response' = [response EXCEPT ![w] = Failed]
  /\ received' = [received EXCEPT ![w] = "none"]
  /\ status' = [status EXCEPT ![w] = 0] /\ transfer' = [transfer EXCEPT ![w] = "ok"]
  /\ reply' = [reply EXCEPT ![w] = NoReply]
  /\ Goto(w, "static")
  /\ UNCHANGED <<static, easy, headers, chatted>>

Refuse(w) ==
  /\ pc[w] = "static"
  /\ Return(w, Failed)
  /\ UNCHANGED <<static, kind, easy, headers, reply, received, status, transfer, calls>>

StartInitUnguarded(w) ==       \* a flag that is tested, then set
  /\ pc[w] = "static" /\ static[Site(kind[w])] \in {"no", "running"}
  /\ static' = [static EXCEPT ![Site(kind[w])] = "running"]
  /\ Goto(w, "init")
  /\ UNCHANGED <<kind, easy, headers, reply, received, status, transfer, response,
                 chatted, calls>>

(* The first thread to reach the static runs curl_global_init; others wait   *)
(* until it has a value.                                                     *)
StartInit(w) ==
  /\ pc[w] = "static" /\ static[Site(kind[w])] = "no"
  /\ static' = [static EXCEPT ![Site(kind[w])] = "running"]
  /\ Goto(w, "init")
  /\ UNCHANGED <<kind, easy, headers, reply, received, status, transfer, response,
                 chatted, calls>>

GlobalInit(w) ==
  /\ pc[w] = "init"
  /\ static' \in {[static EXCEPT ![Site(kind[w])] = outcome] : outcome \in {"ok", "failed"}}
  /\ Goto(w, "static")
  /\ UNCHANGED <<kind, easy, headers, reply, received, status, transfer, response,
                 chatted, calls>>

(* curl_easy_init; no later call succeeds once curl_global_init has failed.  *)
EasyInit(w) ==
  /\ pc[w] = "static" /\ static[Site(kind[w])] \in {"ok", "failed"}
  /\ \/ /\ static[Site(kind[w])] = "ok"
        /\ easy' = [easy EXCEPT ![w] = @ + 1]
        /\ Goto(w, "setup") /\ UNCHANGED transfer
     \/ Abandon(w) /\ UNCHANGED easy
  /\ UNCHANGED <<static, kind, headers, reply, received, status, response, chatted, calls>>

(* The request for Ollama has a header list.                                 *)
AddHeaders(w) ==
  /\ pc[w] = "setup" /\ kind[w] # "search" /\ headers[w] = 0
  /\ headers' = [headers EXCEPT ![w] = @ + 1]
  /\ UNCHANGED <<static, pc, kind, easy, reply, received, status, transfer, response,
                 chatted, calls>>

SetupFailsKeeping(w) ==        \* the header list is not freed
  /\ pc[w] = "setup"
  /\ easy' = [easy EXCEPT ![w] = @ - 1]
  /\ Abandon(w)
  /\ UNCHANGED <<static, kind, headers, reply, received, status, response, chatted, calls>>

(* The payload is too large, the header list cannot be made (Ollama), or an  *)
(* option is refused.                                                        *)
SetupFails(w) ==
  /\ pc[w] = "setup"
  /\ easy' = [easy EXCEPT ![w] = @ - 1]
  /\ headers' = [headers EXCEPT ![w] = IF @ > 0 THEN @ - 1 ELSE 0]
  /\ Abandon(w)
  /\ UNCHANGED <<static, kind, reply, received, status, response, chatted, calls>>

(* The request goes out and the server answers.                              *)
Send(w) ==
  /\ pc[w] = "setup" /\ (kind[w] = "search" \/ headers[w] > 0)
  /\ reply' \in {[reply EXCEPT ![w] = r] : r \in Replies(kind[w])}
  /\ Goto(w, "perform")
  /\ UNCHANGED <<static, kind, easy, headers, received, status, transfer, response,
                 chatted, calls>>

(* curl_easy_perform ends: in time or not, with an error or not, with all of *)
(* the reply or some (a server that closes early need not be an error), and  *)
(* then everything is released.                                              *)
Perform(w) ==
  /\ pc[w] = "perform"
  /\ \E part \in {"none", "part", "whole"}, known \in {0, reply[w].status} :
       /\ part # "none" => known # 0
       /\ received' = [received EXCEPT ![w] = part]
       /\ status' = [status EXCEPT ![w] = known]
       /\ \/ known # 0 /\ UNCHANGED transfer
          \/ transfer' = [transfer EXCEPT ![w] = "error"]
  /\ easy' = [easy EXCEPT ![w] = @ - 1]
  /\ headers' = [headers EXCEPT ![w] = IF kind[w] = "search" THEN @ ELSE @ - 1]
  /\ Goto(w, "parse")
  /\ UNCHANGED <<static, kind, reply, response, chatted, calls>>

-----------------------------------------------------------------------------
Accepted(k) == IF k = "embed" THEN {"good"} ELSE {"good", "badElement"}

(* readIntegerField and readPromptTokens: get<int64_t> also takes what does  *)
(* not fit, so the clamp after it is never reached.                          *)
Tokens(r) ==
  CASE r.body = "badElement" -> 0
    [] r.count >= 2^(Width - 1) -> r.count - 2^Width
    [] OTHER -> r.count

AtMost(n) == IF n > MaxResults THEN MaxResults ELSE n
Fields(r) == [success |-> TRUE, tokens |-> Tokens(r), results |-> AtMost(r.results)]

(* A reply that is cut is empty or not JSON.                                 *)
Readable(w) == received[w] = "whole" /\ reply[w].body \in Accepted(kind[w])

ParseAnyStatus(w) ==           \* the body alone decides
  /\ pc[w] = "parse"
  /\ Return(w, IF transfer[w] = "ok" /\ Readable(w) THEN Fields(reply[w]) ELSE Failed)
  /\ UNCHANGED <<static, kind, easy, headers, reply, received, status, transfer, calls>>

(* Exceptions of the JSON library, a number out of range among them, are     *)
(* caught and make the call fail like any other defect.                      *)
Parse(w) ==
  /\ pc[w] = "parse"
  /\ Return(w, IF transfer[w] = "ok" /\ status[w] = 200 /\ Readable(w)
                 THEN Fields(reply[w]) ELSE Failed)
  /\ UNCHANGED <<static, kind, easy, headers, reply, received, status, transfer, calls>>

Step(w) ==
  \/ Begin(w) \/ Refuse(w) \/ StartInit(w) \/ GlobalInit(w) \/ EasyInit(w)
  \/ AddHeaders(w) \/ SetupFails(w) \/ Send(w) \/ Perform(w) \/ Parse(w)

Terminated == \A w \in Workers : pc[w] = "idle" /\ calls[w] = MaxCalls

Next == (\E w \in Workers : Step(w)) \/ (Terminated /\ UNCHANGED vars)

Spec == Init /\ [][Next]_vars

-----------------------------------------------------------------------------
(* Whatever goes wrong on the way, a call that is over, or is at its last    *)
(* stage, has freed the curl handle and the header list it got, and has not  *)
(* freed either twice.                                                       *)
HandlesReleased ==
  \A w \in Workers :
    /\ pc[w] \in {"idle", "static", "init", "parse"} => easy[w] = 0 /\ headers[w] = 0
    /\ easy[w] \in {0, 1} /\ headers[w] \in {0, 1}

(* curl_global_init is not thread-safe.  No two calls of it overlap: neither *)
(* two of one transport, nor one of the chat transport with one of the       *)
(* search transport, whose guards know nothing of each other.                *)
InitIsExclusive ==
  \A v, w \in Workers : pc[v] = "init" /\ pc[w] = "init" => v = w

(* A call succeeds only with all of a reply that says so and is what the     *)
(* kind of call needs: never on a cut body, on the leftovers of an earlier   *)
(* call or on an error page; a count that fits is taken over as it is, and a *)
(* search has no more results than were asked for.                           *)
SuccessIsWholeReply ==
  \A w \in Workers : pc[w] = "idle" /\ response[w].success =>
    /\ reply[w].status = 200 /\ received[w] = "whole"
    /\ reply[w].body = "good" \/ (reply[w].body = "badElement" /\ kind[w] # "embed")
    /\ reply[w].body = "good" /\ reply[w].count < 2^(Width - 1)
         => response[w].tokens = reply[w].count
    /\ response[w].results <= MaxResults /\ response[w].results <= reply[w].results

=============================================================================
