----------------------------- MODULE ToolRegistry -----------------------------
(***************************************************************************)
(* The registry of tools (tools/tool_registry.cpp): factories under names,   *)
(* an allow list and a deny list, and the execution of a tool by name.  The  *)
(* application registers and sets the policy; AgentLoop reads the offered    *)
(* tools when a run starts and executes them, and what it calls in between   *)
(* (a step hook) may change the registry.                                    *)
(***************************************************************************)
EXTENDS Naturals, Sequences

CONSTANTS
  Names,       \* tool names
  Empty,       \* the empty name, not among Names
  Factories,   \* factories of working tools, each with its own description
  None,
  MaxCalls     \* bound on the calls that change the registry

VARIABLES
  entries,     \* name -> [factory, description]
  allow_list, deny_list,
  offered,     \* the tools in the system prompt of the run: name -> description
  ran,         \* the factory of the tool that the latest execute() ran, or None
  log          \* history: the calls that changed the registry, or were to

vars == <<entries, allow_list, deny_list, offered, ran, log>>

Description(f) == f            \* of the prototype that f builds
Entry(f) == [factory |-> f, description |-> Description(f)]

Init ==
  /\ entries = <<>>
  /\ allow_list = {} /\ deny_list = {}
  /\ offered = <<>> /\ ran = None /\ log = <<>>

Logged(call) == Len(log) < MaxCalls /\ log' = Append(log, call)

contains(n) == n \in DOMAIN entries
IsAllowed(n) == n \notin deny_list /\ (allow_list = {} \/ n \in allow_list)

With(n, entry) == [m \in DOMAIN entries \cup {n} |-> IF m = n THEN entry ELSE entries[m]]
Registered(n, f) == With(n, Entry(f))

-----------------------------------------------------------------------------
(* The prototype is good; a name that is taken is replaced only on request.  *)
RegisterFactory(n, f, replace) ==
  /\ Logged([call |-> "register", name |-> n, factory |-> f, replace |-> replace])
  /\ entries' = IF contains(n) /\ ~replace THEN entries ELSE Registered(n, f)
  /\ UNCHANGED <<allow_list, deny_list, offered, ran>>

(* An empty name, or a factory that is empty, throws, or returns nothing or a *)
(* tool of another name: registerFactory throws.                             *)
RegisterInvalid ==
  /\ UNCHANGED vars

UnregisterTool(n) ==
  /\ Logged([call |-> "unregister", name |-> n])
  /\ entries' = [m \in DOMAIN entries \ {n} |-> entries[m]]
  /\ UNCHANGED <<allow_list, deny_list, offered, ran>>

AllowOnlyAdding(names) ==      \* without the clear()
  /\ Logged([call |-> "allowOnly", names |-> names])
  /\ allow_list' = allow_list \cup (names \ {Empty})
  /\ UNCHANGED <<entries, deny_list, offered, ran>>

AllowOnly(names) ==
  /\ Logged([call |-> "allowOnly", names |-> names])
  /\ allow_list' = names \ {Empty}
  /\ UNCHANGED <<entries, deny_list, offered, ran>>

Deny(names) ==
  /\ Logged([call |-> "deny", names |-> names])
  /\ deny_list' = names \ {Empty}
  /\ UNCHANGED <<entries, allow_list, offered, ran>>

ClearPolicy ==
  /\ Logged([call |-> "clearPolicy"])
  /\ allow_list' = {} /\ deny_list' = {}
  /\ UNCHANGED <<entries, offered, ran>>

-----------------------------------------------------------------------------
(* availableTools for the prompt of a run.                                   *)
Offer ==
  /\ offered' = [n \in {m \in DOMAIN entries : IsAllowed(m)} |-> entries[n].description]
  /\ UNCHANGED <<entries, allow_list, deny_list, ran, log>>

(* The factory makes the tool, or throws or returns nothing this time.       *)
Execute(n) ==
  /\ ran' \in IF contains(n) /\ IsAllowed(n) THEN {entries[n].factory, None} ELSE {None}
  /\ UNCHANGED <<entries, allow_list, deny_list, offered, log>>

Next ==
  \/ \E n \in Names, f \in Factories, replace \in BOOLEAN : RegisterFactory(n, f, replace)
  \/ RegisterInvalid
  \/ \E n \in Names : UnregisterTool(n)
  \/ \E names \in SUBSET (Names \cup {Empty}) : AllowOnly(names) \/ Deny(names)
  \/ ClearPolicy
  \/ Offer
  \/ \E n \in Names \cup {Empty} : Execute(n)

Spec == Init /\ [][Next]_vars

-----------------------------------------------------------------------------
(* What the calls of a log mean: the latest call of a kind decides.          *)
Latest(S) == {i \in S : \A j \in S : j <= i}      \* of indices: one, if any
Earliest(S) == {i \in S : \A j \in S : i <= j}

Setting(l, kind) ==
  LET calls == {i \in DOMAIN l : l[i].call \in {kind, "clearPolicy"}}
  IN UNION {l[i].names \ {Empty} : i \in {j \in Latest(calls) : l[j].call = kind}}

Permitted(n) ==
  /\ n \notin Setting(log, "deny")
  /\ Setting(log, "allowOnly") # {} => n \in Setting(log, "allowOnly")

(* The registrations of n since it was free, and the one in force: the first,*)
(* or the latest that asked to replace.                                      *)
CallsOn(l, kind, n) == {i \in DOMAIN l : l[i].call = kind /\ l[i].name = n}
Registrations(l, n) ==
  {i \in CallsOn(l, "register", n) : \A j \in CallsOn(l, "unregister", n) : j < i}
Decisive(l, n) ==
  LET replacing == {i \in Registrations(l, n) : l[i].replace}
  IN IF replacing = {} THEN Earliest(Registrations(l, n)) ELSE Latest(replacing)

FactoryOf(n) ==
  IF Registrations(log, n) = {} THEN None
  ELSE log[CHOOSE i \in Decisive(log, n) : TRUE].factory

(* "Deny-list always wins" and "Empty allow-list means allow every registered*)
(* tool" (tool_registry.h:44): a tool runs only if the latest deny() does not*)
(* name it and the latest allowOnly(), unless it named nothing, does; and it *)
(* is the tool of the registration in force, whatever failed, refused or     *)
(* repeated registrations and other settings came in between.  The run is    *)
(* told of every tool it can run and of no other, each with the description  *)
(* of the very tool that would run.                                          *)
LatestCallsDecide ==
  [][/\ \A n \in Names : Execute(n) /\ ran' # None =>
          Permitted(n) /\ ran' = FactoryOf(n)
     /\ Offer => offered' = [n \in {m \in Names : Permitted(m) /\ FactoryOf(m) # None} |->
                               Description(FactoryOf(n))]]_vars

=============================================================================
