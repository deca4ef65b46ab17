--------------------------------- MODULE Engine ---------------------------------
(***************************************************************************)
(* The engine that a host talks to, dscript/OLEScript.cpp: its script      *)
(* state, the named items that the host gives it objects by, the script    *)
(* blocks it was handed, and the blocks that run.  A running block calls   *)
(* objects of the host, and the host may call the engine back before it    *)
(* returns: stack has the calls of the engine that are not over.           *)
(*                                                                         *)
(* This is the engine as linux.mak builds it, without event handlers.      *)
(* OnStateChange and the other callbacks are taken to make no calls.       *)
(* A definition followed by the one it is named after is a broken form of  *)
(* it: see Gc.                                                             *)
(***************************************************************************)
EXTENDS Integers, SequencesExt

CONSTANTS
  Item,       \* names of named items
  Flag,       \* the sets of flags that the host adds them with
  MaxScripts, \* bounds of the model: on script blocks,
  MaxModules, \* on module numbers,
  MaxDepth,   \* and on blocks that run inside of each other
  Uses,       \* what the host does: see UsesAssumption
  None

\* "orphan": persistent blocks in the module of an item that is not persistent.
\* "nested": calls from inside a block that reset, close or start the engine, or
\* hand it blocks while it works through those it has.
ASSUME UsesAssumption == Uses \subseteq {"orphan", "nested"}
ASSUME EngineAssumption ==
  /\ Flag \subseteq SUBSET {"global", "visible", "persistent", "codeonly", "nocode"}
  /\ None \notin Item \cup {"started", "connected", "error", "module"}
  /\ MaxScripts \in Nat /\ MaxModules \in Nat /\ MaxDepth \in Nat

VARIABLES
  m_ssState,
  m_fPersistLoaded,
  m_pScriptSite,       \* is there one?
  m_pProgram,          \* is there one?
  m_pccGlobal,         \* the global context, or None
  m_pNamedItems,
  m_uNextModuleNumber,
  m_pParsedScripts,
  stack,
  parsed,   \* how many blocks were parsed
  due,      \* history: blocks that wait to be run
  stopped,  \* history: what ended the last turn through the blocks early, or None
  failed    \* history: assertions of the code that failed

host    == <<m_fPersistLoaded, m_pScriptSite>>
names   == <<m_pccGlobal, m_pNamedItems, m_uNextModuleNumber>>
scripts == <<m_pParsedScripts, parsed, due>>
vars    == <<m_ssState, host, m_pProgram, names, scripts, stack, stopped, failed>>

GLOBAL_MODULE == 0
State     == {"uninitialized", "initialized", "started", "connected", "disconnected", "closed"}
NamedItem == [name : Item, flags : Flag, module : 0 .. MaxModules,
              wrapper : BOOLEAN, registered : BOOLEAN]
Block     == [id : 1 .. MaxScripts, module : 0 .. MaxModules,
              persistent : BOOLEAN, executed : BOOLEAN]
\* A context is the objects of the host below the global object, scoperoot, and the names of
\* items that are properties of the global object.
Context   == [scope : Seq(Item), scoperoot : Nat, visible : SUBSET Item]
\* A call of ExecuteParsedScript for a block: from ParseScriptText, or from
\* _ExecutePendingScripts, which then has ppLink in the block link and goes on to the state goal.
Run       == [block : Block, link : 0 .. MaxScripts, goal : {None, "started", "connected"}]

TypeOK ==
  /\ m_ssState \in State
  /\ {m_fPersistLoaded, m_pScriptSite, m_pProgram} \subseteq BOOLEAN
  /\ m_pccGlobal \in Context \cup {None}
  /\ m_pNamedItems \in Seq(NamedItem)
  /\ m_uNextModuleNumber \in 1 .. MaxModules + 1
  /\ m_pParsedScripts \in Seq(Block)
  /\ stack \in Seq(Run)
  /\ parsed \in 0 .. MaxScripts /\ due \subseteq 1 .. parsed
  /\ stopped \in {None, "error", "module"}

------------------------------------------------------------------------------
(* Calls *)

\* Calls that hosts make from inside a block only under Uses.
Quiet == stack = <<>> \/ "nested" \in Uses

\* An assertion, or a use of a pointer.
Asserted(what, holds) == IF holds THEN {} ELSE {what}

------------------------------------------------------------------------------
(* Named items *)

Known(name)     == \E i \in Range(m_pNamedItems) : i.name = name
FindName(name)  == CHOOSE i \in Range(m_pNamedItems) : i.name = name
HasModule(items, m) == \E i \in Range(items) : i.module = m
HasCode(flags)  == "codeonly" \in flags \/ "nocode" \notin flags
Conflict(flags) == "codeonly" \in flags /\ flags \cap {"global", "visible", "nocode"} # {}

\* Those of a sequence that are in a set, in their order.
Within(s, T) ==
  LET upTo[k \in 0 .. Len(s)] ==
        IF k = 0 THEN <<>>
        ELSE IF s[k] \in T THEN Append(upTo[k - 1], s[k]) ELSE upTo[k - 1]
  IN  upTo[Len(s)]

NewContext == [scope |-> <<>>, scoperoot |-> 1, visible |-> {}]
NameOf(i)  == i.name

\* Items are registered one after the other, each below the ones before it. The host knows an
\* object for those in answered; the others are left alone.
RegisteredItems(items, answered) ==
  [k \in DOMAIN items |->
    IF items[k].name \in answered
    THEN [items[k] EXCEPT !.wrapper = TRUE, !.registered = TRUE] ELSE items[k]]

Answered(items, answered, flag) == {i \in Range(items) : i.name \in answered /\ flag \in i.flags}
RegisteredContextAll(cc, items, answered) ==
  LET global == Within(items, {i \in Range(items) : "global" \in i.flags})
  IN [scope     |-> Reverse([k \in DOMAIN global |-> NameOf(global[k])]) \o cc.scope,
      scoperoot |-> cc.scoperoot + Len(global),
      visible   |-> cc.visible \cup {i.name : i \in Answered(items, Item, "visible")}]
RegisteredContext(cc, items, answered) ==
  LET global == Within(items, Answered(items, answered, "global"))
  IN [scope     |-> Reverse([k \in DOMAIN global |-> NameOf(global[k])]) \o cc.scope,
      scoperoot |-> cc.scoperoot + Len(global),
      visible   |-> cc.visible \cup {i.name : i \in Answered(items, answered, "visible")}]

NeverTwice(items) == \A i \in Range(items) : ~i.registered /\ ~i.wrapper

\* Items lose their wrappers, and those that are not persistent are deleted.
Persistent(items) == {i \in Range(items) : "persistent" \in i.flags}
ResetItemsForgets(items) ==
  LET kept == Within(items, Persistent(items))
  IN [k \in DOMAIN kept |-> [kept[k] EXCEPT !.wrapper = FALSE]]
ResetItems(items) ==
  LET kept == Within(items, Persistent(items))
  IN [k \in DOMAIN kept |-> [kept[k] EXCEPT !.wrapper = FALSE, !.registered = FALSE]]

AddNamedItem(name, flags, answered) ==
  /\ ~Conflict(flags) /\ ~Known(name)
  /\ "global" \in flags \/ m_uNextModuleNumber <= MaxModules
  /\ LET item == [name |-> name, flags |-> flags, wrapper |-> FALSE, registered |-> FALSE,
                  module |-> IF "global" \in flags THEN GLOBAL_MODULE ELSE m_uNextModuleNumber]
     IN /\ m_uNextModuleNumber' = IF "global" \in flags THEN m_uNextModuleNumber
                                                        ELSE m_uNextModuleNumber + 1
        /\ IF m_pScriptSite
           THEN /\ m_pNamedItems' = RegisteredItems(<<item>>, answered) \o m_pNamedItems
                /\ m_pccGlobal' = RegisteredContext(m_pccGlobal, <<item>>, answered)
           ELSE UNCHANGED <<m_pNamedItems, m_pccGlobal>>
  /\ UNCHANGED <<m_ssState, host, m_pProgram, scripts, stack, stopped, failed>>

------------------------------------------------------------------------------
(* Script blocks *)

IndexOf(id) == CHOOSE k \in DOMAIN m_pParsedScripts : m_pParsedScripts[k].id = id

\* Blocks that are not persistent are deleted, the others wait to run again.
ResetScripts(blocks) ==
  LET kept == Within(blocks, {b \in Range(blocks) : b.persistent})
  IN [k \in DOMAIN kept |-> [kept[k] EXCEPT !.executed = FALSE]]

RunsNow == m_ssState \in {"started", "connected", "disconnected"}

\* Without a name, or for an item with global members, a block is of the global module.
\* One that cannot run yet is put before the others.
ParseScriptText(name, persistent) ==
  /\ m_ssState \notin {"uninitialized", "closed"}
  /\ parsed < MaxScripts
  /\ name # None => /\ Known(name) /\ HasCode(FindName(name).flags)
                    /\ persistent => "orphan" \in Uses \/ "persistent" \in FindName(name).flags
  /\ parsed' = parsed + 1
  /\ LET block == [id |-> parsed + 1, persistent |-> persistent, executed |-> FALSE,
                   module |-> IF name = None THEN GLOBAL_MODULE ELSE FindName(name).module]
     IN IF RunsNow
        THEN /\ Len(stack) < MaxDepth
             /\ stack' = Append(stack, [block |-> block, link |-> 0, goal |-> None])
             /\ failed' = failed \cup Asserted("m_pScriptSite", m_pScriptSite)
             /\ UNCHANGED <<m_pParsedScripts, due>>
        ELSE /\ Quiet
             /\ m_pParsedScripts' = <<block>> \o m_pParsedScripts
             /\ due' = due \cup {block.id}
             /\ UNCHANGED <<stack, failed>>
  /\ UNCHANGED <<m_ssState, host, m_pProgram, names, stopped>>

\* What a turn through the blocks begins or goes on with.
Now(asserted) == [state |-> m_ssState, due |-> due, failed |-> failed \cup asserted]

\* The state that the host asked for is entered however the blocks ended.
LeavePending(now, goal, why, below) ==
  /\ m_ssState' = goal
  /\ stack' = below /\ stopped' = why /\ due' = now.due
  /\ failed' = now.failed
       \cup Asserted("Run", goal = "connected" => now.state \in {"initialized", "started"})

\* The loop of _ExecutePendingScripts over blocks, from its place from, to the next one to run.
\* Any block of another module ends it.
Advance(now, blocks, from, goal, below) ==
  LET ahead == {k \in DOMAIN blocks : k >= from /\ ~blocks[k].executed}
      k     == CHOOSE k \in ahead : \A j \in ahead : k <= j
  IN IF ahead = {} THEN LeavePending(now, goal, None, below)
     ELSE IF blocks[k].module # GLOBAL_MODULE
     THEN LeavePending([now EXCEPT !.failed =
                          @ \cup Asserted("pnid", HasModule(m_pNamedItems', blocks[k].module))],
                       goal, "module", below)
     ELSE /\ m_ssState' = now.state
          /\ stack' = Append(below, [block |-> blocks[k], goal |-> goal,
                                     link |-> IF k = 1 THEN 0 ELSE blocks[k - 1].id])
          /\ due' = now.due \ {blocks[k].id}
          /\ failed' = now.failed \cup Asserted("m_pScriptSite", m_pScriptSite)
          /\ UNCHANGED stopped

\* The place that *ppLink is about, and *ppLink = pCode->pNext.
After(link)       == IF link = 0 THEN 1 ELSE IndexOf(link) + 1
UnlinkedFirst(link, k) == SubSeq(m_pParsedScripts, k + 1, Len(m_pParsedScripts))
Unlinked(link, k) == SubSeq(m_pParsedScripts, 1, After(link) - 1)
                       \o SubSeq(m_pParsedScripts, k + 1, Len(m_pParsedScripts))

\* The last block ends. ExitScript tells the site, and the context is one of the program.
Leave == Asserted("m_pProgram", m_pProgram) \cup Asserted("m_pScriptSite", m_pScriptSite)

ReturnToParse ==
  /\ stack # <<>> /\ Last(stack).goal = None
  /\ LET block == Last(stack).block
     IN m_pParsedScripts' = IF block.persistent
                            THEN <<[block EXCEPT !.executed = TRUE]>> \o m_pParsedScripts
                            ELSE m_pParsedScripts
  /\ stack' = Front(stack)
  /\ failed' = failed \cup Leave
  /\ UNCHANGED <<m_ssState, host, m_pProgram, names, parsed, due, stopped>>

\* An error is reported to the host, and no more blocks are run.
ReturnToPending(error) ==
  /\ stack # <<>> /\ Last(stack).goal # None
  /\ UNCHANGED <<host, m_pProgram, names, parsed>>
  /\ LET run == Last(stack)
         k   == IndexOf(run.block.id)
     IN IF run.block.id \notin {b.id : b \in Range(m_pParsedScripts)}
        THEN /\ UNCHANGED m_pParsedScripts
             /\ LeavePending(Now({"pCode"}), run.goal, "error", Front(stack))
        ELSE /\ m_pParsedScripts' = IF run.block.persistent
                                    THEN [m_pParsedScripts EXCEPT ![k].executed = TRUE]
                                    ELSE Unlinked(run.link, k)
             /\ IF error
                THEN LeavePending(Now(Leave), run.goal, "error", Front(stack))
                ELSE Advance(Now(Leave), m_pParsedScripts',
                             IF run.block.persistent THEN k + 1 ELSE After(run.link),
                             run.goal, Front(stack))

------------------------------------------------------------------------------
(* Script states *)

\* _RegisterPersistentNamedItems, for items in a context.
Register(items, cc, answered) ==
  /\ m_pNamedItems' = RegisteredItems(items, answered)
  /\ m_pccGlobal'   = RegisteredContext(cc, items, answered)

Resets(answered) ==
  /\ m_pParsedScripts' = ResetScripts(m_pParsedScripts)
  /\ Register(ResetItems(m_pNamedItems), NewContext, answered)
RegisterAsserts == Asserted("fRegistered", NeverTwice(ResetItems(m_pNamedItems)))
Waiting == {b.id : b \in Range(ResetScripts(m_pParsedScripts))}

SetScriptSite(answered) ==
  /\ ~m_pScriptSite /\ m_ssState # "closed" \* a host does not use an engine that it closed
  /\ m_pScriptSite' = TRUE
  /\ Register(m_pNamedItems, m_pccGlobal, answered)
  /\ m_ssState' = IF m_fPersistLoaded THEN "initialized" ELSE m_ssState
  /\ failed' = failed \cup Asserted("fRegistered", NeverTwice(m_pNamedItems))
                      \cup Asserted("m_pProgram", m_pProgram)
  /\ UNCHANGED <<m_fPersistLoaded, m_pProgram, m_uNextModuleNumber, scripts, stack, stopped>>

InitNew ==
  /\ ~m_fPersistLoaded
  /\ m_fPersistLoaded' = TRUE
  /\ m_ssState' = IF m_pScriptSite THEN "initialized" ELSE m_ssState
  /\ UNCHANGED <<m_pScriptSite, m_pProgram, names, scripts, stack, stopped, failed>>

\* The states of SetScriptState. None of them does anything when it is the present one, or when
\* the engine is uninitialized or closed.
SetInitialized(answered) ==
  /\ Quiet /\ m_ssState \in {"started", "connected", "disconnected"}
  /\ Resets(answered) /\ due' = Waiting
  /\ m_ssState' = "initialized"
  /\ failed' = failed \cup RegisterAsserts
  /\ UNCHANGED <<host, m_pProgram, m_uNextModuleNumber, parsed, stack, stopped>>

\* _ExecutePendingScripts, and then the state.
StartPending(goal) ==
  /\ Quiet /\ m_ssState = "initialized" /\ Len(stack) < MaxDepth
  /\ UNCHANGED <<host, m_pProgram, names, m_pParsedScripts, parsed>>
  /\ Advance(Now({}), m_pParsedScripts, 1, goal, stack)

Restart(answered) ==
  /\ Quiet /\ m_ssState = "disconnected" /\ Len(stack) < MaxDepth
  /\ Resets(answered)
  /\ Advance([state |-> "initialized", due |-> Waiting, failed |-> failed \cup RegisterAsserts],
             m_pParsedScripts', 1, "started", stack)
  /\ UNCHANGED <<host, m_pProgram, m_uNextModuleNumber, parsed>>

\* Changes of state that do nothing else when there are no event handlers.
ChangeOnly(from, to) ==
  /\ m_ssState = from /\ m_ssState' = to
  /\ UNCHANGED <<host, m_pProgram, names, scripts, stack, stopped, failed>>

SetStarted(answered) == StartPending("started") \/ Restart(answered)
                          \/ ChangeOnly("connected", "started")
SetConnected         == StartPending("connected") \/ ChangeOnly("started", "connected")
                          \/ ChangeOnly("disconnected", "connected")
SetDisconnected      == ChangeOnly("connected", "disconnected")

SetUninitialized ==
  /\ Quiet /\ m_ssState \notin {"uninitialized", "closed"}
  /\ m_pNamedItems' = ResetItems(m_pNamedItems) /\ m_pccGlobal' = NewContext
  /\ m_pParsedScripts' = ResetScripts(m_pParsedScripts) /\ due' = Waiting
  /\ m_pScriptSite' = FALSE
  /\ m_ssState' = "uninitialized"
  /\ UNCHANGED <<m_fPersistLoaded, m_pProgram, m_uNextModuleNumber, parsed, stack, stopped, failed>>

Close ==
  /\ Quiet /\ m_ssState # "closed"
  /\ IF m_ssState = "uninitialized"
     THEN UNCHANGED <<m_pccGlobal, m_pProgram>>
     ELSE m_pccGlobal' = None /\ m_pProgram' = FALSE
  /\ m_pNamedItems' = <<>> /\ m_pParsedScripts' = <<>> /\ due' = {}
  /\ m_pScriptSite' = FALSE
  /\ m_ssState' = "closed"
  /\ UNCHANGED <<m_fPersistLoaded, m_uNextModuleNumber, parsed, stack, stopped, failed>>

------------------------------------------------------------------------------
Init ==
  /\ m_ssState = "uninitialized"
  /\ m_fPersistLoaded = FALSE /\ m_pScriptSite = FALSE /\ m_pProgram = TRUE
  /\ m_pccGlobal = NewContext /\ m_pNamedItems = <<>> /\ m_uNextModuleNumber = GLOBAL_MODULE + 1
  /\ m_pParsedScripts = <<>> /\ parsed = 0 /\ due = {}
  /\ stack = <<>> /\ stopped = None /\ failed = {}

Next ==
  \/ InitNew \/ SetConnected \/ SetDisconnected \/ SetUninitialized \/ Close
  \/ \E answered \in SUBSET Item :
       \/ SetScriptSite(answered) \/ SetInitialized(answered) \/ SetStarted(answered)
       \/ \E name \in Item, flags \in Flag : AddNamedItem(name, flags, answered)
  \/ \E name \in Item \cup {None}, persistent \in BOOLEAN : ParseScriptText(name, persistent)
  \/ ReturnToParse
  \/ \E error \in BOOLEAN : ReturnToPending(error)

Spec == Init /\ [][Next]_vars

------------------------------------------------------------------------------
(* Properties *)

\* No assertion of the engine fails and no pointer it uses is NULL or deleted: items are
\* registered once (OLEScript.cpp:2770, 2811), blocks run with a site (2223) and find their
\* module (1956), Run comes from a state it allows (2881).
AssertionsHold == failed = {}

\* The global context has the wrapper of each registered item with global members once, as deep
\* as scoperoot says, and the names of the visible items, through all resets: a block looks
\* names up in all objects that the host has registered, and in no others.
ScopeIsItems ==
  m_ssState # "closed" =>
    LET made   == {i \in Range(m_pNamedItems) : i.registered}
        global == {i \in made : "global" \in i.flags}
    IN /\ IsInjective(m_pccGlobal.scope)
       /\ Range(m_pccGlobal.scope) = {i.name : i \in global}
       /\ m_pccGlobal.scoperoot = Len(m_pccGlobal.scope) + 1
       /\ m_pccGlobal.visible = {i.name : i \in {j \in made : "visible" \in j.flags}}

\* A block of a module of its own waits wherever a block waits, or before it.
Headed(blocks) ==
  \A k \in DOMAIN blocks : ~blocks[k].executed =>
    \E j \in 1 .. k : ~blocks[j].executed /\ blocks[j].module # GLOBAL_MODULE

\* A block that was handed over before the engine starts, or that a reset kept, waits in the list
\* until it runs, and does not run again: those in the list that were not executed are the ones
\* that wait and the ones that run now. In a state that executes, all have run, but for those behind
\* an error and for the first of another module and those behind it, which the code leaves (1956).
PendingOnce ==
  LET running == {k \in DOMAIN stack : stack[k].goal # None}
      ids     == {stack[k].block.id : k \in running}
  IN /\ \A j, k \in running : stack[j].block.id = stack[k].block.id => j = k
     /\ ids \cap due = {}
     /\ due \cup ids = {b.id : b \in {c \in Range(m_pParsedScripts) : ~c.executed}}
     /\ m_ssState \in {"started", "connected", "disconnected"} /\ stopped = None => due = {}
     /\ m_ssState \in {"started", "connected", "disconnected"} /\ stopped = "module"
          => Headed(m_pParsedScripts)

\* What ParseScriptText says of a block that it keeps: "Later when we switch states, we'll come
\* through and take care of it" (OLEScript.cpp:1520). None waits any more in a state that executes,
\* if no error was reported.
TakenCareOf == RunsNow /\ stopped # "error" => due = {}
=============================================================================
