-------------------------------- MODULE Hsm --------------------------------
(***************************************************************************)
(* The hierarchical state machines of edf_hsm.c. State handlers are user   *)
(* code: a state's superstate is what its handler returns by default       *)
(* (EDF_HSM_RET_SUPER), the targets of its transitions and of its initial  *)
(* transition are its choice. One action is one call of a handler with an  *)
(* entry or exit signal, or the choice of what to call next.               *)
(***************************************************************************)
EXTENDS Integers, SequencesExt

CONSTANTS
  State,      \* the state handlers
  Top,        \* EDF_hsm_top
  NULL,
  MaxDepth    \* EDF_HSM_MAX_DEPTH, the top level included

ASSUME HsmAssumption ==
  Top \notin State /\ NULL \notin State \cup {Top} /\ MaxDepth \in Nat /\ MaxDepth >= 3

VARIABLES
  super,          \* the superstate of each state
  current_state,
  pc,             \* the function at work, or "idle"
  aux_state,      \* the state that dispatch or executeTransition stands at
  source, target, \* of the transition under way
  x_path,         \* the states that are still to be exited, in that order
  e_path,         \* the states that are still to be entered, the last one first
  active          \* the states whose entry action ran and exit action did not

transition == <<source, target>>
vars == <<super, current_state, pc, aux_state, transition, x_path, e_path, active>>

(* Faulty form: one entry less.                                            *)
BugChain(state) ==
  LET up[n \in 1 .. MaxDepth] ==
        IF n = 1 THEN state ELSE IF up[n - 1] = Top THEN Top ELSE super[up[n - 1]]
      ends == {n \in 1 .. MaxDepth - 1 : up[n] = Top}
      last == IF ends = {} THEN MaxDepth - 1 ELSE Min(ends)
  IN  [i \in 1 .. last |-> up[i]]

(* A state and its ancestors up to the top, cut to MaxDepth entries: what  *)
(* asking each handler for its superstate gives.                           *)
Chain(state) ==
  LET up[n \in 1 .. MaxDepth] ==
        IF n = 1 THEN state ELSE IF up[n - 1] = Top THEN Top ELSE super[up[n - 1]]
      ends == {n \in 1 .. MaxDepth : up[n] = Top}
      last == IF ends = {} THEN MaxDepth ELSE Min(ends)
  IN  [i \in 1 .. last |-> up[i]]

Members(seq) == {seq[i] : i \in DOMAIN seq}
Before(seq, state) ==
  SubSeq(seq, 1, Min({i \in DOMAIN seq : seq[i] = state} \cup {Len(seq) + 1}) - 1)
Lineage(state) == Members(Chain(state)) \ {Top}

(* A legal hierarchy: every state reaches the top within MaxDepth levels.  *)
Hierarchy ==
  \A s \in State :
    LET above[n \in 1 .. MaxDepth] ==
          IF n = 1 THEN {s} ELSE above[n - 1] \cup {super[m] : m \in above[n - 1] \ {Top}}
    IN  Top \in above[MaxDepth]

(* EDF_hsm_init.                                                           *)
Init ==
  /\ super \in [State -> State \cup {Top}] /\ Hierarchy
  /\ current_state = Top
  /\ pc = "init"
  /\ aux_state = NULL /\ source = NULL /\ target = NULL
  /\ x_path = <<>> /\ e_path = <<>>
  /\ active = {}

-----------------------------------------------------------------------------

(* EDF_hsm_start: the top-most initial transition, to state t.             *)
Start(t) ==
  /\ pc = "init"
  /\ target' = t /\ aux_state' = t
  /\ e_path' = Before(Chain(t), Top)
  /\ pc' = "execute"
  /\ UNCHANGED <<super, current_state, source, x_path, active>>

(* EDF_hsm_dispatch offers the event to the current state and its          *)
(* ancestors until one of them, s, takes a transition to t. An event that  *)
(* none of them takes changes nothing.                                     *)
Dispatch(s, t) ==
  /\ pc = "idle"
  /\ s \in Members(Chain(current_state)) \ {Top}
  /\ source' = s /\ target' = t
  /\ aux_state' = current_state
  /\ pc' = "leave"
  /\ UNCHANGED <<super, current_state, x_path, e_path, active>>

(* Faulty form: the superstate of a state whose exit action ran is not     *)
(* asked for.                                                              *)
BugLeave ==
  /\ pc = "leave" /\ aux_state # source
  /\ active' = active \ {aux_state}
  /\ UNCHANGED <<super, current_state, pc, aux_state, transition, x_path, e_path>>

(* Exit the states from the current one up to the transition's source.     *)
Leave ==
  /\ pc = "leave" /\ aux_state # source
  /\ active' = active \ {aux_state}
  /\ aux_state' = super[aux_state]
  /\ UNCHANGED <<super, current_state, pc, transition, x_path, e_path>>

-----------------------------------------------------------------------------

(* EDF_hsm_getTransitionPath, case by case.                                *)
SelfTransition(s) == [x |-> <<s>>, e |-> <<s>>]
ToDescendant(s, t) == [x |-> <<>>, e |-> Before(Chain(t), s)]
ToAncestor(s, t) == [x |-> Before(Chain(s), t), e |-> <<>>]

(* Both loops run from the top of the chains down and stop at the first    *)
(* state of the one that is in the other.                                  *)
Common(s, t) == {i \in DOMAIN Chain(s) : Chain(s)[i] \in Members(Chain(t))}
BetweenBranches(s, t) ==
  LET ancestor == Chain(s)[Max(Common(s, t))]
  IN  [x |-> Before(Chain(s), ancestor), e |-> Before(Chain(t), ancestor)]

TransitionPath(s, t) ==
  IF s = t THEN SelfTransition(s)
  ELSE IF s \in Members(Chain(t)) THEN ToDescendant(s, t)
  ELSE IF t \in Members(Chain(s)) THEN ToAncestor(s, t)
  ELSE BetweenBranches(s, t)

(* The assertion t_found.                                                  *)
PathFound(s, t) == Common(s, t) # {}

TakeTransition ==
  /\ pc = "leave" /\ aux_state = source
  /\ IF PathFound(source, target)
     THEN /\ x_path' = TransitionPath(source, target).x
          /\ e_path' = TransitionPath(source, target).e
          /\ aux_state' = target
          /\ pc' = "execute"
     ELSE pc' = "failed" /\ UNCHANGED <<x_path, e_path, aux_state>>
  /\ UNCHANGED <<super, current_state, transition, active>>

-----------------------------------------------------------------------------
(* EDF_hsm_executeTransition: the exit actions, from the inside out.       *)
Exit ==
  /\ pc = "execute" /\ x_path # <<>>
  /\ active' = active \ {Head(x_path)}
  /\ x_path' = Tail(x_path)
  /\ UNCHANGED <<super, current_state, pc, aux_state, transition, e_path>>

(* Faulty form: the entry path is walked in the direction of the exit path.*)
BugEnter ==
  /\ pc = "execute" /\ x_path = <<>> /\ e_path # <<>>
  /\ active' = active \cup {Head(e_path)}
  /\ e_path' = Tail(e_path)
  /\ UNCHANGED <<super, current_state, pc, aux_state, transition, x_path>>

(* Then the entry actions, from the outside in.                            *)
Enter ==
  /\ pc = "execute" /\ x_path = <<>> /\ e_path # <<>>
  /\ active' = active \cup {Last(e_path)}
  /\ e_path' = Front(e_path)
  /\ UNCHANGED <<super, current_state, pc, aux_state, transition, x_path>>

(* The state just entered takes an initial transition to its descendant s, *)
(* whose entry path ends below it.                                         *)
InitialTransition(s) ==
  /\ pc = "execute" /\ x_path = <<>> /\ e_path = <<>>
  /\ s # aux_state /\ aux_state \in Members(Chain(s))
  /\ e_path' = Before(Chain(s), aux_state)
  /\ aux_state' = s
  /\ UNCHANGED <<super, current_state, pc, transition, x_path, active>>

(* Or it has none and is the new current state.                            *)
Settle ==
  /\ pc = "execute" /\ x_path = <<>> /\ e_path = <<>>
  /\ current_state' = aux_state
  /\ pc' = "idle"
  /\ UNCHANGED <<super, aux_state, transition, x_path, e_path, active>>

-----------------------------------------------------------------------------
Transition ==
  \/ Leave \/ TakeTransition \/ Exit \/ Enter \/ Settle
  \/ \E s \in State : InitialTransition(s)

Next ==
  \/ \E t \in State : Start(t)
  \/ \E s, t \in State : Dispatch(s, t)
  \/ Transition

Spec == Init /\ [][Next]_vars

(* The loops of dispatch and executeTransition go on.                      *)
FairSpec == Spec /\ WF_vars(Transition)

-----------------------------------------------------------------------------
TypeOK ==
  /\ super \in [State -> State \cup {Top}]
  /\ current_state \in State \cup {Top}
  /\ pc \in {"init", "idle", "leave", "execute", "failed"}
  /\ {aux_state, source, target} \subseteq State \cup {NULL}
  /\ x_path \in Seq(State) /\ e_path \in Seq(State)
  /\ Len(x_path) < MaxDepth /\ Len(e_path) < MaxDepth
  /\ active \subseteq State

(* In every hierarchy and for every mix of the kinds of transition, exit   *)
(* actions run in the innermost active state only and entry actions only   *)
(* in an inactive state whose superstate is the innermost active one: what *)
(* the test's todo asks to validate (line 90 of the hsm test). When the    *)
(* event is done, exactly the current state and its ancestors are active;  *)
(* it is the target of the transition or, after initial ones, below.       *)
HandlersInOrder ==
  /\ TypeOK
  /\ pc = "idle" => target \in active
  /\ pc = "idle" => active = Lineage(current_state)
  /\ pc = "leave" => active = Lineage(aux_state)
  /\ pc = "execute" /\ x_path # <<>> => active = Lineage(Head(x_path))
  /\ pc = "execute" /\ x_path = <<>> /\ e_path # <<>> =>
       Last(e_path) \notin active /\ active = Lineage(super[Last(e_path)])

(* "Ensure valid HSM transition.": getTransitionPath finds a path between  *)
(* any two states of a hierarchy that is within EDF_HSM_MAX_DEPTH.         *)
PathAlwaysFound == pc # "failed"

(* Every event is processed to completion: no loop runs for ever.          *)
RunsToCompletion == pc = "leave" ~> pc = "idle"

(* "Exit actions are executed up to (but not including) the LCA", "The     *)
(* deepest (lowest) state in the hierarchy that is a common ancestor of    *)
(* both the source and the target states." (edf_hsm.c:120 and 133)         *)
KeepsCommonAncestors ==
  pc = "execute" /\ source \notin {target, NULL} =>
    Members(x_path) \cap Lineage(source) \cap Lineage(target) = {}
=============================================================================
