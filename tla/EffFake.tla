------------------------------ MODULE EffFake ------------------------------
(***************************************************************************)
(* The fake functions that the macros of eff.h generate: a fake records    *)
(* its calls, runs custom fakes that the test supplies, and returns what   *)
(* the test sets. A custom fake may itself call a fake, the same one or    *)
(* another, or reset one; the calls under way make up a stack.             *)
(***************************************************************************)
EXTENDS Integers, Sequences, SequencesExt

CONSTANTS
  Fake,            \* the fakes of the test
  ArgHistoryLen,   \* EFF_ARG_HISTORY_LEN
  CallHistoryLen,  \* EFF_CALL_HISTORY_LEN
  MaxSettings,     \* bound: what the test sets
  MaxCalls         \* bound: the calls and resets

ASSUME EffAssumption == ArgHistoryLen \in Nat \ {0} /\ CallHistoryLen \in Nat \ {0}

VARIABLES
  kind, arity,     \* what each fake was declared as
  fake,            \* the struct FUNCNAME_fake of each
  call_history,    \* eff.call_history up to call_history_idx
  frames,          \* the calls under way, the innermost last
  settings, made,  \* ghosts: how many there were
  truth,           \* ghost: the calls of each fake since its reset
  order            \* ghost: all calls since the reset of the history

eff_vars == <<kind, arity, fake, call_history, frames, settings, made, truth, order>>

(* Custom fakes by what they do; each returns its name.                    *)
CustomFake == {"plain", "calls", "resets"}
NoValue == "zero"

(* DEFINE_RESET_FUNCTION, and the initial value of the struct.             *)
Cleared ==
  [call_count |-> 0, arg_val |-> <<>>, arg_history |-> <<>>, dropped |-> 0,
   return_val |-> NoValue, return_val_seq |-> <<>>, return_val_idx |-> 0,
   return_val_history |-> [i \in 1 .. ArgHistoryLen |-> NoValue],
   custom_fake |-> NoValue, custom_fake_seq |-> <<>>, custom_fake_idx |-> 0]

FakeInit ==
  /\ kind \in [Fake -> {"void", "value"}] /\ arity \in [Fake -> 0 .. 10]
  /\ fake = [f \in Fake |-> Cleared]
  /\ call_history = <<>> /\ frames = <<>> /\ settings = 0 /\ made = 0
  /\ truth = [f \in Fake |-> <<>>] /\ order = <<>>

-----------------------------------------------------------------------------
(* What the test sets, between calls.                                      *)
Set(f, changed) ==
  /\ frames = <<>> /\ settings < MaxSettings /\ settings' = settings + 1
  /\ fake' = [fake EXCEPT ![f] = changed]
  /\ UNCHANGED <<kind, arity, call_history, frames, made, truth, order>>

SET_RETURN_SEQ(f, seq) == kind[f] = "value" /\ Set(f, [fake[f] EXCEPT !.return_val_seq = seq])
SET_CUSTOM_FAKE_SEQ(f, seq) == Set(f, [fake[f] EXCEPT !.custom_fake_seq = seq])
SetCustomFake(f, c) == Set(f, [fake[f] EXCEPT !.custom_fake = c])
SetReturnVal(f, v) == kind[f] = "value" /\ Set(f, [fake[f] EXCEPT !.return_val = v])

(* The test, or a custom fake that may, calls something.                   *)
MayCall(custom) ==
  /\ made < MaxCalls /\ made' = made + 1
  /\ frames = <<>> \/ (frames # <<>> /\ Last(frames).running = custom)

(* A custom fake calls or resets once: it is "plain" from then on.         *)
Outer == IF frames = <<>> THEN <<>>
         ELSE [frames EXCEPT ![Len(frames)].running = "plain"]

RESET_FAKE(f) ==
  /\ MayCall("resets")
  /\ fake' = [fake EXCEPT ![f] = Cleared] /\ truth' = [truth EXCEPT ![f] = <<>>]
  /\ frames' = [i \in DOMAIN frames |->
       IF frames[i].f = f THEN [Outer[i] EXCEPT !.nth = 0] ELSE Outer[i]]
  /\ UNCHANGED <<kind, arity, call_history, settings, order>>

EFF_RESET_HISTORY ==
  /\ MayCall("resets") /\ call_history # <<>>
  /\ call_history' = <<>> /\ order' = <<>> /\ frames' = Outer
  /\ UNCHANGED <<kind, arity, fake, settings, truth>>

-----------------------------------------------------------------------------
(* The head of every generated function: arguments, history, counters.     *)
SaveArgHistory(s, args) ==
  IF s.call_count < ArgHistoryLen THEN [s EXCEPT !.arg_history = Append(@, args)]
  ELSE [s EXCEPT !.dropped = @ + 1]

Recorded(s, args) ==
  [SaveArgHistory([s EXCEPT !.arg_val = args], args) EXCEPT !.call_count = @ + 1]

RegisterCall(f) ==
  call_history' = IF Len(call_history) < CallHistoryLen THEN Append(call_history, f)
                  ELSE call_history

(* The calls that have not returned when another one begins overlap it.    *)
Overlapped(calls) == [i \in DOMAIN calls |->
  [calls[i] EXCEPT !.overlaps = @ \/ calls[i].ret = "none"]]

Called(f, k, n) ==
  /\ kind[f] = k /\ arity[f] = n /\ MayCall("calls")
  /\ LET args == [i \in 1 .. n |-> <<i, made>>] IN
     /\ fake' = [fake EXCEPT ![f] = Recorded(@, args)]
     /\ truth' = [truth EXCEPT ![f] = Append(Overlapped(@),
          [args |-> args, ret |-> "none",
           overlaps |-> \E i \in DOMAIN frames : frames[i].f = f])]
  /\ RegisterCall(f) /\ order' = Append(order, f)
  /\ frames' = Append(Outer,
       [f |-> f, at |-> "entered", running |-> NoValue, nth |-> Len(truth[f]) + 1])
  /\ UNCHANGED <<kind, arity, settings>>

FAKE_VOID_FUNC0(f) == Called(f, "void", 0)
FAKE_VOID_FUNC1(f) == Called(f, "void", 1)
FAKE_VOID_FUNC2(f) == Called(f, "void", 2)
FAKE_VOID_FUNC3(f) == Called(f, "void", 3)
FAKE_VOID_FUNC4(f) == Called(f, "void", 4)
FAKE_VOID_FUNC5(f) == Called(f, "void", 5)
FAKE_VOID_FUNC6(f) == Called(f, "void", 6)
FAKE_VOID_FUNC7(f) == Called(f, "void", 7)
FAKE_VOID_FUNC8(f) == Called(f, "void", 8)
FAKE_VOID_FUNC9(f) == Called(f, "void", 9)
FAKE_VOID_FUNC10(f) == Called(f, "void", 10)
FAKE_VALUE_FUNC0(f) == Called(f, "value", 0)
FAKE_VALUE_FUNC1(f) == Called(f, "value", 1)
FAKE_VALUE_FUNC2(f) == Called(f, "value", 2)
FAKE_VALUE_FUNC3(f) == Called(f, "value", 3)
FAKE_VALUE_FUNC4(f) == Called(f, "value", 4)
FAKE_VALUE_FUNC5(f) == Called(f, "value", 5)
FAKE_VALUE_FUNC6(f) == Called(f, "value", 6)
FAKE_VALUE_FUNC7(f) == Called(f, "value", 7)
FAKE_VALUE_FUNC8(f) == Called(f, "value", 8)
FAKE_VALUE_FUNC9(f) == Called(f, "value", 9)
FAKE_VALUE_FUNC10(f) == Called(f, "value", 10)

-----------------------------------------------------------------------------
Inner == Last(frames)
Struct == fake[Inner.f]
Between == frames # <<>> /\ Inner.running = NoValue
Progress(at, c) == [frames EXCEPT ![Len(frames)].at = at, ![Len(frames)].running = c]

(* The custom fake sequence: its next element, or its last one again.      *)
RunCustomFakeSeq ==
  /\ Between /\ Inner.at = "entered" /\ Struct.custom_fake_seq # <<>>
  /\ LET len == Len(Struct.custom_fake_seq)
         idx == Struct.custom_fake_idx
     IN IF idx < len
        THEN /\ frames' = Progress("in sequence", Struct.custom_fake_seq[idx + 1])
             /\ fake' = [fake EXCEPT ![Inner.f].custom_fake_idx = idx + 1]
        ELSE frames' = Progress("in sequence", Struct.custom_fake_seq[len]) /\ UNCHANGED fake
  /\ UNCHANGED <<kind, arity, call_history, settings, made, truth, order>>

(* A function without a value runs custom_fake after the sequence as well. *)
RunCustomFake ==
  /\ Between /\ Struct.custom_fake # NoValue
  /\ \/ Inner.at = "entered" /\ Struct.custom_fake_seq = <<>>
     \/ Inner.at = "after sequence"
  /\ frames' = Progress("in custom fake", Struct.custom_fake)
  /\ UNCHANGED <<kind, arity, fake, call_history, settings, made, truth, order>>

SequenceReturns ==
  /\ frames # <<>> /\ Inner.at = "in sequence" /\ kind[Inner.f] = "void"
  /\ frames' = Progress("after sequence", NoValue)
  /\ UNCHANGED <<kind, arity, fake, call_history, settings, made, truth, order>>

(* The return of the function. SAVE_RET_HISTORY writes to the entry of the *)
(* last call, which is another one if a custom fake called or reset this.  *)
BugSaveRetHistory(s, v) == [s EXCEPT !.return_val_history =
  [i \in 1 .. ArgHistoryLen |-> IF i = s.call_count + 1 THEN v ELSE @[i]]]
SaveRetHistory(s, v) == [s EXCEPT !.return_val_history =
  [i \in 1 .. ArgHistoryLen |-> IF i = s.call_count THEN v ELSE @[i]]]

FakeReturns(s, v) ==
  /\ fake' = [fake EXCEPT ![Inner.f] = IF kind[Inner.f] = "value" THEN SaveRetHistory(s, v) ELSE s]
  /\ truth' = IF Inner.nth = 0 THEN truth ELSE [truth EXCEPT ![Inner.f][Inner.nth].ret = v]
  /\ frames' = Front(frames)
  /\ UNCHANGED <<kind, arity, call_history, settings, made, order>>

CustomFakeReturns ==
  /\ frames # <<>>
  /\ Inner.at = "in custom fake" \/ (Inner.at = "in sequence" /\ kind[Inner.f] = "value")
  /\ FakeReturns(Struct, IF kind[Inner.f] = "value" THEN "custom" ELSE NoValue)

VoidReturns ==
  /\ Between /\ kind[Inner.f] = "void" /\ Struct.custom_fake = NoValue
  /\ Inner.at = "after sequence" \/ Struct.custom_fake_seq = <<>>
  /\ FakeReturns(Struct, NoValue)

(* RETURN_FAKE_RESULT.                                                     *)
ReturnFakeResult ==
  /\ Between /\ kind[Inner.f] = "value" /\ Inner.at = "entered"
  /\ Struct.custom_fake_seq = <<>> /\ Struct.custom_fake = NoValue
  /\ LET seq == Struct.return_val_seq
         idx == Struct.return_val_idx
     IN IF seq = <<>> THEN FakeReturns(Struct, Struct.return_val)
        ELSE IF idx < Len(seq)
             THEN FakeReturns([Struct EXCEPT !.return_val_idx = idx + 1], seq[idx + 1])
             ELSE FakeReturns(Struct, seq[Len(seq)])

FakeNext ==
  \/ \E f \in Fake :
     \/ FAKE_VOID_FUNC0(f) \/ FAKE_VOID_FUNC1(f) \/ FAKE_VOID_FUNC2(f) \/ FAKE_VOID_FUNC3(f)
     \/ FAKE_VOID_FUNC4(f) \/ FAKE_VOID_FUNC5(f) \/ FAKE_VOID_FUNC6(f) \/ FAKE_VOID_FUNC7(f)
     \/ FAKE_VOID_FUNC8(f) \/ FAKE_VOID_FUNC9(f) \/ FAKE_VOID_FUNC10(f)
     \/ FAKE_VALUE_FUNC0(f) \/ FAKE_VALUE_FUNC1(f) \/ FAKE_VALUE_FUNC2(f) \/ FAKE_VALUE_FUNC3(f)
     \/ FAKE_VALUE_FUNC4(f) \/ FAKE_VALUE_FUNC5(f) \/ FAKE_VALUE_FUNC6(f) \/ FAKE_VALUE_FUNC7(f)
     \/ FAKE_VALUE_FUNC8(f) \/ FAKE_VALUE_FUNC9(f) \/ FAKE_VALUE_FUNC10(f)
     \/ RESET_FAKE(f)
     \/ SET_RETURN_SEQ(f, <<"r1", "r2">>) \/ SetReturnVal(f, "r")
     \/ \E c \in CustomFake : SetCustomFake(f, c)
     \/ \E c, d \in CustomFake : SET_CUSTOM_FAKE_SEQ(f, <<c, d>>)
  \/ EFF_RESET_HISTORY
  \/ RunCustomFakeSeq \/ RunCustomFake \/ SequenceReturns
  \/ CustomFakeReturns \/ VoidReturns \/ ReturnFakeResult

FakeSpec == FakeInit /\ [][FakeNext]_eff_vars

-----------------------------------------------------------------------------
UpTo(n, seq) == SubSeq(seq, 1, IF n < Len(seq) THEN n ELSE Len(seq))

(* However calls nest, run out of history or are reset half-way: a fake    *)
(* counts its calls since its reset, keeps the arguments of the first ones *)
(* in order and of the last one, says how many it dropped, and keeps what  *)
(* each call returned, except for calls of the same fake inside each       *)
(* other; and the global history is the order in which calls began.        *)
FakeRecordsCalls ==
  /\ call_history = UpTo(CallHistoryLen, order)
  /\ \A f \in Fake : LET calls == truth[f] IN
       /\ fake[f].call_count = Len(calls)
       /\ fake[f].arg_history = [i \in DOMAIN UpTo(ArgHistoryLen, calls) |-> calls[i].args]
       /\ fake[f].dropped = Len(calls) - Len(fake[f].arg_history)
       /\ calls # <<>> => fake[f].arg_val = Last(calls).args
       /\ \A i \in DOMAIN fake[f].arg_history :
            kind[f] = "value" /\ calls[i].ret # "none" /\ ~calls[i].overlaps =>
              fake[f].return_val_history[i] = calls[i].ret
=============================================================================
