----------------------------- MODULE MCCortexM -----------------------------
(***************************************************************************)
(* The core for Arm Cortex-M, which schedules the application, and the     *)
(* tools that an application and its tests are written with - codecs,      *)
(* formatted output, test runners, fake functions - explored side by side: *)
(* none of them calls another one here. A behaviour is one of the part     *)
(* that part names.                                                        *)
(***************************************************************************)
EXTENDS CortexM, Codecs, PrintLog, TestRunner, EffFake

VARIABLE part

(* Numbers of one and more digits, floats whose rounding does and does not *)
(* carry, and everything else that a format string may hold.               *)
SomeDirectives ==
  {<<"u", 10>>, <<"i", -7>>, <<"f", 1994>>, <<"f", -1999>>, <<"f", 2049>>,
   <<"s", <<"a", "b">>>>, <<"c", "x">>, <<"text", "y">>, <<"%", "">>, <<"?", "">>}

(* One fake of every kind and arity, and one of the other kind with the    *)
(* arguments that it has not.                                              *)
FakesDiffer ==
  \A f, g \in Fake : f # g => kind[f] # kind[g] /\ arity[f] + arity[g] = 10

(* What is free to choose in a part that does not take place has one value. *)
AllInit ==
  /\ part \in {"core", "codecs", "print", "tests", "fakes"}
  /\ Init /\ CodecInit
  /\ PrintInit /\ (part # "print" => logLevel = 1)
  /\ TestInit /\ (part # "tests" => runner = "etf")
  /\ FakeInit /\ FakesDiffer
  /\ part # "fakes" => \A f \in Fake : arity[f] = 5 /\ (kind[f] = "void" <=> f = CHOOSE g \in Fake : TRUE)

tools == <<message, print_vars, test_vars, eff_vars>>

(* What the tools do comes to an end; the core may not stop.               *)
AllNext ==
  \/ part = "core" /\ Next /\ UNCHANGED <<tools, part>>
  \/ /\ UNCHANGED <<vars, part>>
     /\ \/ part = "codecs" /\ CodecNext /\ UNCHANGED <<print_vars, test_vars, eff_vars>>
        \/ part = "print" /\ PrintNext /\ UNCHANGED <<message, test_vars, eff_vars>>
        \/ part = "tests" /\ TestNext /\ UNCHANGED <<message, print_vars, eff_vars>>
        \/ part = "fakes" /\ FakeNext /\ UNCHANGED <<message, print_vars, test_vars>>
        \/ part # "core" /\ UNCHANGED tools

AllSpec == AllInit /\ [][AllNext]_<<vars, tools, part>>
=============================================================================
