------------------------------ MODULE PrintLog ------------------------------
(***************************************************************************)
(* Formatted output: emf_print.c, which builds a message in a buffer of    *)
(* PrintMax characters and writes it as a whole or stops the program, and  *)
(* emf_log.c on top of it. A format string is a sequence of directives     *)
(* <<kind, argument>>, of kind "u", "i", "f", "c", "s", "%", "?" (any      *)
(* other letter) or "text" (a character as it is).                         *)
(***************************************************************************)
EXTENDS Integers, Sequences, SequencesExt

CONSTANTS
  PrintMax,     \* EMF_PRINT_MAX_LEN
  Directives,   \* those that the application uses; floats in thousandths
  MaxFormat     \* bound: the directives of a format string

(* Numbers and strings; a message holds digits, and the characters and the *)
(* names of levels as strings.                                             *)
ASSUME PrintAssumption ==
  /\ PrintMax \in Nat
  /\ \A d \in Directives :
       \/ d[1] = "u" /\ d[2] \in Nat
       \/ d[1] \in {"i", "f"} /\ d[2] \in Int
       \/ d[1] = "s" /\ d[2] \in Seq(STRING)
       \/ d[1] \in {"c", "text"} /\ d[2] \in STRING
       \/ d[1] \in {"%", "?"}

VARIABLES
  logLevel,
  fmt, level,   \* the call that is made: the format, and the level of a log
                \* or NoLevel for a print
  printed,      \* what the call wrote to stdout, or <<>>
  print_failed  \* it failed an assertion or EAF_ERROR

print_vars == <<logLevel, fmt, level, printed, print_failed>>

Levels == <<"ERROR", "WARNING", "INFO", "DEBUG">>
NoLevel == 0

PrintInit ==
  /\ logLevel \in DOMAIN Levels /\ fmt = <<>> /\ level = NoLevel
  /\ printed = <<>> /\ print_failed = FALSE

-----------------------------------------------------------------------------
WriteChar(buffer, c) ==
  IF Len(buffer.data) < PrintMax THEN [buffer EXCEPT !.data = Append(@, c)]
  ELSE [buffer EXCEPT !.overflow = TRUE]

WriteStr(buffer, str) ==
  LET written[n \in 0 .. Len(str)] ==
        IF n = 0 THEN buffer ELSE WriteChar(written[n - 1], str[n])
  IN written[Len(str)]

Digits(val) ==
  LET digits[n \in 0 .. val] ==
        IF n < 10 THEN <<n>> ELSE Append(digits[n \div 10], n % 10)
  IN digits[val]
WriteUint(buffer, val) == WriteStr(buffer, Digits(val))

WriteInt(buffer, val) ==
  IF val < 0 THEN WriteUint(WriteChar(buffer, "-"), -val) ELSE WriteUint(buffer, val)

(* Two decimals, rounded half up; 99.5 hundredths and more become the      *)
(* three digits of 100, not one more in front of the point.                *)
BugWriteFraction(buffer, frac) == WriteUint(buffer, frac)
WriteFraction(buffer, frac) ==
  WriteUint(IF frac < 10 THEN WriteChar(buffer, 0) ELSE buffer, frac)
WriteFloat(buffer, val) ==
  LET abs == IF val < 0 THEN -val ELSE val
      signed == IF val < 0 THEN WriteChar(buffer, "-") ELSE buffer
      point == WriteChar(WriteUint(signed, abs \div 1000), ".")
  IN WriteFraction(point, ((abs % 1000) + 5) \div 10)

WriteDirective(buffer, d) ==
  IF buffer.overflow THEN buffer ELSE
  CASE d[1] = "u" -> WriteUint(buffer, d[2])
    [] d[1] = "i" -> WriteInt(buffer, d[2])
    [] d[1] = "f" -> WriteFloat(buffer, d[2])
    [] d[1] = "s" -> WriteStr(buffer, d[2])
    [] d[1] \in {"c", "text"} -> WriteChar(buffer, d[2])
    [] d[1] \in {"%", "?"} -> WriteChar(buffer, d[1])

(* EMF_print: EBF_stdoutWrite may accept the message or not; the rejection *)
(* and the overflow stop the program.                                      *)
Message(format) ==
  LET built[n \in 0 .. Len(format)] ==
        IF n = 0 THEN [data |-> <<>>, overflow |-> FALSE]
        ELSE WriteDirective(built[n - 1], format[n])
  IN built[Len(format)]
EmfPrint(format) ==
  LET buffer == Message(format)
      Stop == print_failed' = TRUE /\ printed' = <<>>
  IN \/ ~buffer.overflow /\ printed' = buffer.data /\ UNCHANGED print_failed
     \/ buffer.overflow /\ Stop
     \/ ~buffer.overflow /\ buffer.data # <<>> /\ Stop

-----------------------------------------------------------------------------
(* emf_log.c: the prefix "[LEVEL] " is one character here, and so is each  *)
(* directive of the format string that its length is measured by.          *)
Prefix(l) == <<"text", Levels[l]>>

LogSetLevel(l) ==
  /\ ~print_failed /\ logLevel' = l
  /\ fmt' = <<>> /\ level' = NoLevel /\ printed' = <<>> /\ UNCHANGED print_failed
LogInit == LogSetLevel(3)

(* Bound: one call after each choice of the level, on which alone it       *)
(* depends.                                                                *)
Call(l, format) == ~print_failed /\ fmt = <<>> /\ level' = l /\ fmt' = format /\ UNCHANGED logLevel

PrintCall(format) == Call(NoLevel, format) /\ EmfPrint(format)

Enabled(l) == l <= logLevel
Log(l, format) ==
  /\ Call(l, format)
  /\ \/ ~Enabled(l) /\ printed' = <<>> /\ UNCHANGED print_failed
     \/ Enabled(l) /\ Len(format) + 1 > PrintMax /\ printed' = <<>> /\ print_failed' = TRUE
     \/ Enabled(l) /\ Len(format) + 1 <= PrintMax /\ EmfPrint(<<Prefix(l)>> \o format)

Formats == UNION {[1 .. n -> Directives] : n \in 1 .. MaxFormat}

PrintNext ==
  \/ LogInit \/ \E l \in DOMAIN Levels : LogSetLevel(l)
  \/ \E format \in Formats : PrintCall(format) \/ \E l \in DOMAIN Levels : Log(l, format)

PrintSpec == PrintInit /\ [][PrintNext]_print_vars

-----------------------------------------------------------------------------
(* The text that a directive asks for: a float is rounded as a number.     *)
Text(d) ==
  CASE d[1] = "u" -> Digits(d[2])
    [] d[1] = "i" -> IF d[2] < 0 THEN <<"-">> \o Digits(-d[2]) ELSE Digits(d[2])
    [] d[1] = "f" ->
         LET hundredths == ((IF d[2] < 0 THEN -d[2] ELSE d[2]) + 5) \div 10
         IN (IF d[2] < 0 THEN <<"-">> ELSE <<>>) \o Digits(hundredths \div 100)
              \o <<".", (hundredths \div 10) % 10, hundredths % 10>>
    [] d[1] = "s" -> d[2]
    [] d[1] \in {"c", "text"} -> <<d[2]>>
    [] d[1] \in {"%", "?"} -> <<d[1]>>

(* The rounding of this float carries into its integer part.               *)
Carries(d) == d[1] = "f" /\ (IF d[2] < 0 THEN -d[2] ELSE d[2]) % 1000 >= 995

(* A call prints the whole message that its format and arguments ask for,  *)
(* prefixed and filtered by the level of a log, or stops the program and   *)
(* prints nothing: never a part of it, wherever the buffer ends in a       *)
(* number or a string. The only wrong text is that of a float whose        *)
(* rounding carries: writeFloat prints 1.999 as "1.100" (emf_print.c:215). *)
PrintedWhole ==
  LET wanted == FlattenSeq([i \in DOMAIN fmt |-> Text(fmt[i])])
      expected == IF level = NoLevel THEN wanted
                  ELSE IF level <= logLevel THEN <<Levels[level]>> \o wanted ELSE <<>>
  IN /\ Len(printed) <= PrintMax
     /\ print_failed => printed = <<>>
     /\ ~print_failed =>
          (printed # expected <=> printed # <<>> /\ \E i \in DOMAIN fmt : Carries(fmt[i]))
=============================================================================
