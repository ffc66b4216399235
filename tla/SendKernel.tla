----------------------------- MODULE SendKernel -----------------------------
(***************************************************************************)
(* tools/send-kernel.py: a file is sent to the board over the serial       *)
(* console, as lines of base64, and replaces the old one once its md5 is   *)
(* verified.  The line loses bytes, the board may lag behind the sender's  *)
(* sleeps, and the sender may be killed and started again with another     *)
(* file.  The tty, the board's shell and xv6's console are external.       *)
(***************************************************************************)
EXTENDS Naturals, Sequences

CONSTANTS
  NLines,    \* base64 lines of a file
  MaxRuns,   \* bound on the runs of the script; run r sends file r
  MaxLost    \* bound on the lines that lose bytes

ASSUME SendAssumption == NLines \in Nat \ {0} /\ MaxRuns \in Nat \ {0} /\ MaxLost \in Nat

Files == 1..MaxRuns
Other == 0               \* no file, or in the destination the one of before
Bad   == MaxRuns + 1     \* bytes that are no file's

VARIABLES
  pc, run, sent, rc,   \* the script: its step, its file, lines sent, result
  line,                \* what the board has received and not read
  unread,              \* answers the script has received and not read
  fg, echo,            \* who reads the console, one of Readers; tty echo
  gz, new, dest,       \* /root/k.gz (lines), /root/k.new, the destination
  torn,                \* the line at the tty has lost its end: the next one joins it
  lost, clean, hurt    \* lines that lost bytes so far; history: none lost or late
                       \* this run; the last write did not arrive whole

script == <<pc, run, sent, rc>>
files  == <<gz, new, dest>>
losses == <<torn, lost, clean, hurt>>
vars   == <<script, line, unread, fg, echo, files, losses>>

Steps == {"interrupt", "probe", "verdict", "prepare", "base64", "lines", "eof",
          "drain", "check", "compare", "mv", "done"}

\* "stray" is a program that a damaged command has started, which reads the
\* terminal too: base64 with another output file, md5sum without a file.
Readers == {"sh", "base64", "stray", "xv6"}

\* What is sent: commands, the control character ^D, and lines of a file; a line
\* that lost bytes is not whole.  "junk" is output of base64 that is no file's.
Item(kind)  == [kind |-> kind, file |-> Other, n |-> 0, whole |-> TRUE]
Data(f, n)  == [kind |-> "data", file |-> f, n |-> n, whole |-> TRUE]
Hurt(item)  == [item EXCEPT !.whole = FALSE]
Encoded(f)  == [n \in 1..NLines |-> Data(f, n)]

\* What the answers are searched for: "LINUX-" and the md5 of a file.
Linux  == <<"LINUX-", Other>>
Md5(f) == <<"md5", f>>

Init ==
  /\ pc = "interrupt" /\ run = 1 /\ sent = 0 /\ rc = 1
  /\ line = <<>> /\ unread = {}
  /\ fg \in {"sh", "xv6"} /\ echo = TRUE
  /\ gz = <<>> /\ new = Other /\ dest = Other
  /\ torn = FALSE /\ lost = 0 /\ clean = TRUE /\ hurt = FALSE

-----------------------------------------------------------------------------
(* The line (external): what is written arrives and is echoed, or, without *)
(* flow control, loses some bytes or all.  xv6 echoes its console itself.  *)

Echoed(item) ==
  IF item.kind = "probe" /\ (echo \/ fg = "xv6") THEN {Linux} ELSE {}

Lose == lost < MaxLost /\ lost' = lost + 1 /\ clean' = FALSE

\* "had" are the answers the script has not read before.  A line that lost its end
\* is joined by the next one, which is hurt by that even
\* when it loses nothing itself; ^D only hands the joined line on.
Write(item, had) ==
  \/ /\ ~torn /\ line' = Append(line, item)
     /\ unread' = had \cup Echoed(item)
     /\ hurt' = FALSE /\ UNCHANGED <<torn, lost, clean>>
  \/ /\ line' \in {line} \cup (IF item.kind = "eof" THEN {} ELSE {Append(line, Hurt(item))})
     /\ unread' \in {had, had \cup Echoed(item)}
     /\ hurt' = TRUE
     /\ \/ Lose /\ torn' \in IF item.kind = "eof" THEN {torn} ELSE BOOLEAN
        \/ torn /\ torn' = (item.kind = "eof") /\ lost' = lost /\ clean' = FALSE

-----------------------------------------------------------------------------
(* The script.                                                             *)

Goto(step) == pc' = step /\ UNCHANGED <<run, rc>>

Send(from, item, had, to) ==
  /\ pc = from /\ Goto(to) /\ Write(item, had)
  /\ UNCHANGED <<sent, fg, echo, files>>

\* The three ^C, which kill the foreground process (fesvr and xv6 with it) and
\* flush what it has not read; the newline; the answers are thrown away.
Interrupt ==
  /\ pc = "interrupt" /\ Goto("probe") /\ unread' = {}
  /\ \/ fg' = "sh" /\ line' = <<>> /\ torn' = FALSE /\ UNCHANGED <<lost, clean>>
     \/ Lose /\ torn' \in {torn, FALSE} /\ UNCHANGED <<fg, line>>
  /\ UNCHANGED <<sent, echo, files, hurt>>

Probe == Send("probe", Item("probe"), unread, "verdict")

\* A read after a sleep takes what has arrived; the board may not be done.
Read ==
  /\ unread' = {}
  /\ clean' = (clean /\ line = <<>>)
  /\ UNCHANGED <<run, sent, line, fg, echo, files, torn, lost, hurt>>

Preflight ==
  /\ pc = "verdict"
  /\ pc' = IF Linux \in unread THEN "prepare" ELSE "done"
  /\ rc' = rc /\ Read

\* "rm -f /root/k.new /root/k.gz; stty -echo"
Prepare == Send("prepare", Item("prepare"), unread, "base64")

\* "base64 -d > /root/k.gz", once the answers to the command before are read.
Base64 == Send("base64", Item("base64"), {}, "lines")

\* Mutant: the loop takes one line too many.
SendLineOver ==
  /\ pc = "lines"
  /\ sent' = sent + 1
  /\ Goto(IF sent' > NLines THEN "eof" ELSE "lines")
  /\ Write(Data(run, sent'), IF sent = 0 THEN {} ELSE unread)
  /\ UNCHANGED <<fg, echo, files>>

\* The answers to base64 are read before the first line.
SendLine ==
  /\ pc = "lines"
  /\ sent' = sent + 1
  /\ Goto(IF sent' = NLines THEN "eof" ELSE "lines")
  /\ Write(Data(run, sent'), IF sent = 0 THEN {} ELSE unread)
  /\ UNCHANGED <<fg, echo, files>>

\* Mutant: ^D is forgotten, and the next command is more input of base64.
NoEof ==
  /\ pc = "eof" /\ Goto("drain")
  /\ UNCHANGED <<sent, line, unread, fg, echo, files, losses>>

Eof == Send("eof", Item("eof"), unread, "drain")

Drain == pc = "drain" /\ pc' = "check" /\ rc' = rc /\ Read

\* "stty echo; gunzip -c /root/k.gz > /root/k.new; md5sum /root/k.new"
Check == Send("check", Item("check"), unread, "compare")

\* Mutant: any line of md5sum will do.
CompareAny ==
  /\ pc = "compare"
  /\ pc' = IF \E f \in Files \cup {Bad} : Md5(f) \in unread THEN "mv" ELSE "done"
  /\ rc' = rc /\ Read

Compare ==
  /\ pc = "compare"
  /\ pc' = IF Md5(run) \in unread THEN "mv" ELSE "done"
  /\ rc' = rc /\ Read

\* "mv /root/k.new {dest}; rm -f /root/k.gz", whose outcome is not looked at.
Install ==
  /\ pc = "mv" /\ pc' = "done" /\ rc' = 0
  /\ Write(Item("mv"), unread)
  /\ UNCHANGED <<run, sent, fg, echo, files>>

\* Killed or done, the script is started again, for the next file, when the
\* board is quiet.
Restart ==
  /\ run < MaxRuns /\ line = <<>>
  /\ run' = run + 1 /\ pc' = "interrupt" /\ sent' = 0 /\ rc' = 1
  /\ clean' = TRUE /\ hurt' = FALSE
  /\ UNCHANGED <<line, unread, fg, echo, files, torn, lost>>

Script ==
  \/ Interrupt \/ Probe \/ Preflight \/ Prepare \/ Base64 \/ SendLine \/ Eof
  \/ Drain \/ Check \/ Compare \/ Install

-----------------------------------------------------------------------------
(* The board: whoever has the console reads a line.                        *)

Takes(who, kinds, whole) ==
  /\ fg = who /\ line # <<>> /\ Head(line).kind \in kinds /\ Head(line).whole = whole
  /\ line' = Tail(line)
  /\ UNCHANGED <<script, losses>>

Reads(who, kinds)  == Takes(who, kinds, TRUE)
Spoils(who, kinds) == Takes(who, kinds, FALSE)

ShellProbe ==
  /\ Reads("sh", {"probe"})
  /\ unread' = unread \cup {Linux}
  /\ UNCHANGED <<fg, echo, files>>

ShellPrepare ==
  /\ Reads("sh", {"prepare"})
  /\ new' = Other /\ gz' = <<>> /\ echo' = FALSE
  /\ UNCHANGED <<unread, fg, dest>>

ShellBase64 ==
  /\ Reads("sh", {"base64"})
  /\ gz' = <<>> /\ fg' = "base64"
  /\ UNCHANGED <<unread, echo, new, dest>>

Gunzip(ls) ==
  IF \E f \in Files : ls = Encoded(f) THEN CHOOSE f \in Files : ls = Encoded(f)
                                      ELSE Bad

\* Mutant: gunzip writes to the destination, which is verified there.
ShellCheckInPlace ==
  /\ Reads("sh", {"check"})
  /\ dest' = Gunzip(gz)
  /\ unread' = unread \cup {Md5(dest')}
  /\ echo' = TRUE
  /\ UNCHANGED <<fg, gz, new>>

\* gunzip -c writes what it can; the redirection makes the file in any case.
ShellCheck ==
  /\ Reads("sh", {"check"})
  /\ new' = Gunzip(gz)
  /\ unread' = unread \cup {Md5(new')}
  /\ echo' = TRUE
  /\ UNCHANGED <<fg, gz, dest>>

ShellMv ==
  /\ Reads("sh", {"mv"})
  /\ dest' = IF new = Other THEN dest ELSE new
  /\ new' = Other /\ gz' = <<>>
  /\ UNCHANGED <<unread, fg, echo>>

\* Lines that are no commands; at ^D the shell ends and init starts another,
\* on a terminal set to sane modes.
ShellOther ==
  /\ Reads("sh", {"data", "eof"})
  /\ echo' = (echo \/ Head(line).kind = "eof")
  /\ UNCHANGED <<unread, fg, files>>

Base64Data ==
  /\ Reads("base64", {"data"})
  /\ gz' = Append(gz, Head(line))
  /\ UNCHANGED <<unread, fg, echo, new, dest>>

\* Input that is not base64 is an error or spoils the output.
Base64Other ==
  /\ Reads("base64", {"probe", "prepare", "base64", "check", "mv"})
  /\ gz' = Append(gz, Item("junk"))
  /\ fg' \in {"base64", "sh"}
  /\ UNCHANGED <<unread, echo, new, dest>>

Base64Eof ==
  /\ Reads("base64", {"eof"})
  /\ fg' = "sh"
  /\ UNCHANGED <<unread, echo, files>>

\* xv6's shell has an echo too, and none of the other commands.
Xv6 ==
  /\ fg = "xv6" /\ line # <<>>
  /\ line' = Tail(line)
  /\ \/ unread' = unread /\ ~(Head(line).kind = "probe" /\ Head(line).whole)
     \/ unread' = unread \cup {Linux} /\ Head(line).kind = "probe"
  /\ UNCHANGED <<script, fg, echo, files, losses>>

-----------------------------------------------------------------------------
(* Lines that lost bytes, or that joined one that did.  What is left may be *)
(* a command still: it does some of what the whole one does, or does it to *)
(* another file.  (Only what is left of the mv names the destination.)     *)

HurtProbe ==
  /\ Spoils("sh", {"probe"})
  /\ unread' \in {unread, unread \cup {Linux}}
  /\ UNCHANGED <<fg, echo, files>>

\* "stty -echo" may have become "stty echo".
HurtPrepare ==
  /\ Spoils("sh", {"prepare"})
  /\ new' \in {new, Other} /\ gz' \in {gz, <<>>} /\ echo' \in BOOLEAN
  /\ UNCHANGED <<unread, fg, dest>>

\* Nothing, or k.gz made by another command; base64, perhaps without -d; base64
\* that writes to another file or to the terminal.
HurtBase64 ==
  /\ Spoils("sh", {"base64"})
  /\ \/ fg' = "sh"     /\ gz' \in {gz, <<>>, <<Item("junk")>>}
     \/ fg' = "base64" /\ gz' \in {<<>>, <<Item("junk")>>}
     \/ fg' = "stray"  /\ gz' = gz
  /\ UNCHANGED <<unread, echo, new, dest>>

\* k.new as it was, made as it should be, or of something else (an empty file);
\* its md5, or none; gunzip without -c removes k.gz; md5sum without its operand
\* reads the terminal.
HurtCheck ==
  /\ Spoils("sh", {"check"})
  /\ new' \in {new, Gunzip(gz), Bad} /\ gz' \in {gz, <<>>} /\ echo' \in {echo, TRUE}
  /\ \/ fg' \in {"sh", "stray"} /\ unread' = unread
     \/ fg' = "sh" /\ new' # Other /\ unread' = unread \cup {Md5(new')}
  /\ dest' = dest

\* k.new stays, or goes to the destination or to another name; the destination may
\* be what goes away; k.gz may be removed or overwritten.
HurtMv ==
  /\ Spoils("sh", {"mv"})
  /\ \/ new' = new /\ dest' \in {dest, Other}
     \/ new # Other /\ new' = Other /\ dest' \in {dest, new}
  /\ gz' \in {gz, <<>>, <<Item("junk")>>}
  /\ UNCHANGED <<unread, fg, echo>>

HurtData ==
  /\ Spoils("sh", {"data"})
  /\ UNCHANGED <<unread, fg, echo, files>>

\* A line of data that only lost its newline is as good as whole.
Base64Hurt ==
  /\ Spoils("base64", {"probe", "prepare", "base64", "data", "check", "mv"})
  /\ \/ gz' \in {gz, Append(gz, Item("junk"))}
     \/ Head(line).kind = "data"
        /\ gz' = Append(gz, Data(Head(line).file, Head(line).n))
  /\ fg' \in {"base64", "sh"}
  /\ UNCHANGED <<unread, echo, new, dest>>

\* It reads until ^D, or until it meets what is not base64.
Stray ==
  /\ fg = "stray" /\ line # <<>>
  /\ line' = Tail(line)
  /\ fg' = "sh" \/ (fg' = fg /\ Head(line).kind # "eof")
  /\ UNCHANGED <<script, unread, echo, files, losses>>

Board ==
  \/ ShellProbe \/ ShellPrepare \/ ShellBase64 \/ ShellCheck \/ ShellMv \/ ShellOther
  \/ Base64Data \/ Base64Other \/ Base64Eof \/ Xv6
  \/ HurtProbe \/ HurtPrepare \/ HurtBase64 \/ HurtCheck \/ HurtMv \/ HurtData
  \/ Base64Hurt \/ Stray

Next == Script \/ Restart \/ Board

Spec == Init /\ [][Next]_vars

-----------------------------------------------------------------------------
(* Properties.                                                             *)

\* Types; base64 has written what it was sent, or junk.
Sent == {Item(k) : k \in {"probe", "prepare", "base64", "eof", "check", "mv"}}
          \cup {Data(f, n) : f \in Files, n \in 1..NLines}
Items == Sent \cup {Hurt(i) : i \in Sent}
TypeOK ==
  /\ pc \in Steps /\ run \in Files /\ sent \in 0..NLines /\ rc \in {0, 1}
  /\ line \in Seq(Items)
  /\ unread \subseteq {Linux} \cup {Md5(f) : f \in Files \cup {Bad}}
  /\ fg \in Readers /\ echo \in BOOLEAN
  /\ gz \in Seq(Sent \cup {Item("junk")})
  /\ new \in {Other, Bad} \cup Files /\ dest \in {Other, Bad} \cup Files
  /\ torn \in BOOLEAN /\ lost \in 0..MaxLost /\ clean \in BOOLEAN /\ hurt \in BOOLEAN

\* "The transfer is md5-verified on the board before it replaces the old
\* kernel": whatever is lost, late or interrupted, the destination never holds
\* bytes that are no file's.
DestWhole == dest # Bad

\* The state the script and the board keep between and during runs is sound: its
\* types, and a destination that is whole.
BoardInv == TypeOK /\ DestWhole

\* A result of 0 means the file of this run: if the line of the mv arrives whole,
\* it finds the file in k.new, and the file is in the destination once the
\* line is read.  (Of a mv that loses bytes the script takes no notice.)
SuccessVerified ==
  pc = "done" /\ rc = 0 /\ ~hurt => IF line = <<>> THEN dest = run ELSE new = run

\* A run that loses nothing and waits long enough installs its file, whatever
\* runs that were killed before it left on the board: a base64 that waits for
\* input, an echo turned off, files half written.
CleanRunInstalls ==
  pc = "done" /\ line = <<>> /\ clean => rc = 0 /\ dest = run

\* "make sure we are talking to ARM Linux and not to a still-running xv6"
PreflightAtLinux ==
  pc \in {"prepare", "base64", "lines", "eof", "drain", "check"} => fg # "xv6"
=============================================================================
