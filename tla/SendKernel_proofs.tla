------------------------- MODULE SendKernel_proofs -------------------------
(***************************************************************************)
(* Proofs about the kernel sender (SendKernel): what is on the line with   *)
(* each step of the script, whatever is lost or late, and how far the      *)
(* board is behind the script in a run that loses nothing.                 *)
(***************************************************************************)
EXTENDS SendKernel, Integers, TLAPS

Early == {"probe", "verdict", "prepare", "base64", "lines", "eof", "drain", "check"}

None(kinds) == \A k \in DOMAIN line : line[k].kind \notin kinds

\* The lines sent are counted, one by one.
Counted ==
  /\ pc \in {"interrupt", "probe", "verdict", "prepare", "base64"} => sent = 0
  /\ pc = "lines" => sent < NLines
  /\ pc \in {"eof", "drain", "check"} => sent = NLines

\* A checksum read is the one of what is in k.new, and a mv on the line is for it.
Verified ==
  /\ pc = "interrupt" => line = <<>>
  /\ pc \in Early => None({"check", "mv"}) /\ \A f \in Files \cup {Bad} : Md5(f) \notin unread
  /\ pc = "compare" =>
       /\ None({"mv"})
       /\ \A k \in 1..Len(line) : line[k].kind = "check" => k = Len(line)
       /\ \A f \in Files \cup {Bad} :
            Md5(f) \in unread => line = <<>> /\ new = f /\ fg = "sh"
  /\ pc = "mv" => line = <<>> /\ new = run /\ fg = "sh"
  /\ pc = "done" /\ rc = 1 => None({"mv"})
  /\ pc = "done" /\ rc = 0 =>
       \/ line = <<IF hurt THEN Hurt(Item("mv")) ELSE Item("mv")>> /\ new = run /\ fg = "sh"
       \/ line = <<>> /\ (hurt \/ dest = run)
  /\ rc = 0 => pc = "done"

-----------------------------------------------------------------------------
(* A run that has lost nothing and has not been late: the board has taken  *)
(* all but the last Len(line) items of what the script has sent.           *)

Stream == [k \in 1..NLines + 3 |->
             IF k = 1 THEN Item("prepare") ELSE
             IF k = 2 THEN Item("base64") ELSE
             IF k = NLines + 3 THEN Item("eof") ELSE Data(run, k - 2)]

Posted ==
  CASE pc = "prepare" -> 0
    [] pc = "base64" -> 1
    [] pc \in {"lines", "eof"} -> sent + 2
    [] OTHER -> sent + 3

Taken == Posted - Len(line)

\* What the board has when it has taken n items.
Follows(n) ==
  /\ n \in 0..NLines + 3
  /\ fg = IF n \in 2..NLines + 2 THEN "base64" ELSE "sh"
  /\ n >= 2 => /\ Len(gz) = IF n = NLines + 3 THEN NLines ELSE n - 2
               /\ \A k \in 1..Len(gz) : gz[k] = Data(run, k)

InStep ==
  /\ pc # "interrupt" => ~torn
  /\ pc = "probe" => fg = "sh" /\ line = <<>>
  /\ pc = "verdict" =>
       /\ fg = "sh"
       /\ \/ line = <<Item("probe")>>
          \/ line = <<>> /\ Linux \in unread
  /\ pc \in {"prepare", "base64", "lines", "eof", "drain", "check"} =>
       /\ Follows(Taken)
       /\ \A k \in 1..Len(line) : line[k] = Stream[Taken + k]
  /\ pc \in {"prepare", "check"} => line = <<>>
  /\ pc = "compare" =>
       /\ fg = "sh"
       /\ \/ line = <<Item("check")>> /\ gz = Encoded(run)
          \/ line = <<>> /\ Md5(run) \in unread
  /\ pc = "done" =>
       /\ rc = 0 /\ fg = "sh"
       /\ \/ line = <<Item("mv")>> /\ new = run
          \/ line = <<>> /\ dest = run

SendInv == TypeOK /\ DestWhole /\ Counted /\ Verified /\ (clean => InStep)
-----------------------------------------------------------------------------
(* The operators.                                                          *)

Commands == {"probe", "prepare", "base64", "eof", "check", "mv"}

\* What the script sends, whole or hurt, and each item has a kind of its own.
LEMMA ItemKinds ==
  ASSUME SendAssumption
  PROVE  /\ \A k \in Commands : Item(k) \in Sent /\ Item(k).kind = k /\ Item(k).whole
         /\ \A f \in Files, n \in 1..NLines :
              /\ Data(f, n) \in Sent /\ Data(f, n).kind = "data" /\ Data(f, n).whole
              /\ Data(f, n).file = f /\ Data(f, n).n = n
         /\ \A f, g : Md5(f) # Linux /\ (Md5(f) = Md5(g) => f = g)
  <1>1. \A k \in Commands : Item(k) \in Sent /\ Item(k).kind = k /\ Item(k).whole
    <2>1. \A k \in Commands : Item(k) \in Sent  BY DEF Sent, Commands
    <2>2. \A k \in Commands : Item(k).kind = k /\ Item(k).whole = TRUE  BY DEF Item
    <2> QED  BY <2>1, <2>2
  <1>2. \A f \in Files, n \in 1..NLines :
          /\ Data(f, n) \in Sent /\ Data(f, n).kind = "data" /\ Data(f, n).whole
          /\ Data(f, n).file = f /\ Data(f, n).n = n
    <2>1. \A f \in Files, n \in 1..NLines : Data(f, n) \in Sent  BY DEF Sent
    <2>2. \A f, n : /\ Data(f, n).kind = "data" /\ Data(f, n).whole = TRUE
                   /\ Data(f, n).file = f /\ Data(f, n).n = n
      BY DEF Data
    <2> QED  BY <2>1, <2>2
  <1>3. \A f, g : Md5(f) # Linux /\ (Md5(f) = Md5(g) => f = g)
    BY DEF Md5, Linux
  <1> QED  BY <1>1, <1>2, <1>3

\* A line that is hurt keeps its kind and is no longer whole.
LEMMA HurtKinds ==
  ASSUME SendAssumption, NEW i \in Sent
  PROVE  /\ i \in Items /\ Hurt(i) \in Items
         /\ i.whole = TRUE /\ Hurt(i).kind = i.kind /\ Hurt(i).whole = FALSE
         /\ i.kind = "data" => /\ i.file \in Files /\ i.n \in 1..NLines
                               /\ Hurt(i).file = i.file /\ Hurt(i).n = i.n
  <1>1. ASSUME NEW k \in Commands, i = Item(k)
        PROVE  /\ i.whole = TRUE /\ Hurt(i).kind = i.kind /\ Hurt(i).whole = FALSE
               /\ i.kind # "data"
    <2>1. k # "data"  BY DEF Commands
    <2> QED  BY <1>1, <2>1 DEF Item, Hurt
  <1>2. ASSUME NEW f \in Files, NEW n \in 1..NLines, i = Data(f, n)
        PROVE  /\ i.whole = TRUE /\ Hurt(i).kind = i.kind /\ Hurt(i).whole = FALSE
               /\ i.file = f /\ i.n = n /\ Hurt(i).file = f /\ Hurt(i).n = n
    BY <1>2 DEF Data, Hurt
  <1>3. \/ \E k \in Commands : i = Item(k)
        \/ \E f \in Files, n \in 1..NLines : i = Data(f, n)
    BY DEF Sent, Commands
  <1>4. i \in Items /\ Hurt(i) \in Items  BY DEF Items
  <1> QED  BY <1>1, <1>2, <1>3, <1>4

\* What the board reads as data is what the script sends.
LEMMA DataItems ==
  ASSUME SendAssumption, NEW i \in Items
  PROVE  /\ i.whole = TRUE => i \in Sent
         /\ i.kind = "data" => Data(i.file, i.n) \in Sent
  <1>1. PICK j \in Sent : i = j \/ i = Hurt(j)  BY DEF Items
  <1>2. i.kind = "data" => i.file \in Files /\ i.n \in 1..NLines
    BY <1>1, HurtKinds
  <1>3. i.whole = TRUE => i \in Sent  BY <1>1, HurtKinds
  <1> QED  BY <1>2, <1>3 DEF Sent

\* gunzip makes a whole file of its own lines only, and of all others a bad one.
LEMMA GunzipIsWhole ==
  ASSUME SendAssumption
  PROVE  /\ \A ls : Gunzip(ls) \in Files \cup {Bad}
         /\ \A f \in Files : Gunzip(Encoded(f)) = f
  <1>1. \A ls : Gunzip(ls) \in Files \cup {Bad}
    BY DEF Gunzip
  <1>2. ASSUME NEW f \in Files  PROVE  Gunzip(Encoded(f)) = f
    <2>1. ASSUME NEW g \in Files, Encoded(f) = Encoded(g)  PROVE  f = g
      <3>1. 1 \in 1..NLines  BY DEF SendAssumption
      <3>2. Encoded(f)[1] = Data(f, 1) /\ Encoded(g)[1] = Data(g, 1)  BY <3>1 DEF Encoded
      <3> QED  BY <2>1, <3>1, <3>2, ItemKinds
    <2>2. \E g \in Files : Encoded(f) = Encoded(g)  OBVIOUS
    <2>3. (CHOOSE g \in Files : Encoded(f) = Encoded(g)) = f  BY <2>1, <2>2
    <2> QED  BY <2>2, <2>3 DEF Gunzip
  <1> QED  BY <1>1, <1>2

\* The line after a write: with the item at its end, or, if bytes are lost, with
\* what is left of it or as it was.
LEMMA WriteEffect ==
  ASSUME SendAssumption, TypeOK,
         NEW item \in Sent, NEW had \in SUBSET unread, Write(item, had)
  PROVE  /\ line' \in Seq(Items)
         /\ line' \in {line, Append(line, item), Append(line, Hurt(item))}
         /\ unread' \subseteq unread \cup {Linux}
         /\ torn' \in BOOLEAN /\ lost' \in 0..MaxLost /\ clean' \in BOOLEAN /\ hurt' \in BOOLEAN
         /\ \/ line' = Append(line, item) /\ hurt' = FALSE
            \/ line' \in {line, Append(line, Hurt(item))} /\ hurt' = TRUE
         /\ clean' => /\ clean /\ ~torn /\ ~torn' /\ line' = Append(line, item)
                      /\ unread' = had \cup Echoed(item)
  <1>1. /\ item \in Items /\ Hurt(item) \in Items /\ line \in Seq(Items)
        /\ Append(line, item) \in Seq(Items) /\ Append(line, Hurt(item)) \in Seq(Items)
    <2>1. item \in Items /\ Hurt(item) \in Items  BY HurtKinds
    <2>2. line \in Seq(Items)  BY DEF TypeOK
    <2> QED  BY <2>1, <2>2
  <1>2. Echoed(item) \subseteq {Linux}  BY DEF Echoed
  <1>3. CASE /\ ~torn /\ line' = Append(line, item)
             /\ unread' = had \cup Echoed(item)
             /\ hurt' = FALSE /\ UNCHANGED <<torn, lost, clean>>
    BY <1>1, <1>2, <1>3 DEF TypeOK
  <1>4. CASE /\ line' \in {line} \cup (IF item.kind = "eof" THEN {} ELSE {Append(line, Hurt(item))})
             /\ unread' \in {had, had \cup Echoed(item)}
             /\ hurt' = TRUE
             /\ \/ Lose /\ torn' \in IF item.kind = "eof" THEN {torn} ELSE BOOLEAN
                \/ torn /\ torn' = (item.kind = "eof") /\ lost' = lost /\ clean' = FALSE
    <2>1. line' \in {line, Append(line, Hurt(item))}  BY <1>4
    <2>2. lost' \in 0..MaxLost  BY <1>4 DEF TypeOK, Lose, SendAssumption
    <2>3. clean' = FALSE /\ torn' \in BOOLEAN  BY <1>4 DEF Lose, TypeOK
    <2> QED  BY <1>1, <1>2, <1>4, <2>1, <2>2, <2>3
  <1> QED  BY <1>3, <1>4 DEF Write

\* What None says of the line before and after, when it grows or is read.
LEMMA NoneGrows ==
  ASSUME SendAssumption, TypeOK, NEW kinds, None(kinds),
         NEW item \in Sent, item.kind \notin kinds,
         line' \in {line, Append(line, item), Append(line, Hurt(item))}
  PROVE  None(kinds)'
  <1>1. item \in Items /\ Hurt(item) \in Items /\ Hurt(item).kind = item.kind
    BY HurtKinds
  <1>2. line \in Seq(Items)  BY DEF TypeOK
  <1>3. CASE line' = line  BY <1>3 DEF None
  <1>4. ASSUME NEW x \in Items, x.kind \notin kinds, line' = Append(line, x)
        PROVE  None(kinds)'
    <2>1. \A k \in DOMAIN line' :
            (k \in DOMAIN line /\ line'[k] = line[k]) \/ line'[k] = x
      BY <1>2, <1>4
    <2> QED  BY <1>4, <2>1 DEF None
  <1> QED  BY <1>1, <1>3, <1>4

LEMMA NoneShrinks ==
  ASSUME TypeOK, NEW kinds, None(kinds), line # <<>>, line' = Tail(line)
  PROVE  None(kinds)' /\ Head(line).kind \notin kinds
  <1>1. line \in Seq(Items)  BY DEF TypeOK
  <1>2. \A k \in DOMAIN line' : k + 1 \in DOMAIN line /\ line'[k] = line[k + 1]
    BY <1>1
  <1>3. 1 \in DOMAIN line /\ Head(line) = line[1]  BY <1>1
  <1> QED  BY <1>2, <1>3 DEF None

\* The board reads one item, and no losses happen there.
LEMMA BoardReads ==
  ASSUME Board
  PROVE  /\ UNCHANGED <<script, losses>> /\ line # <<>> /\ line' = Tail(line)
  BY DEF Board, ShellProbe, ShellPrepare, ShellBase64, ShellCheck, ShellMv, ShellOther,
         Base64Data, Base64Other, Base64Eof, Xv6, HurtProbe, HurtPrepare, HurtBase64,
         HurtCheck, HurtMv, HurtData, Base64Hurt, Stray, Reads, Spoils, Takes

\* Who reads which item does what.
LEMMA BoardReader ==
  ASSUME Board
  PROVE  /\ fg = "sh" /\ Head(line).whole =>
              /\ Head(line).kind = "probe" => ShellProbe
              /\ Head(line).kind = "prepare" => ShellPrepare
              /\ Head(line).kind = "base64" => ShellBase64
              /\ Head(line).kind = "check" => ShellCheck
              /\ Head(line).kind = "mv" => ShellMv
         /\ fg = "sh" /\ Head(line).kind = "mv" /\ Head(line).whole = FALSE => HurtMv
         /\ fg = "base64" /\ Head(line).whole =>
              /\ Head(line).kind = "data" => Base64Data
              /\ Head(line).kind = "eof" => Base64Eof
  BY DEF Board, ShellProbe, ShellPrepare, ShellBase64, ShellCheck, ShellMv, ShellOther,
         Base64Data, Base64Other, Base64Eof, Xv6, HurtProbe, HurtPrepare, HurtBase64,
         HurtCheck, HurtMv, HurtData, Base64Hurt, Stray, Reads, Spoils, Takes

-----------------------------------------------------------------------------
(* Types, and the lines counted.                                           *)

\* A write by the script keeps the types of the line.
LEMMA SendKeepsTypes ==
  ASSUME SendAssumption, TypeOK, Counted,
         NEW item \in Sent, NEW had \in SUBSET unread, Write(item, had),
         pc' \in Steps, rc' \in {0, 1}, sent' \in 0..NLines,
         UNCHANGED <<run, fg, echo, files>>
  PROVE  TypeOK'
  <1>1. /\ line' \in Seq(Items) /\ unread' \subseteq unread \cup {Linux}
        /\ torn' \in BOOLEAN /\ lost' \in 0..MaxLost /\ clean' \in BOOLEAN /\ hurt' \in BOOLEAN
    BY WriteEffect
  <1>2. UNCHANGED Files /\ UNCHANGED Bad  BY DEF Files, Bad
  <1> QED  BY <1>1, <1>2 DEF TypeOK, files

LEMMA Typing ==
  ASSUME SendAssumption, TypeOK, Counted, [Next]_vars
  PROVE  TypeOK' /\ Counted'
  <1> USE SendAssumption
  <1>k. \A k \in Commands : Item(k) \in Sent
    BY ItemKinds
  <1>r. unread \in SUBSET unread /\ {} \in SUBSET unread  OBVIOUS
  <1>e. <<>> \in Seq(Items)  OBVIOUS
  <1>1. CASE Interrupt
    <2>0. line' = <<>> \/ line' = line  BY <1>1 DEF Interrupt
    <2>1. line' \in Seq(Items)
      <3>1. line \in Seq(Items)  BY DEF TypeOK
      <3> QED  BY <1>e, <2>0, <3>1
    <2>2. fg' \in Readers  BY <1>1 DEF Interrupt, TypeOK, Readers
    <2>3. lost' \in 0..MaxLost
      <3>1. lost' = lost \/ (lost < MaxLost /\ lost' = lost + 1)
        BY <1>1 DEF Interrupt, Lose
      <3>2. lost \in 0..MaxLost  BY DEF TypeOK
      <3> QED  BY <3>1, <3>2 DEF SendAssumption
    <2>4. clean' \in BOOLEAN /\ torn' \in BOOLEAN  BY <1>1 DEF Interrupt, TypeOK, Lose
    <2> QED  BY <1>1, <2>1, <2>2, <2>3, <2>4
             DEF Interrupt, TypeOK, Counted, Goto, Steps, files
  <1>2. ASSUME NEW from, NEW item \in Sent, NEW had \in SUBSET unread, NEW to \in Steps,
               Send(from, item, had, to)
        PROVE  TypeOK' /\ pc = from /\ pc' = to /\ sent' = sent
    <2>1. rc' \in {0, 1} /\ sent' \in 0..NLines  BY <1>2 DEF Send, Goto, TypeOK
    <2>2. TypeOK'
      BY <1>2, <2>1, SendKeepsTypes DEF Send, Goto
    <2> QED  BY <1>2, <2>2 DEF Send, Goto
  <1>3. CASE Probe
    <2>1. TypeOK' /\ pc = "probe" /\ pc' = "verdict" /\ sent' = sent
      BY <1>k, <1>r, <1>2, <1>3 DEF Probe, Steps, Commands
    <2> QED  BY <2>1 DEF Counted
  <1>4. CASE Prepare
    <2>1. TypeOK' /\ pc = "prepare" /\ pc' = "base64" /\ sent' = sent
      BY <1>k, <1>r, <1>2, <1>4 DEF Prepare, Steps, Commands
    <2> QED  BY <2>1 DEF Counted
  <1>5. CASE Base64
    <2>1. TypeOK' /\ pc = "base64" /\ pc' = "lines" /\ sent' = sent
      BY <1>k, <1>r, <1>2, <1>5 DEF Base64, Steps, Commands
    <2> QED  BY <2>1 DEF Counted, SendAssumption
  <1>6. CASE Eof
    <2>1. TypeOK' /\ pc = "eof" /\ pc' = "drain" /\ sent' = sent
      BY <1>k, <1>r, <1>2, <1>6 DEF Eof, Steps, Commands
    <2> QED  BY <2>1 DEF Counted
  <1>7. CASE Check
    <2>1. TypeOK' /\ pc = "check" /\ pc' = "compare" /\ sent' = sent
      BY <1>k, <1>r, <1>2, <1>7 DEF Check, Steps, Commands
    <2> QED  BY <2>1 DEF Counted
  <1>8. CASE SendLine
    <2>1. sent' = sent + 1 /\ sent' \in 1..NLines
      BY <1>8 DEF SendLine, Counted, TypeOK, SendAssumption
    <2>2. Data(run, sent') \in Sent  BY <2>1, ItemKinds DEF TypeOK
    <2>3. pc' \in Steps /\ rc' \in {0, 1}  BY <1>8 DEF SendLine, Goto, TypeOK, Steps
    <2>4. (IF sent = 0 THEN {} ELSE unread) \in SUBSET unread  OBVIOUS
    <2>5. TypeOK'
      BY <1>8, <2>1, <2>2, <2>3, <2>4, SendKeepsTypes DEF SendLine, Goto
    <2>6. Counted'
      BY <1>8, <2>1 DEF SendLine, Goto, Counted
    <2> QED  BY <2>5, <2>6
  <1>9. CASE Install
    <2>1. TypeOK'
      BY <1>9, <1>k, <1>r, SendKeepsTypes DEF Install, Steps, TypeOK, Commands
    <2> QED  BY <1>9, <2>1 DEF Install, Counted
  <1>10. CASE Preflight \/ Drain \/ Compare
    <2>1. Read /\ pc' \in Steps /\ rc' = rc
      BY <1>10 DEF Preflight, Drain, Compare, Steps
    <2>2. clean' \in BOOLEAN  BY <2>1 DEF Read, TypeOK
    <2>3. TypeOK'  BY <2>1, <2>2 DEF Read, TypeOK, files
    <2> QED  BY <1>10, <2>3 DEF Read, Preflight, Drain, Compare, Counted
  <1>11. CASE Restart
    <2>1. run' \in Files /\ pc' \in Steps /\ sent' \in 0..NLines /\ rc' \in {0, 1}
      <3>1. run \in 1..MaxRuns /\ run < MaxRuns /\ run' = run + 1
        BY <1>11 DEF Restart, TypeOK, Files
      <3> QED  BY <1>11, <3>1 DEF Restart, Files, Steps, SendAssumption
    <2>2. /\ UNCHANGED <<line, unread, fg, echo, gz, new, dest, torn, lost>>
          /\ clean' = TRUE /\ hurt' = FALSE
      BY <1>11 DEF Restart, files
    <2>3. TypeOK'  BY <2>1, <2>2 DEF TypeOK
    <2> QED  BY <1>11, <2>3 DEF Restart, Counted
  <1>12. CASE Board
    <2>1. UNCHANGED <<script, losses>> /\ line # <<>> /\ line' = Tail(line)
      BY <1>12, BoardReads
    <2>2. line' \in Seq(Items) /\ Head(line) \in Items
      BY <2>1 DEF TypeOK
    <2>3. Counted'  BY <2>1 DEF script, Counted
    <2>4. \A ls : Gunzip(ls) \in Files \cup {Bad}  BY GunzipIsWhole
    <2> HIDE DEF Gunzip, Files
    <2>5. /\ pc' = pc /\ run' = run /\ sent' = sent /\ rc' = rc
          /\ lost' = lost /\ clean' = clean /\ torn' = torn /\ hurt' = hurt
      BY <2>1 DEF script, losses
    <2>6. fg' \in Readers
      BY <1>12
      DEF TypeOK, Readers, files, Board, ShellProbe, ShellPrepare, ShellBase64, ShellCheck, ShellMv,
          ShellOther, Base64Data, Base64Other, Base64Eof, Xv6, HurtProbe, HurtPrepare,
          HurtBase64, HurtCheck, HurtMv, HurtData, Base64Hurt, Stray
    <2>6a. \/ gz' \in {gz, <<>>, <<Item("junk")>>, Append(gz, Item("junk"))}
           \/ gz' = Append(gz, Head(line)) /\ Head(line).whole = TRUE
           \/ gz' = Append(gz, Data(Head(line).file, Head(line).n)) /\ Head(line).kind = "data"
      BY <1>12
      DEF Reads, Takes, files, Board, ShellProbe, ShellPrepare, ShellBase64, ShellCheck, ShellMv,
          ShellOther, Base64Data, Base64Other, Base64Eof, Xv6, HurtProbe, HurtPrepare,
          HurtBase64, HurtCheck, HurtMv, HurtData, Base64Hurt, Stray
    <2>6b. gz' \in Seq(Sent \cup {Item("junk")})
      <3> DEFINE Output == Sent \cup {Item("junk")}
      <3>1. gz \in Seq(Output)  BY DEF TypeOK
      <3>2. /\ \A x \in Output : Append(gz, x) \in Seq(Output)
            /\ <<>> \in Seq(Output) /\ <<Item("junk")>> \in Seq(Output)
        <4>1. Item("junk") \in Output  OBVIOUS
        <4> HIDE DEF Output
        <4> QED  BY <3>1, <4>1
      <3>3. /\ Head(line).whole = TRUE => Head(line) \in Output
            /\ Head(line).kind = "data" => Data(Head(line).file, Head(line).n) \in Output
        <4>1. PICK x \in Items : x = Head(line)  BY <2>2
        <4>2. /\ x.whole = TRUE => x \in Sent
              /\ x.kind = "data" => Data(x.file, x.n) \in Sent
          BY DataItems
        <4> QED  BY <4>1, <4>2
      <3>4. Item("junk") \in Output  OBVIOUS
      <3> HIDE DEF Output
      <3>5. gz' \in Seq(Output)  BY <2>6a, <3>1, <3>2, <3>3, <3>4
      <3> QED  BY <3>5 DEF Output
    <2>7. /\ new' \in {Other, Bad} \cup Files /\ dest' \in {Other, Bad} \cup Files
      BY <1>12, <2>4
      DEF TypeOK, files, Board, ShellProbe, ShellPrepare, ShellBase64, ShellCheck, ShellMv,
          ShellOther, Base64Data, Base64Other, Base64Eof, Xv6, HurtProbe, HurtPrepare,
          HurtBase64, HurtCheck, HurtMv, HurtData, Base64Hurt, Stray
    <2>8. unread' \subseteq {Linux} \cup {Md5(f) : f \in Files \cup {Bad}}
      BY <1>12, <2>4, <2>7
      DEF TypeOK, Board, ShellProbe, ShellPrepare, ShellBase64, ShellCheck, ShellMv,
          ShellOther, Base64Data, Base64Other, Base64Eof, Xv6, HurtProbe, HurtPrepare,
          HurtBase64, HurtCheck, HurtMv, HurtData, Base64Hurt, Stray
    <2>9. echo' \in BOOLEAN
      BY <1>12
      DEF TypeOK, Board, ShellProbe, ShellPrepare, ShellBase64, ShellCheck, ShellMv,
          ShellOther, Base64Data, Base64Other, Base64Eof, Xv6, HurtProbe, HurtPrepare,
          HurtBase64, HurtCheck, HurtMv, HurtData, Base64Hurt, Stray
    <2>10. TypeOK'  BY <2>2, <2>5, <2>6, <2>6b, <2>7, <2>8, <2>9 DEF TypeOK
    <2> QED  BY <2>3, <2>10
  <1>13. CASE UNCHANGED vars
    BY <1>13 DEF vars, script, files, losses, TypeOK, Counted
  <1> QED
    BY <1>1, <1>3, <1>4, <1>5, <1>6, <1>7, <1>8, <1>9, <1>10, <1>11, <1>12, <1>13
    DEF Next, Script

-----------------------------------------------------------------------------
(* What is verified, in whatever is lost or late.                          *)

\* Only a check and a mv, or what is left of one, do more than answer a probe.
LEMMA BoardEffect ==
  ASSUME Board
  PROVE  \/ /\ fg = "sh" /\ Head(line).kind = "check" /\ dest' = dest
            /\ \/ unread' = unread
               \/ fg' = "sh" /\ unread' = unread \cup {Md5(new')}
         \/ fg = "sh" /\ Head(line).kind = "mv" /\ (ShellMv \/ HurtMv)
         \/ dest' = dest /\ unread' \subseteq unread \cup {Linux}
  <1>1. CASE ShellCheck  BY <1>1 DEF ShellCheck, Reads, Takes
  <1>2. CASE HurtCheck  BY <1>2 DEF HurtCheck, Spoils, Takes
  <1>3. CASE ShellMv \/ HurtMv  BY <1>3 DEF ShellMv, HurtMv, Reads, Spoils, Takes
  <1>4. CASE ~(ShellCheck \/ HurtCheck \/ ShellMv \/ HurtMv)
    BY <1>4
    DEF Board, ShellProbe, ShellPrepare, ShellBase64, ShellOther, Base64Data,
        Base64Other, Base64Eof, Xv6, HurtProbe, HurtPrepare, HurtBase64, HurtData,
        Base64Hurt, Stray, files
  <1> QED  BY <1>1, <1>2, <1>3, <1>4

\* A write of what is neither a check nor a mv, before the check.
LEMMA EarlyWrite ==
  ASSUME SendAssumption, TypeOK, DestWhole, Verified, pc \in Early, pc' \in Early,
         NEW item \in Sent, item.kind \notin {"check", "mv"},
         NEW had \in SUBSET unread, Write(item, had), UNCHANGED <<rc, dest>>
  PROVE  DestWhole' /\ Verified'
  <1>1. /\ line' \in {line, Append(line, item), Append(line, Hurt(item))}
        /\ unread' \subseteq unread \cup {Linux}
    BY WriteEffect
  <1>2. None({"check", "mv"})'  BY <1>1, NoneGrows DEF Verified
  <1>3. \A f \in Files \cup {Bad} : Md5(f) \notin unread'
    BY <1>1, ItemKinds DEF Verified
  <1>4. rc' # 0  BY DEF Verified, Early
  <1>5. UNCHANGED Files /\ UNCHANGED Bad  BY DEF Files, Bad
  <1> QED  BY <1>2, <1>3, <1>4, <1>5 DEF Verified, DestWhole, Early, Md5

LEMMA CheckIsLast ==
  ASSUME SendAssumption, TypeOK, DestWhole, Verified, Check
  PROVE  DestWhole' /\ Verified'
  <1>1. /\ pc = "check" /\ pc' = "compare" /\ rc' = rc /\ UNCHANGED files
        /\ Write(Item("check"), unread)
    BY DEF Check, Send, Goto
  <1>2. Item("check") \in Sent /\ Item("check").kind = "check"
    BY ItemKinds DEF Commands
  <1>3. /\ line' \in {line, Append(line, Item("check")), Append(line, Hurt(Item("check")))}
        /\ unread' \subseteq unread \cup {Linux}
    <2>1. unread \in SUBSET unread  OBVIOUS
    <2> QED  BY <1>1, <1>2, <2>1, WriteEffect
  <1>4. None({"check", "mv"})  BY <1>1 DEF Verified, Early
  <1>5. None({"mv"})'
    <2>1. None({"mv"})  BY <1>4 DEF None
    <2> QED  BY <1>2, <1>3, <2>1, NoneGrows
  <1>6. \A k \in 1..Len(line') : line'[k].kind = "check" => k = Len(line')
    <2>1. line \in Seq(Items)  BY DEF TypeOK
    <2>2. \A k \in 1..Len(line) : line[k].kind # "check"  BY <1>4, <2>1 DEF None
    <2>3. ASSUME NEW x, line' = Append(line, x)
          PROVE  /\ Len(line') = Len(line) + 1
                 /\ \A k \in 1..Len(line') :
                      (k \in 1..Len(line) /\ line'[k] = line[k]) \/ k = Len(line')
      BY <2>1, <2>3
    <2> QED  BY <1>3, <2>2, <2>3
  <1>7. \A f \in Files \cup {Bad} : Md5(f) \notin unread'
    BY <1>1, <1>3, ItemKinds DEF Verified, Early
  <1>8. rc' # 0  BY <1>1 DEF Verified
  <1>9. UNCHANGED Files /\ UNCHANGED Bad  BY DEF Files, Bad
  <1> QED  BY <1>1, <1>5, <1>6, <1>7, <1>8, <1>9 DEF Verified, DestWhole, Early, Md5, files

LEMMA ReadKeeps ==
  ASSUME SendAssumption, TypeOK, DestWhole, Verified, Preflight \/ Drain \/ Compare
  PROVE  DestWhole' /\ Verified'
  <1>1. /\ pc \in {"verdict", "drain", "compare"} /\ rc' = rc /\ Read
        /\ pc = "verdict" => pc' \in {"prepare", "done"}
        /\ pc = "drain" => pc' = "check"
        /\ pc = "compare" => pc' = IF Md5(run) \in unread THEN "mv" ELSE "done"
    BY DEF Preflight, Drain, Compare
  <1>2. /\ unread' = {} /\ line' = line /\ fg' = fg /\ run' = run
        /\ new' = new /\ dest' = dest
    BY <1>1 DEF Read, files
  <1>3. rc # 0 /\ rc = 1  BY <1>1 DEF Verified, TypeOK
  <1>4. None({"mv"})'
    <2>1. CASE pc = "compare"  BY <1>2, <2>1 DEF Verified, None
    <2>2. CASE pc # "compare"  BY <1>1, <1>2, <2>2 DEF Verified, None, Early
    <2> QED  BY <2>1, <2>2
  <1>5. CASE pc = "compare" /\ Md5(run) \in unread
    <2>1. run \in Files \cup {Bad}  BY DEF TypeOK
    <2>2. line = <<>> /\ new = run /\ fg = "sh"  BY <1>5, <2>1 DEF Verified
    <2> QED  BY <1>1, <1>2, <1>3, <1>5, <2>2 DEF Verified, DestWhole, Early, Bad
  <1>6. CASE pc' = "done"
    BY <1>1, <1>2, <1>3, <1>4, <1>6 DEF Verified, DestWhole, Early, Bad
  <1>7. CASE pc # "compare" /\ pc' # "done"
    <2>1. pc \in Early /\ pc' \in Early  BY <1>1, <1>7 DEF Early
    <2>2. None({"check", "mv"})'  BY <1>2, <2>1 DEF Verified, None
    <2> QED  BY <1>1, <1>2, <1>3, <2>1, <2>2 DEF Verified, DestWhole, Early, Bad
  <1> QED  BY <1>1, <1>5, <1>6, <1>7

LEMMA BoardKeeps ==
  ASSUME SendAssumption, TypeOK, DestWhole, Verified, Board
  PROVE  DestWhole' /\ Verified'
  <1>1. UNCHANGED <<script, losses>> /\ line # <<>> /\ line' = Tail(line)
    BY BoardReads
  <1>2. pc' = pc /\ rc' = rc /\ run' = run /\ hurt' = hurt  BY <1>1 DEF script, losses
  <1>3. line \in Seq(Items) /\ Head(line) = line[1] /\ 1 \in DOMAIN line
    BY <1>1 DEF TypeOK
  <1>4. UNCHANGED Files /\ UNCHANGED Bad  BY DEF Files, Bad
  <1>5. CASE pc \in {"interrupt", "mv"}  BY <1>1, <1>5 DEF Verified
  <1>6. CASE pc \in Early
    <2>1. None({"check", "mv"})' /\ Head(line).kind \notin {"check", "mv"}
      BY <1>1, <1>6, NoneShrinks DEF Verified
    <2>2. dest' = dest /\ unread' \subseteq unread \cup {Linux}
      BY <2>1, BoardEffect
    <2>3. \A f \in Files \cup {Bad} : Md5(f) \notin unread'
      BY <1>6, <2>2, ItemKinds DEF Verified
    <2> QED
      BY <1>2, <1>4, <1>6, <2>1, <2>2, <2>3 DEF Verified, DestWhole, Early, Md5
  <1>7. CASE pc = "compare"
    <2>1. None({"mv"})' /\ Head(line).kind # "mv"
      BY <1>1, <1>7, NoneShrinks DEF Verified
    <2>2. \A k \in 1..Len(line') : line'[k].kind = "check" => k = Len(line')
      <3>1. \A k \in 1..Len(line') : line'[k] = line[k + 1] /\ k + 1 \in 1..Len(line)
                                     /\ Len(line') = Len(line) - 1
        BY <1>1, <1>3
      <3> QED  BY <1>7, <3>1 DEF Verified
    <2>3. \A f \in Files \cup {Bad} : Md5(f) \notin unread  BY <1>1, <1>7 DEF Verified
    <2>4. CASE /\ fg = "sh" /\ Head(line).kind = "check" /\ dest' = dest
               /\ \/ unread' = unread
                  \/ fg' = "sh" /\ unread' = unread \cup {Md5(new')}
      <3>0. 1 \in 1..Len(line) /\ line[1].kind = "check"  BY <1>3, <2>4
      <3>1. Len(line) = 1  BY <1>7, <3>0 DEF Verified
      <3>2. line' = <<>>  BY <1>1, <1>3, <3>1
      <3>3. \A f \in Files \cup {Bad} : Md5(f) \in unread' => new' = f /\ fg' = "sh"
        BY <2>3, <2>4, ItemKinds
      <3> QED  BY <1>2, <1>4, <1>7, <2>1, <2>2, <2>4, <3>2, <3>3
               DEF Verified, DestWhole, Early, Md5
    <2>5. CASE dest' = dest /\ unread' \subseteq unread \cup {Linux}
      <3>1. \A f \in Files \cup {Bad} : Md5(f) \notin unread'
        BY <2>3, <2>5, ItemKinds
      <3> QED  BY <1>2, <1>4, <1>7, <2>1, <2>2, <2>5, <3>1
               DEF Verified, DestWhole, Early, Md5
    <2> QED  BY <2>1, <2>4, <2>5, BoardEffect
  <1>8. CASE pc = "done" /\ rc = 1
    <2>1. None({"mv"})' /\ Head(line).kind # "mv"
      BY <1>1, <1>8, NoneShrinks DEF Verified
    <2>2. dest' = dest
      BY <2>1, BoardEffect
    <2> QED  BY <1>2, <1>8, <2>1, <2>2 DEF Verified, DestWhole, Early, Bad
  <1>9. CASE pc = "done" /\ rc = 0
    <2>1. /\ new = run /\ fg = "sh"
          /\ line = <<IF hurt THEN Hurt(Item("mv")) ELSE Item("mv")>>
      BY <1>1, <1>9 DEF Verified
    <2>2. line' = <<>>
      <3>1. Len(line) = 1  BY <2>1
      <3> QED  BY <1>1, <1>3, <3>1
    <2>3. run # Other /\ run # Bad /\ Other # Bad
      BY DEF TypeOK, Files, Other, Bad, SendAssumption
    <2>4. /\ Item("mv") \in Sent /\ Item("mv").kind = "mv" /\ Item("mv").whole
          /\ Hurt(Item("mv")).kind = "mv" /\ Hurt(Item("mv")).whole = FALSE
          /\ hurt \in BOOLEAN
      BY ItemKinds, HurtKinds DEF Commands, TypeOK
    <2>5. CASE ~hurt
      <3>1. Head(line).kind = "mv" /\ Head(line).whole  BY <2>1, <2>4, <2>5
      <3>2. ShellMv  BY <2>1, <3>1, BoardReader
      <3>3. dest' = run  BY <2>1, <2>3, <3>2 DEF ShellMv
      <3> QED  BY <1>2, <1>9, <2>2, <2>3, <3>3 DEF Verified, DestWhole, Early, Bad
    <2>6. CASE hurt
      <3>1. Head(line).kind = "mv" /\ Head(line).whole = FALSE  BY <2>1, <2>4, <2>6
      <3>2. HurtMv  BY <2>1, <3>1, BoardReader
      <3>3. dest' \in {dest, Other, new}  BY <3>2 DEF HurtMv
      <3>4. dest' # Bad  BY <2>1, <2>3, <3>3 DEF DestWhole
      <3> QED  BY <1>2, <1>9, <2>2, <2>6, <3>4 DEF Verified, DestWhole, Early, Bad
    <2> QED  BY <2>5, <2>6
  <1> QED
    BY <1>5, <1>6, <1>7, <1>8, <1>9 DEF TypeOK, Steps, Early

LEMMA VerifiedStep ==
  ASSUME SendAssumption, TypeOK, DestWhole, Verified, Counted, [Next]_vars
  PROVE  DestWhole' /\ Verified'
  <1> USE SendAssumption
  <1>1. CASE Interrupt
    <2>1. /\ pc = "interrupt" /\ pc' = "probe" /\ unread' = {} /\ rc' = rc /\ dest' = dest
      BY <1>1 DEF Interrupt, Goto, files
    <2>2. line' = <<>>  BY <1>1 DEF Interrupt, Verified
    <2>3. None({"check", "mv"})'  BY <2>2 DEF None
    <2> QED  BY <2>1, <2>2, <2>3 DEF Verified, DestWhole, Early, Bad
  <1>2. ASSUME NEW from \in Early, NEW item \in Sent, item.kind \notin {"check", "mv"},
               NEW had \in SUBSET unread, NEW to \in Early, Send(from, item, had, to)
        PROVE  DestWhole' /\ Verified'
    BY <1>2, EarlyWrite DEF Send, Goto, files
  <1>3. CASE Probe \/ Prepare \/ Base64 \/ Eof
    <2>1. \A k \in {"probe", "prepare", "base64", "eof"} :
            Item(k) \in Sent /\ Item(k).kind \notin {"check", "mv"}
      BY ItemKinds DEF Commands
    <2>2. {} \in SUBSET unread /\ unread \in SUBSET unread  OBVIOUS
    <2>3. CASE Probe  BY <1>2, <2>1, <2>2, <2>3 DEF Probe, Early
    <2>4. CASE Prepare  BY <1>2, <2>1, <2>2, <2>4 DEF Prepare, Early
    <2>5. CASE Base64  BY <1>2, <2>1, <2>2, <2>5 DEF Base64, Early
    <2>6. CASE Eof  BY <1>2, <2>1, <2>2, <2>6 DEF Eof, Early
    <2> QED  BY <1>3, <2>3, <2>4, <2>5, <2>6
  <1>4. CASE SendLine
    <2>1. sent' = sent + 1 /\ sent' \in 1..NLines
      BY <1>4 DEF SendLine, Counted, TypeOK, SendAssumption
    <2>2. Data(run, sent') \in Sent /\ Data(run, sent').kind \notin {"check", "mv"}
      BY <2>1, ItemKinds DEF TypeOK
    <2>3. (IF sent = 0 THEN {} ELSE unread) \in SUBSET unread  OBVIOUS
    <2>4. pc \in Early /\ pc' \in Early /\ rc' = rc /\ dest' = dest
      BY <1>4 DEF SendLine, Goto, Early, files
    <2> QED  BY <1>4, <2>2, <2>3, <2>4, EarlyWrite DEF SendLine
  <1>5. CASE Install
    <2>1. /\ pc = "mv" /\ pc' = "done" /\ rc' = 0 /\ Write(Item("mv"), unread)
          /\ run' = run /\ fg' = fg /\ new' = new /\ dest' = dest
      BY <1>5 DEF Install, files
    <2>2. Item("mv") \in Sent /\ unread \in SUBSET unread  BY ItemKinds DEF Commands
    <2>3. \/ line' = Append(line, Item("mv")) /\ hurt' = FALSE
          \/ line' \in {line, Append(line, Hurt(Item("mv")))} /\ hurt' = TRUE
      BY <2>1, <2>2, WriteEffect
    <2>4. line = <<>> /\ new = run /\ fg = "sh"  BY <2>1 DEF Verified
    <2>5. \/ line' = <<IF hurt' THEN Hurt(Item("mv")) ELSE Item("mv")>>
          \/ line' = <<>> /\ hurt'
      BY <2>3, <2>4
    <2> QED  BY <2>1, <2>4, <2>5 DEF Verified, DestWhole, Early, Bad, Hurt, Item
  <1>6. CASE Restart
    BY <1>6 DEF Restart, Verified, DestWhole, Early, files, Bad
  <1>7. CASE UNCHANGED vars
    BY <1>7 DEF vars, script, files, losses, Verified, DestWhole, None, Early, Bad, Md5, Files, Hurt, Item
  <1> QED
    BY <1>1, <1>3, <1>4, <1>5, <1>6, <1>7, CheckIsLast, ReadKeeps, BoardKeeps
    DEF Next, Script

-----------------------------------------------------------------------------
(* A run that loses nothing and is never late.                             *)

Streaming == {"prepare", "base64", "lines", "eof", "drain", "check"}

\* The board is behind by what is on the line, and never ahead of the script.
LEMMA Behind ==
  ASSUME SendAssumption, TypeOK, Counted, pc \in Streaming
  PROVE  Posted \in 0..NLines + 3 /\ Taken \in Int /\ Len(line) \in Nat
         /\ Posted = Taken + Len(line)
  <1>1. Posted \in 0..NLines + 3
    BY DEF Posted, TypeOK, Counted, Streaming, SendAssumption
  <1>2. Len(line) \in Nat  BY DEF TypeOK
  <1> QED  BY <1>1, <1>2 DEF Taken, SendAssumption

\* The next item of the stream is sent.
LEMMA NextSent ==
  ASSUME SendAssumption, TypeOK, Counted, InStep, TypeOK', Counted',
         pc \in {"prepare", "base64", "lines", "eof"},
         pc' \in {"base64", "lines", "eof", "drain"},
         Posted' = Posted + 1, line' = Append(line, Stream[Posted + 1]),
         UNCHANGED <<run, fg, gz>>, ~torn'
  PROVE  InStep'
  <1>1. /\ Posted \in 0..NLines + 3 /\ Taken \in Int /\ Len(line) \in Nat
        /\ Posted = Taken + Len(line)
    BY Behind DEF Streaming
  <1>2. line \in Seq(Items)  BY DEF TypeOK
  <1>3. Len(line') = Len(line) + 1  BY <1>2
  <1>4. Taken' = Taken  BY <1>1, <1>3 DEF Taken
  <1>5. Follows(Taken) /\ \A k \in 1..Len(line) : line[k] = Stream[Taken + k]
    BY DEF InStep
  <1>6. Follows(Taken)'  BY <1>4, <1>5 DEF Follows, Data
  <1>7. Stream' = Stream  BY DEF Stream, Data, Item
  <1>8. ASSUME NEW k \in 1..Len(line')  PROVE  line'[k] = Stream[Taken + k]
    <2>1. CASE k \in 1..Len(line)  BY <1>2, <1>5, <2>1
    <2>2. CASE k = Len(line) + 1
      <3>1. line'[k] = Stream[Posted + 1]  BY <1>2, <2>2
      <3>2. Posted + 1 = Taken + k  BY <1>1, <2>2
      <3> QED  BY <3>1, <3>2
    <2> QED  BY <1>1, <1>3, <2>1, <2>2
  <1> HIDE DEF Stream, Posted, Taken, Follows
  <1>9. \A k \in 1..Len(line') : line'[k] = Stream'[Taken' + k]
    BY <1>4, <1>7, <1>8
  <1> QED  BY <1>6, <1>9 DEF InStep

\* The board takes the next item of the stream, as the command it is.
LEMMA NextTaken ==
  ASSUME SendAssumption, TypeOK, Counted, InStep, TypeOK',
         pc \in {"base64", "lines", "eof", "drain"}, Board
  PROVE  InStep'
  <1>1. /\ Posted \in 0..NLines + 3 /\ Taken \in Int /\ Len(line) \in Nat
        /\ Posted = Taken + Len(line)
    BY Behind DEF Streaming
  <1>2. UNCHANGED <<script, losses>> /\ line # <<>> /\ line' = Tail(line)
    BY BoardReads
  <1>3. pc' = pc /\ run' = run /\ sent' = sent /\ torn' = torn
    BY <1>2 DEF script, losses
  <1>4. line \in Seq(Items) /\ gz \in Seq(Sent \cup {Item("junk")})  BY DEF TypeOK
  <1>5. Len(line) >= 1 /\ Head(line) = line[1] /\ Len(line') = Len(line) - 1
        /\ \A k \in 1..Len(line') : line'[k] = line[k + 1] /\ k + 1 \in 1..Len(line)
    BY <1>2, <1>4
  <1>6. Follows(Taken) /\ \A k \in 1..Len(line) : line[k] = Stream[Taken + k]
    BY DEF InStep
  <1>7. Posted' = Posted  BY <1>3 DEF Posted
  <1>8. Taken' = Taken + 1  BY <1>1, <1>5, <1>7 DEF Taken
  <1>9. Taken + 1 \in 1..NLines + 3
    BY <1>1, <1>5, <1>6 DEF Follows, SendAssumption
  <1>10. Head(line) = Stream[Taken + 1]
    <2>1. 1 \in 1..Len(line)  BY <1>1, <1>5
    <2> QED  BY <1>5, <1>6, <2>1
  <1>11. Stream' = Stream  BY <1>3 DEF Stream, Data, Item
  <1>12. ASSUME NEW k \in 1..Len(line')  PROVE  line'[k] = Stream[Taken' + k]
    <2>1. line'[k] = Stream[Taken + (k + 1)]  BY <1>5, <1>6
    <2>2. Taken + (k + 1) = Taken' + k  BY <1>1, <1>8
    <2> QED  BY <2>1, <2>2
  <1>k. \A k \in {"prepare", "base64", "eof"} : Item(k).kind = k /\ Item(k).whole
    BY ItemKinds DEF Commands
  <1>n. PICK n \in 1..NLines + 3 : n = Taken + 1  BY <1>9
  <1>13. Follows(n)'
    <2>1. CASE Taken + 1 = 1
      <3>1. Head(line) = Item("prepare")  BY <1>9, <1>10, <2>1 DEF Stream
      <3>2. fg = "sh"  BY <1>1, <1>6, <2>1 DEF Follows
      <3>3. ShellPrepare
        BY <1>k, <3>1, <3>2, BoardReader
      <3>4. fg' = "sh"  BY <3>2, <3>3 DEF ShellPrepare
      <3> QED  BY <1>n, <2>1, <3>4 DEF Follows, SendAssumption
    <2>2. CASE Taken + 1 = 2
      <3>1. Head(line) = Item("base64")
        BY <1>9, <1>10, <2>2 DEF Stream, SendAssumption
      <3>2. fg = "sh"  BY <1>1, <1>6, <2>2 DEF Follows
      <3>3. ShellBase64
        BY <1>k, <3>1, <3>2, BoardReader
      <3>4. fg' = "base64" /\ gz' = <<>>  BY <3>3 DEF ShellBase64
      <3>5. Len(gz') = 0  BY <3>4
      <3> QED  BY <1>n, <2>2, <3>4, <3>5 DEF Follows, SendAssumption
    <2>3. CASE Taken + 1 \in 3..NLines + 2
      <3>1. Head(line) = Data(run, Taken - 1)
        <4>1. Stream[Taken + 1] = Data(run, (Taken + 1) - 2)
          BY <1>1, <1>9, <2>3 DEF Stream, SendAssumption
        <4>2. (Taken + 1) - 2 = Taken - 1  BY <1>1
        <4> QED  BY <1>10, <4>1, <4>2
      <3>2. Head(line).kind = "data" /\ Head(line).whole
        <4>1. Taken - 1 \in 1..NLines  BY <1>1, <2>3 DEF SendAssumption
        <4>2. run \in Files  BY DEF TypeOK
        <4> QED  BY <3>1, <4>1, <4>2, ItemKinds
      <3>3. fg = "base64"  BY <1>1, <1>6, <2>3 DEF Follows, SendAssumption
      <3>4. Base64Data
        BY <3>2, <3>3, BoardReader
      <3>5. fg' = "base64" /\ gz' = Append(gz, Data(run, Taken - 1))
        BY <3>1, <3>3, <3>4 DEF Base64Data
      <3>6. Len(gz) = Taken - 2 /\ \A k \in 1..Len(gz) : gz[k] = Data(run, k)
        BY <1>1, <1>6, <2>3 DEF Follows, SendAssumption
      <3>7. Len(gz') = Taken - 1  BY <1>1, <1>4, <3>5, <3>6
      <3>8. \A k \in 1..Len(gz') : gz'[k] = Data(run, k)
        BY <1>1, <1>4, <3>5, <3>6, <3>7
      <3>9. \A k \in 1..Len(gz') : gz'[k] = Data(run', k)  BY <1>3, <3>8
      <3>10. Len(gz') = (Taken + 1) - 2  BY <1>1, <3>7
      <3>11. Taken + 1 # NLines + 3 /\ Taken + 1 \in 2..NLines + 2
        BY <1>1, <2>3 DEF SendAssumption
      <3> HIDE DEF Taken
      <3> QED
        <4>1. /\ n \in 0..NLines + 3 /\ n # NLines + 3 /\ n \in 2..NLines + 2
              /\ Len(gz') = n - 2
          BY <1>n, <3>10, <3>11 DEF SendAssumption
        <4>2. /\ fg' = IF n \in 2..NLines + 2 THEN "base64" ELSE "sh"
              /\ Len(gz') = IF n = NLines + 3 THEN NLines ELSE n - 2
          BY <3>5, <4>1
        <4> QED  BY <3>9, <4>1, <4>2 DEF Follows
    <2>4. CASE Taken + 1 = NLines + 3
      <3>1. Head(line) = Item("eof")
        BY <1>9, <1>10, <2>4 DEF Stream, SendAssumption
      <3>2. fg = "base64" /\ Len(gz) = NLines /\ \A k \in 1..Len(gz) : gz[k] = Data(run, k)
        BY <1>1, <1>6, <2>4 DEF Follows, SendAssumption
      <3>3. Base64Eof
        BY <1>k, <3>1, <3>2, BoardReader
      <3>4. fg' = "sh" /\ gz' = gz  BY <3>3 DEF Base64Eof, files
      <3>5. \A k \in 1..Len(gz') : gz'[k] = Data(run', k)  BY <1>3, <3>2, <3>4
      <3> QED  BY <1>n, <2>4, <3>2, <3>4, <3>5 DEF Follows, SendAssumption
    <2> QED  BY <1>9, <2>1, <2>2, <2>3, <2>4 DEF SendAssumption
  <1> QED
    <2>1. Follows(Taken)'  BY <1>8, <1>n, <1>13 DEF Follows
    <2>2. \A k \in 1..Len(line') : line'[k] = Stream'[Taken' + k]  BY <1>11, <1>12
    <2> HIDE DEF Stream, Posted, Taken, Follows
    <2>3. ~torn  BY DEF InStep
    <2> QED  BY <1>3, <2>1, <2>2, <2>3 DEF InStep

LEMMA SendsInStep ==
  ASSUME SendAssumption, TypeOK, Counted, Verified, InStep, TypeOK', Counted', clean',
         Probe \/ Prepare \/ Base64 \/ SendLine \/ Eof \/ Check \/ Install
  PROVE  InStep'
  <1>k. /\ Item("probe") \in Sent /\ Item("prepare") \in Sent /\ Item("base64") \in Sent
        /\ Item("eof") \in Sent /\ Item("check") \in Sent /\ Item("mv") \in Sent
    BY ItemKinds DEF Commands
  <1>r. {} \in SUBSET unread /\ unread \in SUBSET unread  OBVIOUS
  <1>l. line \in Seq(Items) /\ sent \in 0..NLines /\ NLines \in Nat \ {0}
    BY DEF TypeOK, SendAssumption
  <1>1. CASE Probe
    <2>1. /\ pc = "probe" /\ pc' = "verdict" /\ fg' = fg /\ Write(Item("probe"), unread)
      BY <1>1 DEF Probe, Send, Goto
    <2>2. line' = Append(line, Item("probe")) /\ ~torn'  BY <1>k, <1>r, <2>1, WriteEffect
    <2>3. fg = "sh" /\ line = <<>>  BY <2>1 DEF InStep
    <2>4. line' = <<Item("probe")>>  BY <2>2, <2>3
    <2> QED  BY <2>1, <2>2, <2>3, <2>4 DEF InStep
  <1>2. CASE Prepare
    <2>1. /\ pc = "prepare" /\ pc' = "base64" /\ Write(Item("prepare"), unread)
          /\ UNCHANGED <<run, fg, gz>>
      BY <1>2 DEF Prepare, Send, Goto, files
    <2>2. line' = Append(line, Item("prepare")) /\ ~torn'  BY <1>k, <1>r, <2>1, WriteEffect
    <2>3. Posted = 0 /\ Posted' = Posted + 1 /\ Stream[Posted + 1] = Item("prepare")
      BY <1>l, <2>1 DEF Posted, Stream
    <2> QED  BY <2>1, <2>2, <2>3, NextSent
  <1>3. CASE Base64
    <2>1. /\ pc = "base64" /\ pc' = "lines" /\ Write(Item("base64"), {})
          /\ UNCHANGED <<run, fg, gz, sent>>
      BY <1>3 DEF Base64, Send, Goto, files
    <2>2. line' = Append(line, Item("base64")) /\ ~torn'  BY <1>k, <1>r, <2>1, WriteEffect
    <2>3. Posted = 1 /\ Posted' = Posted + 1 /\ Stream[Posted + 1] = Item("base64")
      BY <1>l, <2>1 DEF Posted, Stream, Counted
    <2> QED  BY <2>1, <2>2, <2>3, NextSent
  <1>4. CASE SendLine
    <2>1. /\ pc = "lines" /\ pc' \in {"lines", "eof"} /\ UNCHANGED <<run, fg, gz>>
          /\ sent' = sent + 1 /\ sent' \in 1..NLines
      BY <1>4, <1>l DEF SendLine, Goto, files, Counted
    <2>2. \E had \in SUBSET unread : Write(Data(run, sent'), had)
      BY <1>4 DEF SendLine
    <2>3. Data(run, sent') \in Sent  BY <2>1, ItemKinds DEF TypeOK
    <2>4. line' = Append(line, Data(run, sent')) /\ ~torn'  BY <2>2, <2>3, WriteEffect
    <2>5. Posted = sent + 2 /\ Posted' = sent' + 2  BY <2>1 DEF Posted
    <2>6. Posted' = Posted + 1  BY <1>l, <2>1, <2>5
    <2>7. Stream[Posted + 1] = Data(run, sent')
      <3>1. Posted + 1 \in 3..NLines + 2 /\ (Posted + 1) - 2 = sent'
        BY <1>l, <2>1, <2>5
      <3>2. Stream[Posted + 1] = Data(run, (Posted + 1) - 2)
        BY <1>l, <3>1 DEF Stream
      <3> QED  BY <3>1, <3>2
    <2> QED  BY <2>1, <2>4, <2>6, <2>7, NextSent
  <1>5. CASE Eof
    <2>1. /\ pc = "eof" /\ pc' = "drain" /\ Write(Item("eof"), unread)
          /\ UNCHANGED <<run, fg, gz, sent>>
      BY <1>5 DEF Eof, Send, Goto, files
    <2>2. line' = Append(line, Item("eof")) /\ ~torn'  BY <1>k, <1>r, <2>1, WriteEffect
    <2>3. Posted = NLines + 2 /\ Posted' = Posted + 1
      BY <1>l, <2>1 DEF Posted, Counted
    <2>4. Stream[Posted + 1] = Item("eof")
      BY <1>l, <2>3 DEF Stream
    <2> QED  BY <2>1, <2>2, <2>3, <2>4, NextSent
  <1>6. CASE Check
    <2>1. /\ pc = "check" /\ pc' = "compare" /\ Write(Item("check"), unread)
          /\ UNCHANGED <<run, fg, gz>>
      BY <1>6 DEF Check, Send, Goto, files
    <2>2. line' = Append(line, Item("check")) /\ ~torn'  BY <1>k, <1>r, <2>1, WriteEffect
    <2>3. line = <<>> /\ Follows(Taken)  BY <2>1 DEF InStep
    <2>4. Taken = NLines + 3
      BY <1>l, <2>1, <2>3 DEF Taken, Posted, Counted
    <2>5. fg = "sh" /\ Len(gz) = NLines /\ \A k \in 1..Len(gz) : gz[k] = Data(run, k)
      BY <1>l, <2>3, <2>4 DEF Follows
    <2>6. gz = Encoded(run)
      <3>1. gz \in Seq(Sent \cup {Item("junk")})  BY DEF TypeOK
      <3>2. gz = [k \in 1..Len(gz) |-> gz[k]]  BY <3>1
      <3> QED  BY <2>5, <3>2 DEF Encoded
    <2>7. gz' = Encoded(run)'  BY <2>1, <2>6 DEF Encoded, Data
    <2>8. line' = <<Item("check")>>  BY <2>2, <2>3
    <2> QED  BY <2>1, <2>2, <2>5, <2>7, <2>8 DEF InStep
  <1>7. CASE Install
    <2>1. /\ pc = "mv" /\ pc' = "done" /\ rc' = 0 /\ Write(Item("mv"), unread)
          /\ UNCHANGED <<run, fg, new>>
      BY <1>7 DEF Install, files
    <2>2. line' = Append(line, Item("mv")) /\ ~torn'  BY <1>k, <1>r, <2>1, WriteEffect
    <2>3. line = <<>> /\ new = run /\ fg = "sh"  BY <2>1 DEF Verified
    <2>4. line' = <<Item("mv")>>  BY <2>2, <2>3
    <2> QED  BY <2>1, <2>2, <2>3, <2>4 DEF InStep
  <1> QED  BY <1>1, <1>2, <1>3, <1>4, <1>5, <1>6, <1>7

LEMMA ReadsInStep ==
  ASSUME SendAssumption, TypeOK, Counted, Verified, InStep, clean',
         Preflight \/ Drain \/ Compare
  PROVE  InStep'
  <1>1. /\ line = <<>>
        /\ UNCHANGED <<run, sent, line, fg, gz, torn>>
        /\ ~torn
    BY DEF Preflight, Drain, Compare, Read, files, InStep
  <1>2. sent \in 0..NLines /\ NLines \in Nat \ {0}  BY DEF TypeOK, SendAssumption
  <1>l. Len(line) = 0  BY <1>1
  <1>3. CASE Preflight
    <2>1. pc = "verdict"  BY <1>3 DEF Preflight
    <2>2. fg = "sh" /\ Linux \in unread  BY <1>1, <2>1 DEF InStep
    <2>3. pc' = "prepare"  BY <1>3, <2>2 DEF Preflight
    <2>4. Taken' = 0  BY <1>1, <1>l, <2>3 DEF Taken, Posted
    <2>5. Follows(Taken)'  BY <1>1, <1>2, <2>2, <2>4 DEF Follows
    <2> HIDE DEF Taken, Follows, Stream
    <2> QED  BY <1>1, <1>l, <2>3, <2>5 DEF InStep
  <1>4. CASE Drain
    <2>1. pc = "drain" /\ pc' = "check"  BY <1>4 DEF Drain
    <2>2. Taken' = Taken  BY <1>1, <2>1 DEF Taken, Posted
    <2>3. Follows(Taken)  BY <2>1 DEF InStep
    <2>4. Follows(Taken)'  BY <1>1, <2>2, <2>3 DEF Follows, Data
    <2> HIDE DEF Taken, Follows, Stream
    <2> QED  BY <1>1, <1>l, <2>1, <2>4 DEF InStep
  <1>5. CASE Compare
    <2>1. pc = "compare" /\ Md5(run) \in unread
      BY <1>1, <1>5 DEF Compare, InStep
    <2>2. pc' = "mv"  BY <1>5, <2>1 DEF Compare
    <2> QED  BY <1>1, <2>2 DEF InStep
  <1> QED  BY <1>3, <1>4, <1>5

LEMMA BoardInStep ==
  ASSUME SendAssumption, TypeOK, Counted, Verified, InStep, TypeOK', Board
  PROVE  InStep'
  <1>1. UNCHANGED <<script, losses>> /\ line # <<>> /\ line' = Tail(line)
    BY BoardReads
  <1>2. pc' = pc /\ run' = run /\ rc' = rc /\ torn' = torn  BY <1>1 DEF script, losses
  <1>3. ASSUME NEW x, line = <<x>>  PROVE  line' = <<>> /\ Head(line) = x
    BY <1>1, <1>3
  <1>k. \A k \in {"probe", "check", "mv"} : Item(k).kind = k /\ Item(k).whole
    BY ItemKinds DEF Commands
  <1>4. CASE pc \in {"interrupt", "probe", "prepare", "check", "mv"}
    BY <1>1, <1>4 DEF InStep, Verified
  <1>5. CASE pc = "verdict"
    <2>1. fg = "sh" /\ line = <<Item("probe")>>  BY <1>1, <1>5 DEF InStep
    <2>2. line' = <<>> /\ Head(line).kind = "probe" /\ Head(line).whole  BY <1>3, <1>k, <2>1
    <2>3. ShellProbe
      BY <2>1, <2>2, BoardReader
    <2>4. fg' = "sh" /\ Linux \in unread'  BY <2>1, <2>3 DEF ShellProbe
    <2>5. (Linux \in unread)'  BY <2>4 DEF Linux
    <2> QED  BY <1>2, <1>5, <2>2, <2>4, <2>5 DEF InStep
  <1>6. CASE pc \in {"base64", "lines", "eof", "drain"}
    BY <1>6, NextTaken
  <1>7. CASE pc = "compare"
    <2>1. fg = "sh" /\ line = <<Item("check")>> /\ gz = Encoded(run)
      BY <1>1, <1>7 DEF InStep
    <2>2. line' = <<>> /\ Head(line).kind = "check" /\ Head(line).whole  BY <1>3, <1>k, <2>1
    <2>3. ShellCheck
      BY <2>1, <2>2, BoardReader
    <2>4. Gunzip(gz) = run  BY <2>1, GunzipIsWhole DEF TypeOK
    <2>5. fg' = "sh" /\ Md5(run) \in unread'
      BY <2>1, <2>3, <2>4 DEF ShellCheck, Md5
    <2>6. (Md5(run) \in unread)'  BY <1>2, <2>5 DEF Md5
    <2> QED  BY <1>2, <1>7, <2>2, <2>5, <2>6 DEF InStep
  <1>8. CASE pc = "done"
    <2>1. /\ rc = 0 /\ fg = "sh" /\ line = <<Item("mv")>> /\ new = run
      BY <1>1, <1>8 DEF InStep
    <2>2. line' = <<>> /\ Head(line).kind = "mv" /\ Head(line).whole  BY <1>3, <1>k, <2>1
    <2>3. ShellMv
      BY <2>1, <2>2, BoardReader
    <2>4. run # Other  BY DEF TypeOK, Files, Other
    <2>5. fg' = "sh" /\ dest' = run  BY <2>1, <2>3, <2>4 DEF ShellMv
    <2> QED  BY <1>2, <1>8, <2>1, <2>2, <2>5 DEF InStep
  <1> QED  BY <1>4, <1>5, <1>6, <1>7, <1>8 DEF TypeOK, Steps

LEMMA CleanStep ==
  ASSUME SendAssumption, TypeOK, Counted, Verified, clean => InStep,
         TypeOK', Counted', [Next]_vars, clean'
  PROVE  InStep'
  <1>1. CASE Interrupt
    <2>1. pc' = "probe" /\ fg' = "sh" /\ line' = <<>> /\ torn' = FALSE
      BY <1>1 DEF Interrupt, Goto, Lose
    <2> QED  BY <2>1 DEF InStep
  <1>2. CASE Restart  BY <1>2 DEF Restart, InStep
  <1>3. CASE Probe \/ Prepare \/ Base64 \/ SendLine \/ Eof \/ Check \/ Install
    <2>1. clean
      BY <1>3 DEF Probe, Prepare, Base64, SendLine, Eof, Check, Install, Send, Write, Lose
    <2> QED  BY <1>3, <2>1, SendsInStep
  <1>4. CASE Preflight \/ Drain \/ Compare
    <2>1. clean  BY <1>4 DEF Preflight, Drain, Compare, Read
    <2> QED  BY <1>4, <2>1, ReadsInStep
  <1>5. CASE Board
    <2>1. clean  BY <1>5, BoardReads DEF losses
    <2> QED  BY <1>5, <2>1, BoardInStep
  <1>6. CASE UNCHANGED vars
    <2>1. /\ pc' = pc /\ run' = run /\ sent' = sent /\ rc' = rc /\ line' = line
          /\ unread' = unread /\ fg' = fg /\ gz' = gz /\ new' = new /\ dest' = dest
          /\ clean' = clean /\ torn' = torn
      BY <1>6 DEF vars, script, files, losses
    <2>2. clean  BY <2>1
    <2>3. InStep  BY <2>2
    <2>4. Stream' = Stream /\ Taken' = Taken
      BY <2>1 DEF Stream, Data, Item, Taken, Posted
    <2>5. (Follows(Taken) <=> Follows(Taken)')
      BY <2>1, <2>4 DEF Follows, Data
    <2>6. Linux' = Linux /\ Md5(run)' = Md5(run) /\ Encoded(run)' = Encoded(run)
      BY <2>1 DEF Linux, Md5, Encoded, Data
    <2> HIDE DEF Stream, Taken, Follows, Linux, Md5, Encoded
    <2> QED  BY <2>1, <2>3, <2>4, <2>5, <2>6 DEF InStep
  <1> QED  BY <1>1, <1>2, <1>3, <1>4, <1>5, <1>6 DEF Next, Script

-----------------------------------------------------------------------------
(* The theorems.                                                           *)

\* The inductive invariant, in every run of every number of files.
LEMMA SenderInvariant == Spec => []SendInv
  <1> USE SendAssumption
  <1>1. Init => SendInv
    <2> SUFFICES ASSUME Init  PROVE  SendInv  OBVIOUS
    <2>1. <<>> \in Seq(Items)  OBVIOUS
    <2>0. 1 \in Files /\ 0 \in 0..NLines /\ 0 \in 0..MaxLost  BY DEF Files, SendAssumption
    <2>2. TypeOK
      <3> HIDE DEF Files
      <3>1. /\ line \in Seq(Items) /\ gz \in Seq(Sent \cup {Item("junk")})
            /\ run \in Files /\ sent \in 0..NLines /\ lost \in 0..MaxLost
        BY <2>0, <2>1 DEF Init
      <3> QED  BY <3>1 DEF Init, TypeOK, Steps, Readers, Other
    <2>3. DestWhole  BY DEF Init, DestWhole, Other, Bad, SendAssumption
    <2>4. Counted /\ Verified  BY DEF Init, Counted, Verified, Early
    <2>5. InStep  BY DEF Init, InStep
    <2> QED  BY <2>2, <2>3, <2>4, <2>5 DEF SendInv
  <1>2. SendInv /\ [Next]_vars => SendInv'
    <2> SUFFICES ASSUME SendInv, [Next]_vars  PROVE  SendInv'  OBVIOUS
    <2>1. TypeOK /\ DestWhole /\ Counted /\ Verified /\ (clean => InStep)
      BY DEF SendInv
    <2>2. TypeOK' /\ Counted'  BY <2>1, Typing
    <2>3. DestWhole' /\ Verified'  BY <2>1, VerifiedStep
    <2>4. clean' => InStep'  BY <2>1, <2>2, CleanStep
    <2> QED  BY <2>2, <2>3, <2>4 DEF SendInv
  <1> QED  BY <1>1, <1>2, PTL DEF Spec

\* BoardInv: whatever the serial line loses, however late the board is and whenever
\* the script is killed, the destination holds some file, whole.
THEOREM DestinationIsWhole == Spec => []BoardInv
  <1>1. SendInv => BoardInv  BY DEF SendInv, BoardInv
  <1> QED  BY <1>1, SenderInvariant, PTL

\* SuccessVerified: main returns 0 for a file that a mv that arrives whole installs.
THEOREM SuccessIsVerified == Spec => []SuccessVerified
  <1>1. ASSUME SendInv, pc = "done", rc = 0, ~hurt
        PROVE  IF line = <<>> THEN dest = run ELSE new = run
    BY <1>1 DEF SendInv, Verified
  <1>2. SendInv => SuccessVerified  BY <1>1 DEF SuccessVerified
  <1> QED  BY <1>2, SenderInvariant, PTL

\* CleanRunInstalls: a run of main that loses nothing installs its file, whatever
\* the runs before it left on the board.
THEOREM CleanRunSucceeds == Spec => []CleanRunInstalls
  <1>1. SendInv => CleanRunInstalls
    BY DEF SendInv, InStep, CleanRunInstalls
  <1> QED  BY <1>1, SenderInvariant, PTL
=============================================================================
