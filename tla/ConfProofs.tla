----------------------------- MODULE ConfProofs -----------------------------
(***************************************************************************)
(* Proofs about the configurations of WireGuard and OpenVPN, for texts of  *)
(* any number of lines: what render writes, parse reads again, and what    *)
(* normalize leaves of a configuration is what the daemon may run.  The    *)
(* conversions are folds, and FoldFacts has the inductions.                *)
(***************************************************************************)
EXTENDS Formats, TLAPS

-----------------------------------------------------------------------------
(* OpenVPN. *)

\* The folds of OvpnConf and of the property, an element at a time.
Writing == INSTANCE FoldFacts WITH Op <- O!WriteLine
Informing == INSTANCE FoldFacts WITH Op <- O!ReadDirective
Keeping == INSTANCE FoldFacts WITH Op <- AddOther

\* The lines that the loop of normalize writes, before what it adds at the end.
Written(lines) == O!FoldLeft(O!WriteLine, <<>>, lines)

\* The two lines that normalize writes of its own.
Ask     == O!Words(0, "auth-user-pass", <<>>, 0)
Nocache == O!Words(0, "auth-nocache", <<>>, 0)

\* The folds of normalize, of parse and of the property, a line at a time.
LEMMA WrittenFold ==
    /\ Written(<<>>) = <<>>
    /\ \A S : \A t \in Seq(S), l \in S : Written(Append(t, l)) = O!WriteLine(Written(t), l)
<1>1. \A t : Written(t) = Writing!Fold(<<>>, t)
  BY Zenon DEF Written, O!FoldLeft, O!MapThenFoldSet, O!Max, Writing!Fold, Writing!FoldLeft,
               Writing!MapThenFoldSet, Writing!Max
<1>2. Written(<<>>) = <<>>
  BY <1>1, Writing!FoldEmpty
<1>3. ASSUME NEW S, NEW t \in Seq(S), NEW l \in S
      PROVE  Written(Append(t, l)) = O!WriteLine(Written(t), l)
  BY <1>1, Writing!FoldAppend
<1> QED BY <1>2, <1>3

\* parse reads the directives line by line.
LEMMA InfoFold ==
    /\ O!Info(<<>>) = O!NoInfo
    /\ \A S : \A t \in Seq(S), l \in S : O!Info(Append(t, l)) = O!ReadDirective(O!Info(t), l)
<1>1. \A t : O!Info(t) = Informing!Fold(O!NoInfo, t)
  BY Zenon DEF O!Info, O!FoldLeft, O!MapThenFoldSet, O!Max, Informing!Fold, Informing!FoldLeft,
               Informing!MapThenFoldSet, Informing!Max
<1>2. O!Info(<<>>) = O!NoInfo
  BY <1>1, Informing!FoldEmpty
<1>3. ASSUME NEW S, NEW t \in Seq(S), NEW l \in S
      PROVE  O!Info(Append(t, l)) = O!ReadDirective(O!Info(t), l)
  BY <1>1, Informing!FoldAppend
<1> QED BY <1>2, <1>3

\* The lines that normalize leaves alone are gathered line by line.
LEMMA OthersFold ==
    /\ Others(<<>>) = <<>>
    /\ \A S : \A t \in Seq(S), l \in S : Others(Append(t, l)) = AddOther(Others(t), l)
<1>1. \A t : Others(t) = Keeping!Fold(<<>>, t)
  BY Zenon DEF Others, FoldLeft, MapThenFoldSet, Max, Keeping!Fold, Keeping!FoldLeft,
               Keeping!MapThenFoldSet, Keeping!Max
<1>2. Others(<<>>) = <<>>
  BY <1>1, Keeping!FoldEmpty
<1>3. ASSUME NEW S, NEW t \in Seq(S), NEW l \in S
      PROVE  Others(Append(t, l)) = AddOther(Others(t), l)
  BY <1>1, Keeping!FoldAppend
<1> QED BY <1>2, <1>3

\* The lines that a text of normalize may have, and those of its result.
Lines(S) == S \cup {O!Bare(l) : l \in S} \cup {Ask, Nocache}

Clean(S) == {l \in Lines(S) : ~ O!Dropped(l) /\ (O!IsWord(l, O!AuthUserPass) => l = O!Bare(l))}

\* None of the lines is spoilt.
Plainly(S) == \A l \in S : ~ Spoilt(l)

\* Of a line with auth-user-pass the bare one is left, which is written as it is.
LEMMA BareLine ==
    ASSUME NEW l, O!IsWord(l, O!AuthUserPass), ~ Spoilt(l)
    PROVE  /\ O!Bare(l) = O!Words(l.indent, "auth-user-pass", <<>>, 0)
           /\ O!IsWord(O!Bare(l), O!AuthUserPass) /\ ~ O!IsWord(O!Bare(l), O!AuthNocache)
           /\ ~ O!Dropped(O!Bare(l)) /\ O!Bare(O!Bare(l)) = O!Bare(l)
<1>1. l.trail = 0
  BY DEF Spoilt
<1>2. O!Bare(l) = O!Words(l.indent, "auth-user-pass", <<>>, 0)
  BY <1>1 DEF O!Bare
<1>3. PICK b : b = O!Words(l.indent, "auth-user-pass", <<>>, 0)
  OBVIOUS
<1>4. b.is = "words" /\ b.word = "auth-user-pass" /\ b.trail = 0 /\ b.indent = l.indent
  BY <1>3 DEF O!Words
<1>5. O!Bare(b) = b
  BY <1>3, <1>4 DEF O!Bare
<1>6. O!IsWord(b, O!AuthUserPass) /\ ~ O!IsWord(b, O!AuthNocache) /\ ~ O!Dropped(b)
  BY <1>4 DEF O!IsWord, O!AuthUserPass, O!AuthNocache, O!Dropped, O!Askpass, O!ScriptDirectives
<1> QED BY <1>2, <1>3, <1>5, <1>6

\* A line that is left out asks for no password.
LEMMA DroppedLine ==
    ASSUME NEW l, O!Dropped(l)
    PROVE  ~ O!IsWord(l, O!AuthUserPass) /\ ~ O!IsWord(l, O!AuthNocache)
BY DEF O!IsWord, O!AuthUserPass, O!AuthNocache, O!Dropped, O!Askpass, O!ScriptDirectives

\* The lines that are added.
LEMMA AddedLines ==
    /\ ~ O!Dropped(Ask) /\ O!IsWord(Ask, O!AuthUserPass) /\ O!Bare(Ask) = Ask
    /\ ~ O!Dropped(Nocache) /\ O!IsWord(Nocache, O!AuthNocache)
    /\ ~ O!IsWord(Nocache, O!AuthUserPass)
<1>1. /\ Ask.is = "words" /\ Ask.word = "auth-user-pass" /\ Ask.trail = 0 /\ Ask.indent = 0
      /\ Nocache.is = "words" /\ Nocache.word = "auth-nocache"
  BY DEF Ask, Nocache, O!Words
<1>2. O!Bare(Ask) = Ask
  BY <1>1 DEF Ask, O!Bare
<1> QED BY <1>1, <1>2 DEF O!IsWord, O!AuthUserPass, O!AuthNocache, O!Dropped, O!Askpass,
                          O!ScriptDirectives

\* What the loop writes is clean, and a clean text it writes as it is.
LEMMA WrittenClean ==
    ASSUME NEW S, Plainly(S)
    PROVE  /\ \A t \in Seq(S) : Written(t) \in Seq(Clean(S))
           /\ \A t \in Seq(Clean(S)) : Written(t) = t
<1>1. \A t \in Seq(S) : Written(t) \in Seq(Clean(S))
  <2> DEFINE T == {t \in Seq(S) : Written(t) \in Seq(Clean(S))}
  <2>1. <<>> \in T
    <3>1. <<>> \in Seq(S) /\ <<>> \in Seq(Clean(S))
      OBVIOUS
    <3> QED BY <3>1, WrittenFold
  <2>2. ASSUME NEW t \in Seq(S), NEW l \in S, t \in T PROVE Append(t, l) \in T
    <3>1. Append(t, l) \in Seq(S) /\ Written(t) \in Seq(Clean(S))
      BY <2>2
    <3>2. Written(Append(t, l)) = O!WriteLine(Written(t), l)
      BY WrittenFold
    <3>3. CASE O!Dropped(l)
      <4>1. Written(Append(t, l)) = Written(t)
        BY <3>2, <3>3, DroppedLine DEF O!WriteLine
      <4> QED BY <3>1, <4>1
    <3>4. CASE ~ O!Dropped(l) /\ O!IsWord(l, O!AuthUserPass)
      <4>1. O!Bare(l) \in Clean(S)
        BY <3>4, BareLine DEF Clean, Lines, Plainly
      <4>2. Written(Append(t, l)) = Append(Written(t), O!Bare(l))
        BY <3>2, <3>4 DEF O!WriteLine
      <4> QED BY <3>1, <4>1, <4>2
    <3>5. CASE ~ O!Dropped(l) /\ ~ O!IsWord(l, O!AuthUserPass)
      <4>1. l \in Clean(S)
        BY <3>5 DEF Clean, Lines
      <4>2. Written(Append(t, l)) = Append(Written(t), l)
        BY <3>2, <3>5 DEF O!WriteLine
      <4> QED BY <3>1, <4>1, <4>2
    <3> QED BY <3>3, <3>4, <3>5
  <2>3. Seq(S) \subseteq T
    <3> HIDE DEF T
    <3> QED BY <2>1, <2>2, Writing!SeqInd
  <2> QED BY <2>3
<1>2. \A t \in Seq(Clean(S)) : Written(t) = t
  <2> DEFINE C == Clean(S)
             T == {t \in Seq(C) : Written(t) = t}
  <2>1. <<>> \in T
    BY WrittenFold
  <2>2. ASSUME NEW t \in Seq(C), NEW l \in C, t \in T PROVE Append(t, l) \in T
    <3>1. Append(t, l) \in Seq(C) /\ Written(t) = t
      BY <2>2
    <3>2. Written(Append(t, l)) = O!WriteLine(t, l)
      BY <3>1, WrittenFold
    <3>3. ~ O!Dropped(l) /\ (O!IsWord(l, O!AuthUserPass) => l = O!Bare(l))
      BY DEF Clean
    <3>4. O!WriteLine(t, l) = Append(t, l)
      BY <3>3 DEF O!WriteLine
    <3> QED BY <3>1, <3>2, <3>4
  <2>3. Seq(C) \subseteq T
    <3> HIDE DEF T, C
    <3> QED BY <2>1, <2>2, Writing!SeqInd
  <2> QED BY <2>3
<1> QED BY <1>1, <1>2


IsInfo(i) == i = [host |-> i.host, port |-> i.port, proto |-> i.proto, ca |-> i.ca, auth |-> i.auth]

\* What is known after a directive, field by field.
LEMMA DirectiveRead ==
    ASSUME NEW info, IsInfo(info), NEW l
    PROVE  LET remote == O!IsWord(l, {"remote"}) /\ info.host = ""
               proto == O!IsWord(l, {"proto"}) /\ info.proto = ""
           IN O!ReadDirective(info, l) =
                [host |-> IF remote THEN O!Argument(l, 1) ELSE info.host,
                 port |-> IF remote THEN O!Port(O!Argument(l, 2)) ELSE info.port,
                 proto |-> IF proto THEN O!Argument(l, 1) ELSE info.proto,
                 ca |-> IF O!IsWord(l, {"<ca>"}) /\ l.args = <<>> THEN TRUE ELSE info.ca,
                 auth |-> IF O!IsWord(l, {"auth-user-pass"}) THEN TRUE ELSE info.auth]
<1> DEFINE read == O!ReadDirective(info, l)
           remote == O!IsWord(l, {"remote"}) /\ info.host = ""
           proto == O!IsWord(l, {"proto"}) /\ info.proto = ""
           auth == O!IsWord(l, {"auth-user-pass"})
           ca == O!IsWord(l, {"<ca>"}) /\ l.args = <<>>
<1>1. /\ remote => ~ proto /\ ~ auth /\ ~ ca
      /\ proto => ~ auth /\ ~ ca
      /\ auth => ~ ca
  BY DEF O!IsWord
<1>2. PICK yes, first, port :
        yes = TRUE /\ first = O!Argument(l, 1) /\ port = O!Port(O!Argument(l, 2))
  BY Zenon
<1>3. read = CASE remote -> [info EXCEPT !.host = first, !.port = port]
               [] proto -> [info EXCEPT !.proto = first]
               [] auth -> [info EXCEPT !.auth = yes]
               [] ca -> [info EXCEPT !.ca = yes]
               [] OTHER -> info
  BY <1>2, Zenon DEF O!ReadDirective
<1> HIDE DEF read, remote, proto, auth, ca
<1> DEFINE known == [host |-> IF remote THEN first ELSE info.host,
                     port |-> IF remote THEN port ELSE info.port,
                     proto |-> IF proto THEN first ELSE info.proto,
                     ca |-> IF ca THEN yes ELSE info.ca,
                     auth |-> IF auth THEN yes ELSE info.auth]
<1> SUFFICES read = known
  BY <1>2, Zenon DEF read, remote, proto, auth, ca
<1>4. CASE remote
  <2>1. PICK i : i = [info EXCEPT !.host = first]
    OBVIOUS
  <2>2. i = [host |-> first, port |-> info.port, proto |-> info.proto, ca |-> info.ca,
             auth |-> info.auth]
    BY <2>1, SMT DEF IsInfo
  <2>3. read = [i EXCEPT !.port = port]
    <3>1. read = [info EXCEPT !.host = first, !.port = port]
      BY <1>1, <1>3, <1>4
    <3> QED BY <2>1, <3>1, Zenon
  <2>4. read = [host |-> first, port |-> port, proto |-> info.proto, ca |-> info.ca,
                auth |-> info.auth]
    BY <2>2, <2>3, SMT
  <2> QED BY <1>1, <1>4, <2>4
<1>5. CASE ~ remote /\ proto
  <2>1. read = [info EXCEPT !.proto = first]
    BY <1>1, <1>3, <1>5
  <2>2. read = [host |-> info.host, port |-> info.port, proto |-> first, ca |-> info.ca,
                auth |-> info.auth]
    BY <2>1, SMT DEF IsInfo
  <2> QED BY <1>1, <1>5, <2>2
<1>6. CASE ~ remote /\ ~ proto /\ auth
  <2>1. read = [info EXCEPT !.auth = yes]
    BY <1>1, <1>3, <1>6
  <2>2. read = [host |-> info.host, port |-> info.port, proto |-> info.proto, ca |-> info.ca,
                auth |-> yes]
    BY <2>1, SMT DEF IsInfo
  <2> QED BY <1>1, <1>6, <2>2
<1>7. CASE ~ remote /\ ~ proto /\ ~ auth /\ ca
  <2>1. read = [info EXCEPT !.ca = yes]
    BY <1>1, <1>3, <1>7
  <2>2. read = [host |-> info.host, port |-> info.port, proto |-> info.proto, ca |-> yes,
                auth |-> info.auth]
    BY <2>1, SMT DEF IsInfo
  <2> QED BY <1>1, <1>7, <2>2
<1>8. CASE ~ remote /\ ~ proto /\ ~ auth /\ ~ ca
  BY <1>3, <1>8 DEF IsInfo
<1> QED BY <1>4, <1>5, <1>6, <1>7, <1>8

\* An info but for the password.
Known(info) == <<info.host, info.port, info.proto, info.ca>>

\* A directive: what is known stays a record of its fields, only auth-user-pass asks for a
\* password, and of two texts read so far with the same result but for that the next
\* result is the same but for that; a directive that says nothing of it changes nothing.
LEMMA InfoRead ==
    ASSUME NEW a, IsInfo(a), NEW l
    PROVE  /\ IsInfo(O!ReadDirective(a, l))
           /\ O!ReadDirective(a, l).auth = IF O!IsWord(l, {"auth-user-pass"}) THEN TRUE ELSE a.auth
           /\ \A b : IsInfo(b) /\ Known(a) = Known(b) =>
                Known(O!ReadDirective(a, l)) = Known(O!ReadDirective(b, l))
           /\ ~ O!IsWord(l, {"remote", "proto", "<ca>"}) => Known(O!ReadDirective(a, l)) = Known(a)
<1> DEFINE h(i) == IF O!IsWord(l, {"remote"}) /\ i.host = "" THEN O!Argument(l, 1) ELSE i.host
           p(i) == IF O!IsWord(l, {"remote"}) /\ i.host = "" THEN O!Port(O!Argument(l, 2)) ELSE i.port
           r(i) == IF O!IsWord(l, {"proto"}) /\ i.proto = "" THEN O!Argument(l, 1) ELSE i.proto
           c(i) == IF O!IsWord(l, {"<ca>"}) /\ l.args = <<>> THEN TRUE ELSE i.ca
           u(i) == IF O!IsWord(l, {"auth-user-pass"}) THEN TRUE ELSE i.auth
<1>1. \A i : IsInfo(i) => O!ReadDirective(i, l)
                            = [host |-> h(i), port |-> p(i), proto |-> r(i), ca |-> c(i), auth |-> u(i)]
  BY DirectiveRead, Zenon
<1>2. \A i, j : Known(i) = Known(j) =>
         h(i) = h(j) /\ p(i) = p(j) /\ r(i) = r(j) /\ c(i) = c(j)
  <2> SUFFICES ASSUME NEW i, NEW j, Known(i) = Known(j)
               PROVE  h(i) = h(j) /\ p(i) = p(j) /\ r(i) = r(j) /\ c(i) = c(j)
    OBVIOUS
  <2>1. i.host = j.host /\ i.port = j.port /\ i.proto = j.proto /\ i.ca = j.ca
    BY SMT DEF Known
  <2> QED BY <2>1, Zenon
<1>3. ~ O!IsWord(l, {"remote", "proto", "<ca>"}) =>
         h(a) = a.host /\ p(a) = a.port /\ r(a) = a.proto /\ c(a) = a.ca
  <2>1. ~ O!IsWord(l, {"remote", "proto", "<ca>"}) =>
          ~ O!IsWord(l, {"remote"}) /\ ~ O!IsWord(l, {"proto"}) /\ ~ O!IsWord(l, {"<ca>"})
    BY DEF O!IsWord
  <2> QED BY <2>1, Zenon
<1>4. O!ReadDirective(a, l).auth = u(a)
  <2> HIDE DEF h, p, r, c, u
  <2> QED BY <1>1
<1>5. \A i : IsInfo(i) => /\ IsInfo(O!ReadDirective(i, l))
                          /\ Known(O!ReadDirective(i, l)) = <<h(i), p(i), r(i), c(i)>>
  <2> HIDE DEF h, p, r, c, u
  <2> QED BY <1>1 DEF IsInfo, Known
<1>6. O!ReadDirective(a, l).auth = IF O!IsWord(l, {"auth-user-pass"}) THEN TRUE ELSE a.auth
  BY <1>4, Zenon
<1> HIDE DEF h, p, r, c, u
<1>7. \A b : IsInfo(b) /\ Known(a) = Known(b) =>
                Known(O!ReadDirective(a, l)) = Known(O!ReadDirective(b, l))
  BY <1>2, <1>5
<1>8. ~ O!IsWord(l, {"remote", "proto", "<ca>"}) => Known(O!ReadDirective(a, l)) = Known(a)
  BY <1>3, <1>5 DEF Known
<1> QED BY <1>5, <1>6, <1>7, <1>8

\* The same of two results, as the proof of WrittenKeeps needs it.
LEMMA InfoSame ==
    ASSUME NEW a, NEW b, NEW l, IsInfo(a), IsInfo(b), Known(a) = Known(b)
    PROVE  Known(O!ReadDirective(a, l)) = Known(O!ReadDirective(b, l))
<1>1. \A j : IsInfo(j) /\ Known(a) = Known(j) =>
            Known(O!ReadDirective(a, l)) = Known(O!ReadDirective(j, l))
  BY InfoRead, Zenon
<1> QED BY <1>1

\* What is missing from a text with one line more.
LEMMA LacksAppend ==
    ASSUME NEW S, NEW q \in Seq(S), NEW m, NEW words
    PROVE  O!Lacks(Append(q, m), words) <=> O!Lacks(q, words) /\ ~ O!IsWord(m, words)
<1>1. /\ DOMAIN q = 1 .. Len(q) /\ DOMAIN Append(q, m) = 1 .. Len(q) + 1 /\ Len(q) \in Nat
      /\ \A k \in 1 .. Len(q) : Append(q, m)[k] = q[k]
      /\ Append(q, m)[Len(q) + 1] = m
  OBVIOUS
<1>2. \A k : k \in 1 .. Len(q) + 1 <=> k \in 1 .. Len(q) \/ k = Len(q) + 1
  BY <1>1
<1> QED BY <1>1, <1>2 DEF O!Lacks

\* The loop of normalize keeps all that parse finds but for the password, and every line
\* that is not normalize's business, and finds the same directives missing as it leaves
\* missing.
LEMMA WrittenKeeps ==
    ASSUME NEW S, Plainly(S)
    PROVE  \A t \in Seq(S) :
             /\ IsInfo(O!Info(t)) /\ IsInfo(O!Info(Written(t)))
             /\ Known(O!Info(Written(t))) = Known(O!Info(t))
             /\ ~ O!Lacks(t, O!AuthUserPass) => O!Info(Written(t)).auth = TRUE
             /\ Others(Written(t)) = Others(t) /\ Others(t) \in Seq(S)
             /\ \A words \in {O!AuthUserPass, O!AuthNocache} :
                    O!Lacks(Written(t), words) <=> O!Lacks(t, words)
<1> DEFINE C == Clean(S)
           Kept(t) ==
             /\ IsInfo(O!Info(t)) /\ IsInfo(O!Info(Written(t)))
             /\ Known(O!Info(Written(t))) = Known(O!Info(t))
             /\ ~ O!Lacks(t, O!AuthUserPass) => O!Info(Written(t)).auth = TRUE
             /\ Others(Written(t)) = Others(t) /\ Others(t) \in Seq(S)
             /\ \A words \in {O!AuthUserPass, O!AuthNocache} :
                    O!Lacks(Written(t), words) <=> O!Lacks(t, words)
           T == {t \in Seq(S) : Kept(t)}
<1>1. Kept(<<>>)
  <2>1. IsInfo(O!NoInfo)
    BY DEF IsInfo, O!NoInfo
  <2>2. \A words : O!Lacks(<<>>, words)
    BY DEF O!Lacks
  <2>3. <<>> \in Seq(S)
    OBVIOUS
  <2> QED BY <2>1, <2>2, <2>3, WrittenFold, InfoFold, OthersFold
<1>2. ASSUME NEW t \in Seq(S), NEW l \in S, Kept(t) PROVE Kept(Append(t, l))
  <2> DEFINE w == Written(t)
  <2>0. /\ IsInfo(O!Info(t)) /\ IsInfo(O!Info(w))
        /\ Known(O!Info(w)) = Known(O!Info(t))
        /\ Others(w) = Others(t) /\ Others(t) \in Seq(S)
    BY <1>2
  <2>1. w \in Seq(C) /\ Written(Append(t, l)) = O!WriteLine(w, l) /\ ~ Spoilt(l)
    BY WrittenClean, WrittenFold DEF Plainly
  <2>2. /\ O!Info(Append(t, l)) = O!ReadDirective(O!Info(t), l)
        /\ Others(Append(t, l)) = AddOther(Others(t), l)
    BY InfoFold, OthersFold
  <2>3. \A q, m, words : q \in Seq(S) \cup Seq(C) =>
           (O!Lacks(Append(q, m), words) <=> O!Lacks(q, words) /\ ~ O!IsWord(m, words))
    <3>1. ASSUME NEW Z, NEW q \in Seq(Z), NEW m, NEW words
          PROVE  O!Lacks(Append(q, m), words) <=> O!Lacks(q, words) /\ ~ O!IsWord(m, words)
      BY LacksAppend
    <3> QED BY <3>1
  <2>4. /\ \A m \in C : /\ O!Info(Append(w, m)) = O!ReadDirective(O!Info(w), m)
                        /\ Others(Append(w, m)) = AddOther(Others(w), m)
    BY <2>1, InfoFold, OthersFold
  <2>5. CASE O!Dropped(l)
    <3>1. O!WriteLine(w, l) = w
      BY <2>5, DroppedLine DEF O!WriteLine
    <3>2. ~ O!IsWord(l, {"remote", "proto", "<ca>"}) /\ ~ O!IsWord(l, {"auth-user-pass"})
      BY <2>5 DEF O!Dropped, O!IsWord, O!Askpass, O!ScriptDirectives
    <3>3. IsInfo(O!Info(Append(t, l))) /\ Known(O!Info(Append(t, l))) = Known(O!Info(t))
      <4>1. \A i : IsInfo(i) => /\ IsInfo(O!ReadDirective(i, l))
                                /\ Known(O!ReadDirective(i, l)) = Known(i)
        BY <3>2, InfoRead
      <4> QED BY <2>0, <2>2, <4>1
    <3>4. Others(Append(t, l)) = Others(t)
      BY <2>2, <2>5 DEF AddOther
    <3>5. \A words \in {O!AuthUserPass, O!AuthNocache} :
             O!Lacks(Append(t, l), words) <=> O!Lacks(t, words)
      BY <2>3, <2>5, DroppedLine
    <3> QED BY <1>2, <2>1, <3>1, <3>3, <3>4, <3>5
  <2>6. CASE ~ O!Dropped(l) /\ O!IsWord(l, O!AuthUserPass)
    <3> DEFINE b == O!Bare(l)
    <3>1. O!WriteLine(w, l) = Append(w, b)
      BY <2>6 DEF O!WriteLine
    <3>2. b = O!Words(l.indent, "auth-user-pass", <<>>, 0)
      BY <2>1, <2>6, BareLine
    <3>3. b \in C
      BY <2>1, <2>6, BareLine DEF Clean, Lines
    <3>4. /\ ~ O!IsWord(b, {"remote", "proto", "<ca>"}) /\ O!IsWord(b, {"auth-user-pass"})
          /\ ~ O!IsWord(l, {"remote", "proto", "<ca>"})
      BY <2>6, <3>2 DEF O!IsWord, O!Words, O!AuthUserPass
    <3> HIDE DEF b
    <3>5. /\ IsInfo(O!Info(Append(t, l))) /\ Known(O!Info(Append(t, l))) = Known(O!Info(t))
          /\ IsInfo(O!Info(Append(w, b))) /\ Known(O!Info(Append(w, b))) = Known(O!Info(w))
          /\ O!Info(Append(w, b)).auth = TRUE
      BY <1>2, <2>2, <2>4, <3>3, <3>4, InfoRead
    <3>6. Others(Append(t, l)) = Others(t) /\ Others(Append(w, b)) = Others(w)
      <4>1. O!IsWord(b, O!AuthUserPass \cup O!AuthNocache)
        BY <3>4 DEF O!IsWord, O!AuthUserPass
      <4>2. O!IsWord(l, O!AuthUserPass \cup O!AuthNocache)
        BY <2>6 DEF O!IsWord
      <4> QED BY <2>2, <2>4, <3>3, <4>1, <4>2 DEF AddOther
    <3>7. /\ O!IsWord(b, O!AuthUserPass) /\ ~ O!IsWord(b, O!AuthNocache)
          /\ O!IsWord(l, O!AuthUserPass) /\ ~ O!IsWord(l, O!AuthNocache)
      BY <2>6, <3>4 DEF O!IsWord, O!AuthUserPass, O!AuthNocache
    <3>8. \A words \in {O!AuthUserPass, O!AuthNocache} :
             O!Lacks(Append(w, b), words) <=> O!Lacks(Append(t, l), words)
      BY <1>2, <2>1, <2>3, <3>7
    <3> QED BY <1>2, <2>1, <3>1, <3>5, <3>6, <3>8
  <2>7. CASE ~ O!Dropped(l) /\ ~ O!IsWord(l, O!AuthUserPass)
    <3>1. O!WriteLine(w, l) = Append(w, l)
      BY <2>7 DEF O!WriteLine
    <3>2. l \in C
      BY <2>7 DEF Clean, Lines
    <3>3. /\ IsInfo(O!Info(Append(t, l))) /\ IsInfo(O!Info(Append(w, l)))
          /\ Known(O!Info(Append(w, l))) = Known(O!Info(Append(t, l)))
      <4>1. /\ IsInfo(O!ReadDirective(O!Info(t), l)) /\ IsInfo(O!ReadDirective(O!Info(w), l))
        BY <2>0, InfoRead
      <4>2. Known(O!ReadDirective(O!Info(w), l)) = Known(O!ReadDirective(O!Info(t), l))
        BY <2>0, InfoSame
      <4> QED BY <2>2, <2>4, <3>2, <4>1, <4>2
    <3>4. ~ O!IsWord(l, {"auth-user-pass"})
      BY <2>7 DEF O!IsWord, O!AuthUserPass
    <3>5. O!Info(Append(w, l)).auth = O!Info(w).auth
      <4>1. \A i : IsInfo(i) => O!ReadDirective(i, l).auth = i.auth
        BY <3>4, InfoRead
      <4> QED BY <2>0, <2>4, <3>2, <4>1
    <3>6. Others(Append(w, l)) = Others(Append(t, l)) /\ Others(Append(t, l)) \in Seq(S)
      <4>1. /\ Others(Append(t, l)) = AddOther(Others(t), l)
            /\ Others(Append(w, l)) = AddOther(Others(w), l)
        BY <2>2, <2>4, <3>2
      <4>2. AddOther(Others(t), l) \in Seq(S)
        BY <2>0 DEF AddOther
      <4> QED BY <2>0, <4>1, <4>2
    <3>7. \A words \in {O!AuthUserPass, O!AuthNocache} :
             O!Lacks(Append(w, l), words) <=> O!Lacks(Append(t, l), words)
      BY <1>2, <2>1, <2>3
    <3>8. ~ O!Lacks(Append(t, l), O!AuthUserPass) => O!Info(Append(w, l)).auth = TRUE
      BY <1>2, <2>3, <2>7, <3>5
    <3> QED BY <1>2, <2>1, <3>1, <3>3, <3>6, <3>7, <3>8
  <2> QED BY <2>5, <2>6, <2>7
<1>3. Seq(S) \subseteq T
  <2>1. <<>> \in T
    BY <1>1
  <2>2. ASSUME NEW t \in Seq(S), NEW l \in S, t \in T PROVE Append(t, l) \in T
    <3> HIDE DEF Kept
    <3> QED BY <1>2, <2>2
  <2> HIDE DEF T
  <2> QED BY <2>1, <2>2, Writing!SeqInd
<1> QED BY <1>3

\* What is added at the end, a line at a time.
Asked(text1, lines) == IF O!Lacks(text1, O!AuthUserPass) THEN Append(lines, Ask) ELSE lines
Ended(text1, lines) == IF O!Lacks(text1, O!AuthNocache) THEN Append(lines, Nocache) ELSE lines

\* normalize is its loop and the two lines it may add.
LEMMA NormalizeSteps ==
    ASSUME NEW S, NEW t, Written(t) \in Seq(S), Ask \in S, Nocache \in S
    PROVE  O!Normalize(t) = Ended(t, Asked(t, Written(t)))
<1> DEFINE a == IF O!Lacks(t, O!AuthUserPass) THEN <<Ask>> ELSE <<>>
           b == IF O!Lacks(t, O!AuthNocache) THEN <<Nocache>> ELSE <<>>
           w == Written(t)
<1>1. O!Normalize(t) = w \o a \o b
  BY Zenon DEF O!Normalize, Written, Ask, Nocache
<1>2. w \o a = Asked(t, w) /\ Asked(t, w) \in Seq(S)
  <2> HIDE DEF w
  <2>1. w \in Seq(S)
    BY DEF w
  <2> QED BY <2>1 DEF Asked
<1>3. PICK v : v = Asked(t, w)
  OBVIOUS
<1>4. v \o b = Ended(t, v)
  BY <1>2, <1>3 DEF Ended
<1> QED BY <1>1, <1>2, <1>3, <1>4

\* Of a configuration of any lines but spoilt ones, what openvpn is run with names no
\* file of passwords, says auth-user-pass and auth-nocache, and is otherwise the same;
\* and normalizing it again changes nothing.
THEOREM NormalizeFit ==
    ASSUME NEW S, Plainly(S), NEW t \in Seq(S)
    PROVE  LET n == O!Normalize(t) IN
           /\ \A k \in DOMAIN n :
                O!IsWord(n[k], O!AuthUserPass) => n[k].word = "auth-user-pass" /\ n[k].args = <<>>
           /\ O!Info(n) = [O!Info(t) EXCEPT !.auth = TRUE]
           /\ \E k \in DOMAIN n : O!IsWord(n[k], O!AuthNocache)
           /\ Others(n) = Others(t) /\ O!Normalize(n) = n
<1> DEFINE C == Clean(S)
           w == Written(t)
           v == Asked(t, w)
           n == Ended(t, v)
<1>1. Ask \in C /\ Nocache \in C
  BY AddedLines DEF Clean, Lines
<1>2. w \in Seq(C)
  BY WrittenClean
<1>3. O!Normalize(t) = n
  BY <1>1, <1>2, NormalizeSteps
<1>4. /\ IsInfo(O!Info(t)) /\ IsInfo(O!Info(w)) /\ Known(O!Info(w)) = Known(O!Info(t))
      /\ ~ O!Lacks(t, O!AuthUserPass) => O!Info(w).auth = TRUE
      /\ Others(w) = Others(t)
      /\ O!Lacks(w, O!AuthUserPass) <=> O!Lacks(t, O!AuthUserPass)
      /\ O!Lacks(w, O!AuthNocache) <=> O!Lacks(t, O!AuthNocache)
  BY WrittenKeeps
<1>5. /\ ~ O!IsWord(Ask, {"remote", "proto", "<ca>"}) /\ O!IsWord(Ask, {"auth-user-pass"})
      /\ ~ O!IsWord(Nocache, {"remote", "proto", "<ca>"}) /\ ~ O!IsWord(Nocache, {"auth-user-pass"})
      /\ O!IsWord(Ask, O!AuthUserPass) /\ ~ O!IsWord(Ask, O!AuthNocache)
      /\ O!IsWord(Nocache, O!AuthNocache) /\ ~ O!IsWord(Nocache, O!AuthUserPass)
      /\ O!IsWord(Ask, O!AuthUserPass \cup O!AuthNocache)
      /\ O!IsWord(Nocache, O!AuthUserPass \cup O!AuthNocache)
  BY DEF Ask, Nocache, O!Words, O!IsWord, O!AuthUserPass, O!AuthNocache
<1> HIDE DEF C
<1>6. /\ v \in Seq(C) /\ IsInfo(O!Info(v)) /\ Known(O!Info(v)) = Known(O!Info(t))
      /\ O!Info(v).auth = TRUE /\ Others(v) = Others(t)
      /\ ~ O!Lacks(v, O!AuthUserPass) /\ (O!Lacks(v, O!AuthNocache) <=> O!Lacks(t, O!AuthNocache))
  <2> HIDE DEF w
  <2>1. CASE ~ O!Lacks(t, O!AuthUserPass)
    BY <1>2, <1>4, <2>1 DEF Asked
  <2>2. CASE O!Lacks(t, O!AuthUserPass)
    <3>1. v = Append(w, Ask) /\ v \in Seq(C)
      BY <1>1, <1>2, <2>2 DEF Asked
    <3>2. O!Info(v) = O!ReadDirective(O!Info(w), Ask) /\ Others(v) = AddOther(Others(w), Ask)
      BY <1>1, <1>2, <3>1, InfoFold, OthersFold
    <3>3. \A i : IsInfo(i) => /\ IsInfo(O!ReadDirective(i, Ask))
                              /\ Known(O!ReadDirective(i, Ask)) = Known(i)
                              /\ O!ReadDirective(i, Ask).auth = TRUE
      BY <1>5, InfoRead
    <3>4. Others(v) = Others(w)
      BY <1>5, <3>2 DEF AddOther
    <3>5. \A words : O!Lacks(v, words) <=> O!Lacks(w, words) /\ ~ O!IsWord(Ask, words)
      BY <1>2, <3>1, LacksAppend
    <3> QED BY <1>4, <1>5, <3>1, <3>2, <3>3, <3>4, <3>5
  <2> QED BY <2>1, <2>2
<1>7. /\ n \in Seq(C) /\ IsInfo(O!Info(n)) /\ Known(O!Info(n)) = Known(O!Info(t))
      /\ O!Info(n).auth = TRUE /\ Others(n) = Others(t)
      /\ ~ O!Lacks(n, O!AuthUserPass) /\ ~ O!Lacks(n, O!AuthNocache)
  <2> HIDE DEF v
  <2>1. CASE ~ O!Lacks(t, O!AuthNocache)
    BY <1>6, <2>1 DEF Ended
  <2>2. CASE O!Lacks(t, O!AuthNocache)
    <3>1. n = Append(v, Nocache) /\ n \in Seq(C)
      BY <1>1, <1>6, <2>2 DEF Ended
    <3>2. O!Info(n) = O!ReadDirective(O!Info(v), Nocache) /\ Others(n) = AddOther(Others(v), Nocache)
      BY <1>1, <1>6, <3>1, InfoFold, OthersFold
    <3>3. \A i : IsInfo(i) => /\ IsInfo(O!ReadDirective(i, Nocache))
                              /\ Known(O!ReadDirective(i, Nocache)) = Known(i)
                              /\ O!ReadDirective(i, Nocache).auth = i.auth
      BY <1>5, InfoRead
    <3>4. Others(n) = Others(v)
      BY <1>5, <3>2 DEF AddOther
    <3>5. \A words : O!Lacks(n, words) <=> O!Lacks(v, words) /\ ~ O!IsWord(Nocache, words)
      BY <1>6, <3>1, LacksAppend
    <3> QED BY <1>5, <1>6, <3>1, <3>2, <3>3, <3>4, <3>5
  <2> QED BY <2>1, <2>2
<1> HIDE DEF n
<1>8. \A k \in DOMAIN n :
        O!IsWord(n[k], O!AuthUserPass) => n[k].word = "auth-user-pass" /\ n[k].args = <<>>
  <2> SUFFICES ASSUME NEW l \in C
               PROVE  O!IsWord(l, O!AuthUserPass) => l.word = "auth-user-pass" /\ l.args = <<>>
    BY <1>7
  <2>1. O!IsWord(l, O!AuthUserPass) => l = O!Bare(l)
    BY DEF C, Clean
  <2>2. ASSUME l = O!Bare(l) PROVE O!IsWord(l, O!AuthUserPass) => l.word = "auth-user-pass" /\ l.args = <<>>
    <3>1. l.trail = 0
      BY <2>2 DEF O!Bare, O!Words
    <3>2. l = O!Words(l.indent, "auth-user-pass", <<>>, 0)
      BY <2>2, <3>1 DEF O!Bare
    <3> QED BY <3>2 DEF O!Words
  <2> QED BY <2>1, <2>2
<1>9. O!Info(n) = [O!Info(t) EXCEPT !.auth = TRUE]
  <2>1. PICK i, j, yes : i = O!Info(n) /\ j = O!Info(t) /\ yes = TRUE
    BY Zenon
  <2>2. /\ i = [host |-> i.host, port |-> i.port, proto |-> i.proto, ca |-> i.ca, auth |-> i.auth]
        /\ j = [host |-> j.host, port |-> j.port, proto |-> j.proto, ca |-> j.ca, auth |-> j.auth]
        /\ i.auth = yes
    BY <1>4, <1>7, <2>1, Zenon DEF IsInfo
  <2>3. i.host = j.host /\ i.port = j.port /\ i.proto = j.proto /\ i.ca = j.ca
    <3>1. Known(i) = Known(j)
      BY <1>7, <2>1, Zenon
    <3> QED BY <3>1, SMT DEF Known
  <2>4. i = [j EXCEPT !.auth = yes]
    BY <2>2, <2>3, SMT
  <2> QED BY <2>1, <2>4, Zenon
<1>10. \E k \in DOMAIN n : O!IsWord(n[k], O!AuthNocache)
  BY <1>7 DEF O!Lacks
<1>11. O!Normalize(n) = n
  <2>1. Written(n) = n
    BY <1>7, WrittenClean DEF C
  <2>2. O!Normalize(n) = Ended(n, Asked(n, Written(n)))
    BY <1>1, <1>7, <2>1, NormalizeSteps
  <2> QED BY <1>7, <2>1, <2>2 DEF Ended, Asked
<1> QED BY <1>3, <1>7, <1>8, <1>9, <1>10, <1>11, Zenon

\* The text of the OpenVPN format is a sequence of its lines.
OvpnInv == format = "ovpn" => text \in Seq(OvpnLines)

\* The texts of the run are such sequences.
LEMMA OvpnInvKept == Spec => []OvpnInv
<1>1. Init => OvpnInv
  BY DEF Init, OvpnInv
<1>2. OvpnInv /\ [Next]_vars => OvpnInv'
  <2> SUFFICES ASSUME OvpnInv, [Next]_vars, format' = "ovpn" PROVE text' \in Seq(OvpnLines)
    BY DEF OvpnInv
  <2>1. CASE UNCHANGED vars
    BY <2>1 DEF vars, OvpnInv
  <2>2. CASE Next
    <3>1. format = "ovpn"
      BY <2>2 DEF Next, Grow
    <3>2. Parts = OvpnLines
      BY <3>1 DEF Parts
    <3>3. PICK part \in OvpnLines : text' = Append(text, part)
      BY <2>2, <3>2 DEF Next, Grow
    <3>4. text \in Seq(OvpnLines)
      BY <3>1 DEF OvpnInv
    <3> QED BY <3>3, <3>4
  <2> QED BY <2>1, <2>2
<1> QED BY <1>1, <1>2, PTL DEF Spec

\* The checked property (normalize), for a configuration of any number of lines.
THEOREM FitForDaemon == Spec => []NormalizedForDaemon
<1>1. OvpnInv => NormalizedForDaemon
  <2> SUFFICES ASSUME OvpnInv, format = "ovpn", \A k \in DOMAIN text : ~ Spoilt(text[k])
               PROVE  NormalizedForDaemon
    BY DEF NormalizedForDaemon
  <2> DEFINE S == {l \in OvpnLines : ~ Spoilt(l)}
  <2>1. text \in Seq(OvpnLines)
    BY DEF OvpnInv
  <2>2. text \in Seq(S)
    <3>1. \A k \in 1 .. Len(text) : text[k] \in S
      BY <2>1
    <3> HIDE DEF S
    <3> QED BY <2>1, <3>1
  <2>3. Plainly(S)
    BY DEF Plainly
  <2> HIDE DEF S
  <2> QED BY <2>2, <2>3, NormalizeFit, Zenon DEF NormalizedForDaemon
<1> QED BY <1>1, OvpnInvKept, PTL

-----------------------------------------------------------------------------
(* The folds of WgConf, an element at a time. *)

\* What join_list does with an item, and split_list with a piece.
JoinItem(s, p) == IF s = <<>> THEN <<p>> ELSE s \o <<",", p>>

SplitPiece(list, p) == IF p = "," THEN list ELSE Append(list, p)

\* Reading lines, joining items, splitting text.
Reading   == INSTANCE FoldFacts WITH Op <- W!ReadLine
Joining   == INSTANCE FoldFacts WITH Op <- JoinItem
Splitting == INSTANCE FoldFacts WITH Op <- SplitPiece

\* What is known after some lines.
Read(acc, lines) == W!FoldLeft(W!ReadLine, acc, lines)

\* parse reads a line at a time, and of two texts one after the other.
LEMMA ReadFold ==
    /\ \A acc : Read(acc, <<>>) = acc
    /\ \A acc, S : \A s \in Seq(S), l \in S : Read(acc, Append(s, l)) = W!ReadLine(Read(acc, s), l)
    /\ \A acc, S : \A s, t \in Seq(S) : Read(acc, s \o t) = Read(Read(acc, s), t)
<1>1. \A acc, s : Read(acc, s) = Reading!Fold(acc, s)
  BY Zenon DEF Read, W!FoldLeft, W!MapThenFoldSet, W!Max, Reading!Fold, Reading!FoldLeft,
               Reading!MapThenFoldSet, Reading!Max
<1>2. ASSUME NEW acc PROVE Read(acc, <<>>) = acc
  BY <1>1, Reading!FoldEmpty
<1>3. ASSUME NEW acc, NEW S, NEW s \in Seq(S), NEW l \in S
      PROVE  Read(acc, Append(s, l)) = W!ReadLine(Read(acc, s), l)
  BY <1>1, Reading!FoldAppend
<1>4. ASSUME NEW acc, NEW S, NEW s \in Seq(S), NEW t \in Seq(S)
      PROVE  Read(acc, s \o t) = Read(Read(acc, s), t)
  BY <1>1, Reading!FoldConcat
<1> QED BY <1>2, <1>3, <1>4

\* A list is written an item at a time.
LEMMA JoinFold ==
    /\ W!Join(<<>>) = <<>>
    /\ \A S : \A s \in Seq(S), p \in S : W!Join(Append(s, p)) = JoinItem(W!Join(s), p)
<1>1. \A s : W!Join(s) = Joining!Fold(<<>>, s)
  BY Zenon DEF W!Join, JoinItem, W!FoldLeft, W!MapThenFoldSet, W!Max, Joining!Fold, Joining!FoldLeft,
               Joining!MapThenFoldSet, Joining!Max
<1>2. W!Join(<<>>) = <<>>
  BY <1>1, Joining!FoldEmpty
<1>3. ASSUME NEW S, NEW s \in Seq(S), NEW p \in S
      PROVE  W!Join(Append(s, p)) = JoinItem(W!Join(s), p)
  BY <1>1, Joining!FoldAppend
<1> QED BY <1>2, <1>3

\* A list is read a piece at a time.
LEMMA SplitFold ==
    /\ W!SplitList(<<>>) = <<>>
    /\ \A S : \A s \in Seq(S), p \in S :
          W!SplitList(Append(s, p)) = SplitPiece(W!SplitList(s), p)
<1>1. \A s : W!SplitList(s) = Splitting!Fold(<<>>, s)
  BY Zenon DEF W!SplitList, SplitPiece, W!FoldLeft, W!MapThenFoldSet, W!Max, Splitting!Fold,
               Splitting!FoldLeft, Splitting!MapThenFoldSet, Splitting!Max
<1>2. W!SplitList(<<>>) = <<>>
  BY <1>1, Splitting!FoldEmpty
<1>3. ASSUME NEW S, NEW s \in Seq(S), NEW p \in S
      PROVE  W!SplitList(Append(s, p)) = SplitPiece(W!SplitList(s), p)
  BY <1>1, Splitting!FoldAppend
<1> QED BY <1>2, <1>3

\* FlattenSeq puts one sequence after the other.
LEMMA Flatten ==
    /\ W!FlattenSeq(<<>>) = <<>>
    /\ \A S : \A q \in Seq(Seq(S)), s \in Seq(S) :
          W!FlattenSeq(Append(q, s)) = W!FlattenSeq(q) \o s
<1>1. \A q : W!FlattenSeq(q) = Reading!FlattenSeq(q)
  BY Zenon DEF W!FlattenSeq, Reading!FlattenSeq
<1>2. W!FlattenSeq(<<>>) = <<>>
  BY <1>1, Reading!FlattenEmpty
<1>3. ASSUME NEW S, NEW q \in Seq(Seq(S)), NEW s \in Seq(S)
      PROVE  W!FlattenSeq(Append(q, s)) = W!FlattenSeq(q) \o s
  BY <1>1, Reading!FlattenAppend
<1> QED BY <1>2, <1>3

-----------------------------------------------------------------------------
(* Values. *)

\* The pieces of what is left when comments are cut off, and of the items of a list.
Piece == STRING \cup {",", "#", "a", "b", "c", "d", "k"} \cup DOMAIN W!Canonical
\* Without comments, and without commas too.
Clear == Piece \ {"#"}
Item  == Clear \ {","}

\* A comma is no comment.
LEMMA Comma == "," \in Clear
BY DEF Clear, Piece

\* strip_comment leaves no comment, and leaves a value that has none.
LEMMA UncommentedClear ==
    ASSUME NEW v \in Seq(Piece)
    PROVE  W!Uncommented(v) \in Seq(Clear)
<1> DEFINE I == {i \in 1 .. Len(v) : v[i] = "#"}
<1>1. CASE I = {}
  <2>1. ~ W!Contains(v, "#")
    BY <1>1 DEF W!Contains
  <2>2. \A i \in 1 .. Len(v) : v[i] \in Clear
    BY <1>1 DEF Clear
  <2>3. v \in Seq(Clear)
    BY <2>2
  <2> QED BY <2>1, <2>3 DEF W!Uncommented
<1>2. CASE I # {}
  <2>1. PICK k \in I : \A i \in I : k <= i
    <3>1. I \in SUBSET Nat
      OBVIOUS
    <3> HIDE DEF I
    <3> QED BY <1>2, <3>1, Reading!Least
  <2>2. W!Min(I) = k
    <3>1. PICK m : m = W!Min(I)
      OBVIOUS
    <3>2. m \in I /\ \A i \in I : m <= i
      BY <2>1, <3>1, Zenon DEF W!Min
    <3>3. m <= k /\ k <= m /\ m \in Nat /\ k \in Nat
      BY <2>1, <3>2
    <3>4. m = k
      BY <3>3
    <3> QED BY <3>1, <3>4
  <2>3. W!SelectInSeq(v, LAMBDA p : p = "#") = k
    BY <1>2, <2>2, Zenon DEF W!SelectInSeq
  <2>4. W!Contains(v, "#")
    BY <1>2 DEF W!Contains
  <2>5. W!Uncommented(v) = SubSeq(v, 1, k - 1)
    BY <2>3, <2>4, Zenon DEF W!Uncommented
  <2>6. \A i \in 1 .. k - 1 : v[i] \in Clear
    <3> SUFFICES ASSUME NEW i \in 1 .. k - 1 PROVE v[i] \in Clear
      OBVIOUS
    <3>1. i \in 1 .. Len(v) /\ i \notin I
      BY <2>1
    <3> QED BY <3>1 DEF Clear
  <2>7. k - 1 \in Nat /\ k - 1 <= Len(v)
    BY <2>1
  <2>8. SubSeq(v, 1, k - 1) \in Seq(Clear)
    BY <2>6, <2>7
  <2> QED BY <2>5, <2>8
<1> QED BY <1>1, <1>2

\* A value without a comment is kept as it is.
LEMMA UncommentedSame ==
    ASSUME NEW v \in Seq(Clear)
    PROVE  W!Uncommented(v) = v
<1>1. ~ W!Contains(v, "#")
  BY DEF W!Contains, Clear
<1> QED BY <1>1 DEF W!Uncommented

\* The items of a list have no commas.
LEMMA SplitPlain ==
    ASSUME NEW v \in Seq(Clear)
    PROVE  W!SplitList(v) \in Seq(Item)
<1> DEFINE T == {u \in Seq(Clear) : W!SplitList(u) \in Seq(Item)}
<1>1. <<>> \in T
  <2>1. <<>> \in Seq(Clear) /\ <<>> \in Seq(Item)
    OBVIOUS
  <2> QED BY <2>1, SplitFold
<1>2. ASSUME NEW u \in Seq(Clear), NEW p \in Clear, u \in T PROVE Append(u, p) \in T
  <2>1. W!SplitList(Append(u, p)) = SplitPiece(W!SplitList(u), p)
    BY SplitFold
  <2>2. SplitPiece(W!SplitList(u), p) \in Seq(Item)
    <3>1. PICK q : q = W!SplitList(u)
      OBVIOUS
    <3>2. q \in Seq(Item)
      BY <1>2, <3>1
    <3>3. CASE p = ","
      BY <3>1, <3>2, <3>3 DEF SplitPiece
    <3>4. CASE p # ","
      <4>1. p \in Item
        BY <3>4 DEF Item
      <4>2. Append(q, p) \in Seq(Item)
        BY <3>2, <4>1
      <4> QED BY <3>1, <3>4, <4>2 DEF SplitPiece
    <3> QED BY <3>3, <3>4
  <2>3. Append(u, p) \in Seq(Clear)
    OBVIOUS
  <2> QED BY <2>1, <2>2, <2>3
<1>3. Seq(Clear) \subseteq T
  <2> HIDE DEF T
  <2> QED BY <1>1, <1>2, Reading!SeqInd
<1> QED BY <1>3

\* A sequence that gets two elements more, as JoinItem makes it.
LEMMA TwoMore ==
    ASSUME NEW C, NEW s \in Seq(C), NEW q \in C, NEW p \in C
    PROVE  /\ Append(s, q) \in Seq(C) /\ s \o <<q, p>> = Append(Append(s, q), p)
           /\ Append(Append(s, q), p) \in Seq(C) /\ Append(Append(s, q), p) # <<>>
           /\ <<p>> \in Seq(C) /\ <<p>> # <<>>
<1>1. Append(s, q) \in Seq(C)
  OBVIOUS
<1>2. s \o <<q, p>> = Append(Append(s, q), p)
  OBVIOUS
<1>3. Append(Append(s, q), p) \in Seq(C) /\ Append(Append(s, q), p) # <<>>
  <2>1. PICK r : r = Append(s, q)
    OBVIOUS
  <2>2. r \in Seq(C)
    BY <1>1, <2>1
  <2>3. Append(r, p) \in Seq(C) /\ Append(r, p) # <<>>
    BY <2>2
  <2> QED BY <2>1, <2>3
<1>4. <<p>> \in Seq(C) /\ <<p>> # <<>>
  OBVIOUS
<1> QED BY <1>1, <1>2, <1>3, <1>4

\* A list that is written is read again.
LEMMA SplitJoined ==
    ASSUME NEW list \in Seq(Item)
    PROVE  /\ W!Join(list) \in Seq(Clear) /\ (list # <<>> => W!Join(list) # <<>>)
           /\ W!SplitList(W!Join(list)) = list
<1> DEFINE Good2(u) == /\ W!Join(u) \in Seq(Clear) /\ (u # <<>> => W!Join(u) # <<>>)
                       /\ W!SplitList(W!Join(u)) = u
           T == {u \in Seq(Item) : Good2(u)}
<1>1. <<>> \in T
  <2>1. <<>> \in Seq(Clear) /\ <<>> \in Seq(Item)
    OBVIOUS
  <2> QED BY <2>1, SplitFold, JoinFold
<1>2. ASSUME NEW u \in Seq(Item), NEW p \in Item, u \in T PROVE Append(u, p) \in T
  <2>1. W!Join(Append(u, p)) = JoinItem(W!Join(u), p)
    BY JoinFold
  <2>2. p \in Clear /\ "," \in Clear /\ p # ","
    BY Comma DEF Item
  <2>3. PICK j : j = W!Join(u)
    OBVIOUS
  <2>4. j \in Seq(Clear) /\ (u # <<>> => j # <<>>) /\ W!SplitList(j) = u
    BY <1>2, <2>3
  <2>5. CASE j = <<>>
    <3>1. u = <<>> /\ JoinItem(j, p) = <<p>> /\ <<p>> = Append(<<>>, p)
      BY <2>4, <2>5 DEF JoinItem
    <3>2. <<>> \in Seq(Clear)
      OBVIOUS
    <3>3. W!SplitList(Append(<<>>, p)) = SplitPiece(W!SplitList(<<>>), p)
      BY <2>2, <3>2, SplitFold
    <3>4. SplitPiece(W!SplitList(<<>>), p) = Append(u, p)
      BY <2>2, <3>1, SplitFold DEF SplitPiece
    <3>5. <<p>> \in Seq(Clear) /\ <<p>> # <<>>
      BY <2>2, <2>4, TwoMore, Zenon
    <3>6. Append(u, p) \in Seq(Item)
      OBVIOUS
    <3> QED BY <2>1, <2>3, <3>1, <3>3, <3>4, <3>5, <3>6
  <2>6. CASE j # <<>>
    <3> DEFINE c == Append(j, ",")
    <3>0. /\ c \in Seq(Clear) /\ j \o <<",", p>> = Append(c, p)
          /\ Append(c, p) \in Seq(Clear) /\ Append(c, p) # <<>>
      <4>1. PICK comma : comma = "," /\ comma \in Clear
        BY <2>2, Zenon
      <4>2. /\ Append(j, comma) \in Seq(Clear)
            /\ j \o <<comma, p>> = Append(Append(j, comma), p)
            /\ Append(Append(j, comma), p) \in Seq(Clear) /\ Append(Append(j, comma), p) # <<>>
        <5>1. comma \in Clear /\ p \in Clear /\ j \in Seq(Clear)
          BY <2>2, <2>4, <4>1, Zenon
        <5> QED BY <5>1, TwoMore
      <4> QED BY <4>1, <4>2, Zenon
    <3>1. JoinItem(j, p) = Append(c, p) /\ c \in Seq(Clear)
      BY <2>6, <3>0, Zenon DEF JoinItem
    <3>2. W!SplitList(c) = u
      <4>1. W!SplitList(c) = SplitPiece(W!SplitList(j), ",")
        BY <2>2, <2>4, SplitFold
      <4> QED BY <2>4, <4>1 DEF SplitPiece
    <3>3. W!SplitList(Append(c, p)) = Append(u, p)
      <4>1. W!SplitList(Append(c, p)) = SplitPiece(W!SplitList(c), p)
        BY <2>2, <3>1, SplitFold
      <4> QED BY <2>2, <3>2, <4>1 DEF SplitPiece
    <3>4. Append(u, p) \in Seq(Item)
      OBVIOUS
    <3> QED BY <2>1, <2>3, <3>0, <3>1, <3>3, <3>4, Zenon
  <2> QED BY <2>5, <2>6
<1>3. Seq(Item) \subseteq T
  <2> HIDE DEF T
  <2> QED BY <1>1, <1>2, Reading!SeqInd
<1> QED BY <1>3

-----------------------------------------------------------------------------
(* Sections. *)

\* The keys that parse knows in a section.
KeysOf(name) == W!ToSet(W!Keys[name])

\* The keys there can be.  The literals are named, as those of Piece are: the provers
\* do not know them to be in STRING.
Key == STRING \cup KeysOf("Interface") \cup KeysOf("Peer") \cup {"PostUp"}

\* What a key may be known to have.
Numerals(key) == {d \in DOMAIN W!Canonical : W!Canonical[d] = d /\ W!Fits(key, <<d>>)}

\* The values that parse leaves with a key: items, a number or text.
Allowed(key) ==
    IF key \in W!Lists THEN Seq(Item)
    ELSE IF key \in W!Numbers THEN {<<>>} \cup {<<d>> : d \in Numerals(key)}
    ELSE Seq(Clear)

\* The lines that a section keeps as they are, the values of its keys, and both.
Extras(name) == (Key \ KeysOf(name)) \X (Seq(Clear) \ {<<>>})

Values(name) == {f \in [KeysOf(name) -> Seq(Clear)] : \A key \in KeysOf(name) : f[key] \in Allowed(key)}

Section(name) == [known : Values(name), extra : Seq(Extras(name))]

\* What a line makes of the value that its key had.
NewValue(old, key, value) ==
    CASE key \in W!Lists   -> old \o W!SplitList(value)
      [] key \in W!Numbers -> <<W!Canonical[value[1]]>>
      [] OTHER             -> value

\* The section of these values and lines.
Sec(f, e) == [known |-> f, extra |-> e]

\* A section is what is known and what is extra.
LEMMA SecTyped ==
    /\ \A name : \A f \in Values(name), e \in Seq(Extras(name)) : Sec(f, e) \in Section(name)
    /\ \A name : \A sec \in Section(name) :
          \E f \in Values(name), e \in Seq(Extras(name)) : sec = Sec(f, e)
<1>1. ASSUME NEW name, NEW f \in Values(name), NEW e \in Seq(Extras(name))
      PROVE  Sec(f, e) \in Section(name)
  BY DEF Sec, Section
<1>2. ASSUME NEW name, NEW sec \in Section(name)
      PROVE  \E f \in Values(name), e \in Seq(Extras(name)) : sec = Sec(f, e)
  <2>1. sec.known \in Values(name) /\ sec.extra \in Seq(Extras(name)) /\ sec = Sec(sec.known, sec.extra)
    BY DEF Sec, Section
  <2> QED BY <2>1
<1> QED BY <1>1, <1>2

\* What a pair adds to a section, if its key is known and if it is not.
LEMMA AddPairKnown ==
    ASSUME NEW f, NEW e, NEW key \in DOMAIN f, NEW value
    PROVE  W!AddPair(Sec(f, e), key, value)
             = Sec([f EXCEPT ![key] = NewValue(f[key], key, value)], e)
<1>1. PICK sec : sec = [known |-> f, extra |-> e]
  OBVIOUS
<1>2. sec.known = f /\ sec.extra = e
  BY <1>1
<1>3. PICK v : v = NewValue(f[key], key, value)
  OBVIOUS
<1>4. W!AddPair(sec, key, value) = [sec EXCEPT !.known[key] = v]
  BY <1>2, <1>3, Zenon DEF W!AddPair, NewValue
<1>5. [sec EXCEPT !.known[key] = v] = [known |-> [f EXCEPT ![key] = v], extra |-> e]
  BY <1>1, SMT
<1> QED BY <1>1, <1>3, <1>4, <1>5, Zenon DEF Sec

\* A pair whose key is not known is kept as it is.
LEMMA AddPairExtra ==
    ASSUME NEW f, NEW e, NEW key, key \notin DOMAIN f, NEW value
    PROVE  W!AddPair(Sec(f, e), key, value) = Sec(f, Append(e, <<key, value>>))
<1>1. PICK sec : sec = [known |-> f, extra |-> e]
  OBVIOUS
<1>2. sec.known = f /\ sec.extra = e
  BY <1>1
<1>3. PICK x : x = Append(e, <<key, value>>)
  OBVIOUS
<1>4. W!AddPair(sec, key, value) = [sec EXCEPT !.extra = x]
  BY <1>2, <1>3, Zenon DEF W!AddPair
<1>5. [sec EXCEPT !.extra = x] = [known |-> f, extra |-> x]
  BY <1>1, SMT
<1> QED BY <1>1, <1>3, <1>4, <1>5, Zenon DEF Sec

\* No key is of a list and of a number.
LEMMA Separate == W!Lists \cap W!Numbers = {}
BY DEF W!Lists, W!Numbers

\* parse takes a number that is written in its own form, and render writes that one.
LEMMA NumberRead ==
    ASSUME NEW key, NEW value \in Seq(Clear), W!Fits(key, value)
    PROVE  W!Canonical[value[1]] \in Numerals(key)
<1> DEFINE d == W!Canonical[value[1]]
<1>1. Len(value) = 1 /\ value[1] \in DOMAIN W!Canonical /\ (key = "ListenPort" => value # <<"65536">>)
  BY DEF W!Fits
<1>2. value = <<value[1]>>
  BY <1>1
<1>3. DOMAIN W!Canonical = {"1280", "01280", "65536"}
  BY DEF W!Canonical
<1>4. d = (IF value[1] = "01280" THEN "1280" ELSE value[1]) /\ d \in {"1280", "65536"}
  BY <1>1, <1>3 DEF W!Canonical
<1>5. W!Canonical[d] = d /\ d \in DOMAIN W!Canonical
  BY <1>3, <1>4 DEF W!Canonical
<1>6. key = "ListenPort" => d # "65536"
  <2>1. value[1] = "65536" => value = <<"65536">>
    BY <1>2, Zenon
  <2> QED BY <1>1, <1>4, <2>1
<1>7. W!Fits(key, <<d>>)
  <2> HIDE DEF d
  <2>1. Len(<<d>>) = 1 /\ <<d>>[1] = d
    OBVIOUS
  <2>2. d # "65536" => <<d>> # <<"65536">>
    OBVIOUS
  <2> QED BY <1>5, <1>6, <2>1, <2>2 DEF W!Fits
<1> HIDE DEF d
<1>8. d \in Numerals(key)
  BY <1>5, <1>7 DEF Numerals
<1> QED BY <1>8 DEF d

\* A number is a value without a comment.
LEMMA NumeralClear == ASSUME NEW key, NEW d \in Numerals(key) PROVE <<d>> \in Seq(Clear)
<1>1. d \in DOMAIN W!Canonical
  BY DEF Numerals
<1>2. d # "#"
  BY <1>1 DEF W!Canonical
<1>3. d \in Clear
  BY <1>1, <1>2 DEF Clear, Piece
<1> HIDE DEF Clear
<1> QED BY <1>3

\* So is whatever a key may be known to have, and nothing is allowed.
LEMMA AllowedClear == ASSUME NEW key PROVE Allowed(key) \subseteq Seq(Clear) /\ <<>> \in Allowed(key)
<1>1. Seq(Item) \subseteq Seq(Clear)
  <2>1. Item \subseteq Clear
    BY DEF Item
  <2> QED BY <2>1
<1>2. <<>> \in Seq(Item) /\ <<>> \in Seq(Clear)
  OBVIOUS
<1>3. \A d \in Numerals(key) : <<d>> \in Seq(Clear)
  BY NumeralClear
<1> QED BY <1>1, <1>2, <1>3 DEF Allowed

\* What a value makes of what a key has is allowed again.
LEMMA NewValueAllowed ==
    ASSUME NEW key, NEW old \in Allowed(key), NEW value \in Seq(Clear),
           key \in W!Numbers => W!Fits(key, value)
    PROVE  NewValue(old, key, value) \in Allowed(key)
<1>1. CASE key \in W!Lists
  <2>1. old \in Seq(Item) /\ W!SplitList(value) \in Seq(Item)
    BY <1>1, SplitPlain DEF Allowed
  <2>2. PICK s : s = W!SplitList(value)
    OBVIOUS
  <2>3. old \o s \in Seq(Item)
    BY <2>1, <2>2
  <2>4. NewValue(old, key, value) = old \o s
    BY <1>1, <2>2, Separate DEF NewValue
  <2> QED BY <1>1, <2>3, <2>4 DEF Allowed
<1>2. CASE key \in W!Numbers
  <2>1. W!Canonical[value[1]] \in Numerals(key)
    BY <1>2, NumberRead
  <2>2. NewValue(old, key, value) = <<W!Canonical[value[1]]>> /\ key \notin W!Lists
    BY <1>2, Separate, Zenon DEF NewValue
  <2> QED BY <1>2, <2>1, <2>2 DEF Allowed
<1>3. CASE key \notin W!Lists \cup W!Numbers
  BY <1>3 DEF NewValue, Allowed
<1> QED BY <1>1, <1>2, <1>3

\* A section begins with nothing known.
LEMMA NewSectionTyped == ASSUME NEW name PROVE W!NewSection(name) \in Section(name)
<1> DEFINE f == [k \in KeysOf(name) |-> <<>>]
<1>1. f \in Values(name)
  <2>1. \A k \in KeysOf(name) : <<>> \in Allowed(k) /\ <<>> \in Seq(Clear)
    BY AllowedClear
  <2> QED BY <2>1 DEF Values
<1>2. W!NewSection(name) = [known |-> f, extra |-> <<>>]
  BY DEF W!NewSection, KeysOf
<1>3. <<>> \in Seq(Extras(name))
  OBVIOUS
<1> HIDE DEF f
<1> QED BY <1>1, <1>2, <1>3 DEF Section

\* A pair that is taken leaves a section a section (the arms of the match on the key in
\* parse_wg_config).
LEMMA AddPairTyped ==
    ASSUME NEW name, NEW sec \in Section(name), NEW key \in Key, NEW value \in Seq(Clear),
           value # <<>>, key \in W!Numbers /\ key \in KeysOf(name) => W!Fits(key, value)
    PROVE  W!AddPair(sec, key, value) \in Section(name)
<1>1. PICK f \in Values(name), e \in Seq(Extras(name)) : sec = Sec(f, e)
  BY SecTyped
<1>2. f \in [KeysOf(name) -> Seq(Clear)] /\ \A k \in KeysOf(name) : f[k] \in Allowed(k)
  BY DEF Values
<1>3. DOMAIN f = KeysOf(name)
  BY <1>2
<1>4. CASE key \in KeysOf(name)
  <2>1. PICK v : v = NewValue(f[key], key, value)
    OBVIOUS
  <2>2. v \in Allowed(key) /\ v \in Seq(Clear)
    BY <1>2, <1>4, <2>1, NewValueAllowed, AllowedClear
  <2>3. [f EXCEPT ![key] = v] \in Values(name)
    BY <1>2, <1>4, <2>2 DEF Values
  <2>4. W!AddPair(sec, key, value) = Sec([f EXCEPT ![key] = v], e)
    <3>1. key \in DOMAIN f
      BY <1>3, <1>4
    <3>2. W!AddPair(Sec(f, e), key, value)
            = Sec([f EXCEPT ![key] = NewValue(f[key], key, value)], e)
      BY <3>1, AddPairKnown
    <3> QED BY <1>1, <2>1, <3>2
  <2> QED BY <2>3, <2>4, SecTyped
<1>5. CASE key \notin KeysOf(name)
  <2>1. PICK x : x = <<key, value>>
    OBVIOUS
  <2>2. x \in Extras(name)
    BY <1>5, <2>1 DEF Extras
  <2>3. Append(e, x) \in Seq(Extras(name))
    BY <2>2
  <2>4. W!AddPair(sec, key, value) = Sec(f, Append(e, x))
    BY <1>1, <1>3, <1>5, <2>1, AddPairExtra
  <2> QED BY <2>3, <2>4, SecTyped
<1> QED BY <1>4, <1>5

-----------------------------------------------------------------------------
(* What parse knows on its way. *)

Yes == TRUE

No == FALSE

Acc(ok, seen, at, i, ps) ==
    [ok |-> ok, seen |-> seen, at |-> at, conf |-> [interface |-> i, peers |-> ps]]

\* An error changes nothing else.
LEMMA ReadFails ==
    ASSUME NEW ok, NEW seen, NEW at, NEW i, NEW ps
    PROVE  W!Fail(Acc(ok, seen, at, i, ps)) = Acc(No, seen, at, i, ps)
<1>1. PICK no : no = No
  OBVIOUS
<1>2. PICK acc : acc = [ok |-> ok, seen |-> seen, at |-> at, conf |-> [interface |-> i, peers |-> ps]]
  OBVIOUS
<1>3. [acc EXCEPT !.ok = no]
        = [ok |-> no, seen |-> seen, at |-> at, conf |-> [interface |-> i, peers |-> ps]]
  BY <1>2, SMT
<1> QED BY <1>1, <1>2, <1>3, Zenon DEF Acc, W!Fail, No

\* A header, by section.
LEMMA ReadsInterface ==
    ASSUME NEW ok, NEW at, NEW i, NEW ps, NEW seen, ~ seen
    PROVE  W!ReadHeader(Acc(ok, seen, at, i, ps), "Interface") = Acc(ok, Yes, "Interface", i, ps)
<1>1. PICK yes : yes = Yes
  OBVIOUS
<1>2. PICK acc : acc = [ok |-> ok, seen |-> seen, at |-> at, conf |-> [interface |-> i, peers |-> ps]]
  OBVIOUS
<1>3. acc.seen = seen
  BY <1>2
<1>4. W!ReadHeader(acc, "Interface") = [acc EXCEPT !.seen = TRUE, !.at = "Interface"]
  BY <1>3, Zenon DEF W!ReadHeader
<1>5. PICK b : b = [acc EXCEPT !.seen = yes]
  OBVIOUS
<1>6. b = [ok |-> ok, seen |-> yes, at |-> at, conf |-> [interface |-> i, peers |-> ps]]
  BY <1>2, <1>5, SMT
<1>7. [b EXCEPT !.at = "Interface"]
        = [ok |-> ok, seen |-> yes, at |-> "Interface", conf |-> [interface |-> i, peers |-> ps]]
  BY <1>6, SMT
<1>8. W!ReadHeader(acc, "Interface") = [b EXCEPT !.at = "Interface"]
  BY <1>1, <1>4, <1>5, Zenon DEF Yes
<1> QED BY <1>1, <1>2, <1>7, <1>8, Zenon DEF Acc

\* The header of a peer begins a new one.
LEMMA ReadsPeer ==
    ASSUME NEW ok, NEW at, NEW i, NEW ps, NEW seen
    PROVE  W!ReadHeader(Acc(ok, seen, at, i, ps), "Peer")
             = Acc(ok, seen, "Peer", i, Append(ps, W!NewSection("Peer")))
<1>1. PICK acc : acc = [ok |-> ok, seen |-> seen, at |-> at, conf |-> [interface |-> i, peers |-> ps]]
  OBVIOUS
<1>2. PICK q : q = Append(ps, W!NewSection("Peer"))
  OBVIOUS
<1>3. acc.conf.peers = ps
  BY <1>1
<1>4. W!ReadHeader(acc, "Peer")
        = [acc EXCEPT !.at = "Peer", !.conf.peers = Append(@, W!NewSection("Peer"))]
  <2>1. "Peer" # "Interface"
    OBVIOUS
  <2> QED BY <2>1, Zenon DEF W!ReadHeader
<1>5. PICK b : b = [acc EXCEPT !.at = "Peer"]
  OBVIOUS
<1>6. b = [ok |-> ok, seen |-> seen, at |-> "Peer", conf |-> [interface |-> i, peers |-> ps]]
  BY <1>1, <1>5, SMT
<1>7. [b EXCEPT !.conf.peers = q]
        = [ok |-> ok, seen |-> seen, at |-> "Peer", conf |-> [interface |-> i, peers |-> q]]
  BY <1>6, SMT
<1>8. b.conf.peers = ps
  BY <1>6
<1>9. W!ReadHeader(acc, "Peer") = [b EXCEPT !.conf.peers = q]
  BY <1>2, <1>4, <1>5, <1>8, Zenon
<1> QED BY <1>1, <1>2, <1>7, <1>9, Zenon DEF Acc

\* A pair that is taken, by section.
Taken(at, key, value) ==
    value # <<>> /\ (key \in W!Numbers /\ key \in KeysOf(at) => W!Fits(key, value))

\* A pair that is taken goes to the interface, or to the last peer.
LEMMA PairInterface ==
    ASSUME NEW ok, NEW seen, NEW i, NEW ps, NEW key, NEW value, Taken("Interface", key, value)
    PROVE  W!ReadPair(Acc(ok, seen, "Interface", i, ps), key, value)
             = Acc(ok, seen, "Interface", W!AddPair(i, key, value), ps)
<1>1. PICK acc : acc = [ok |-> ok, seen |-> seen, at |-> "Interface",
                        conf |-> [interface |-> i, peers |-> ps]]
  OBVIOUS
<1>2. PICK j : j = W!AddPair(i, key, value)
  OBVIOUS
<1>3. acc.at = "Interface" /\ acc.conf.interface = i
  BY <1>1
<1>4. W!ReadPair(acc, key, value) = [acc EXCEPT !.conf.interface = j]
  <2>1. "Interface" # "none" /\ "Interface" # "Peer"
    OBVIOUS
  <2> QED BY <1>2, <1>3, <2>1, Zenon DEF W!ReadPair, Taken, KeysOf
<1>5. [acc EXCEPT !.conf.interface = j]
        = [ok |-> ok, seen |-> seen, at |-> "Interface", conf |-> [interface |-> j, peers |-> ps]]
  BY <1>1, SMT
<1> QED BY <1>1, <1>2, <1>4, <1>5, Zenon DEF Acc

\* To the last peer.
LEMMA PairPeer ==
    ASSUME NEW ok, NEW seen, NEW i, NEW ps, NEW key, NEW value, Taken("Peer", key, value)
    PROVE  W!ReadPair(Acc(ok, seen, "Peer", i, ps), key, value)
             = Acc(ok, seen, "Peer", i, [ps EXCEPT ![Len(ps)] = W!AddPair(@, key, value)])
<1>1. PICK acc : acc = [ok |-> ok, seen |-> seen, at |-> "Peer",
                        conf |-> [interface |-> i, peers |-> ps]]
  OBVIOUS
<1>2. PICK j, n : j = W!AddPair(ps[Len(ps)], key, value) /\ n = Len(ps)
  OBVIOUS
<1>3. acc.at = "Peer" /\ acc.conf.peers = ps
  BY <1>1
<1>4. W!ReadPair(acc, key, value) = [acc EXCEPT !.conf.peers[n] = j]
  <2>1. "Peer" # "none" /\ "Interface" # "Peer"
    OBVIOUS
  <2> QED BY <1>2, <1>3, <2>1, Zenon DEF W!ReadPair, Taken, KeysOf
<1>5. [acc EXCEPT !.conf.peers[n] = j]
        = [ok |-> ok, seen |-> seen, at |-> "Peer",
           conf |-> [interface |-> i, peers |-> [ps EXCEPT ![n] = j]]]
  BY <1>1, SMT
<1> QED BY <1>1, <1>2, <1>4, <1>5, Zenon DEF Acc

\* Any other pair is refused.
LEMMA PairRefused ==
    ASSUME NEW ok, NEW seen, NEW at, NEW i, NEW ps, NEW key, NEW value,
           at = "none" \/ ~ Taken(at, key, value)
    PROVE  W!ReadPair(Acc(ok, seen, at, i, ps), key, value) = Acc(No, seen, at, i, ps)
<1>1. PICK acc : acc = [ok |-> ok, seen |-> seen, at |-> at, conf |-> [interface |-> i, peers |-> ps]]
  OBVIOUS
<1>2. acc.at = at
  BY <1>1
<1>3. W!ReadPair(acc, key, value) = W!Fail(acc)
  BY <1>2, Zenon DEF W!ReadPair, Taken, KeysOf
<1>4. W!Fail(Acc(ok, seen, at, i, ps)) = Acc(No, seen, at, i, ps)
  BY ReadFails
<1> QED BY <1>1, <1>3, <1>4, Zenon DEF Acc

At == {"none", "Interface", "Peer"}

\* What parse can know, whatever it has read.
IsAcc(acc) ==
    \E ok \in BOOLEAN, seen \in BOOLEAN, at \in At,
       i \in Section("Interface"), ps \in Seq(Section("Peer")) :
        acc = Acc(ok, seen, at, i, ps) /\ (at = "Peer" => ps # <<>>)

\* A line that has no characters of its own in a pair but those of Piece.
IsLine(line) == line.is = "pair" => line.key \in Key /\ line.value \in Seq(Piece)

\* A state of parse, made of its parts.
LEMMA AccTyped ==
    ASSUME NEW ok \in BOOLEAN, NEW seen \in BOOLEAN, NEW at \in At,
           NEW i \in Section("Interface"), NEW ps \in Seq(Section("Peer")), at = "Peer" => ps # <<>>
    PROVE  IsAcc(Acc(ok, seen, at, i, ps))
BY Zenon DEF IsAcc

\* The two answers, and the places of parse.
LEMMA Bools == Yes \in BOOLEAN /\ No \in BOOLEAN /\ {"none", "Interface", "Peer"} = At
BY DEF Yes, No, At

\* A header leaves a state of parse, with a peer if it says that a peer is read.
LEMMA ReadHeaderAcc ==
    ASSUME NEW acc, IsAcc(acc), NEW name
    PROVE  IsAcc(W!ReadHeader(acc, name))
<1>1. PICK ok \in BOOLEAN, seen \in BOOLEAN, at \in At,
           i \in Section("Interface"), ps \in Seq(Section("Peer")) :
               acc = Acc(ok, seen, at, i, ps) /\ (at = "Peer" => ps # <<>>)
  BY Zenon DEF IsAcc
<1>2. CASE name = "Interface" /\ ~ seen
  <2>1. W!ReadHeader(acc, name) = Acc(ok, Yes, "Interface", i, ps)
    BY <1>1, <1>2, ReadsInterface
  <2> QED BY <2>1, Bools, Zenon DEF IsAcc, At
<1>3. CASE name = "Peer"
  <2>1. W!ReadHeader(acc, name) = Acc(ok, seen, "Peer", i, Append(ps, W!NewSection("Peer")))
    BY <1>1, <1>3, ReadsPeer
  <2>2. /\ Append(ps, W!NewSection("Peer")) \in Seq(Section("Peer"))
        /\ Append(ps, W!NewSection("Peer")) # <<>>
    <3>1. PICK n : n = W!NewSection("Peer") /\ n \in Section("Peer")
      BY NewSectionTyped
    <3>2. PICK T : T = Section("Peer")
      OBVIOUS
    <3>3. ps \in Seq(T) /\ n \in T
      BY <3>1, <3>2
    <3>4. Append(ps, n) \in Seq(T) /\ Append(ps, n) # <<>>
      BY <3>3
    <3> QED BY <3>1, <3>2, <3>4
  <2> QED BY <2>1, <2>2, Zenon DEF IsAcc, At
<1>4. CASE ~ (name = "Interface" /\ ~ seen) /\ name # "Peer"
  <2>1. acc.seen = seen
    BY <1>1 DEF Acc
  <2>2. W!ReadHeader(acc, name) = W!Fail(acc)
    BY <1>4, <2>1, Zenon DEF W!ReadHeader
  <2>3. W!Fail(acc) = Acc(No, seen, at, i, ps)
    BY <1>1, ReadFails
  <2>4. IsAcc(Acc(No, seen, at, i, ps))
    BY <1>1, Bools, AccTyped
  <2> QED BY <2>2, <2>3, <2>4
<1> QED BY <1>2, <1>3, <1>4, Zenon

\* So does a pair.
LEMMA ReadPairAcc ==
    ASSUME NEW acc, IsAcc(acc), NEW key \in Key, NEW value \in Seq(Clear)
    PROVE  IsAcc(W!ReadPair(acc, key, value))
<1>1. PICK ok \in BOOLEAN, seen \in BOOLEAN, at \in At,
           i \in Section("Interface"), ps \in Seq(Section("Peer")) :
               acc = Acc(ok, seen, at, i, ps) /\ (at = "Peer" => ps # <<>>)
  BY Zenon DEF IsAcc
<1>2. CASE at = "Interface" /\ Taken("Interface", key, value)
  <2>1. W!ReadPair(acc, key, value) = Acc(ok, seen, "Interface", W!AddPair(i, key, value), ps)
    BY <1>1, <1>2, PairInterface
  <2>2. W!AddPair(i, key, value) \in Section("Interface")
    BY <1>2, AddPairTyped DEF Taken
  <2> QED BY <2>1, <2>2, Zenon DEF IsAcc, At
<1>3. CASE at = "Peer" /\ Taken("Peer", key, value)
  <2> DEFINE qs == [ps EXCEPT ![Len(ps)] = W!AddPair(@, key, value)]
  <2>1. W!ReadPair(acc, key, value) = Acc(ok, seen, "Peer", i, qs)
    BY <1>1, <1>3, PairPeer
  <2>2. Len(ps) \in 1 .. Len(ps) /\ ps[Len(ps)] \in Section("Peer")
    BY <1>1, <1>3
  <2>3. W!AddPair(ps[Len(ps)], key, value) \in Section("Peer")
    BY <1>3, <2>2, AddPairTyped DEF Taken
  <2>4. qs \in Seq(Section("Peer")) /\ qs # <<>>
    <3>1. PICK T, x, n : T = Section("Peer") /\ x = W!AddPair(ps[Len(ps)], key, value) /\ n = Len(ps)
      OBVIOUS
    <3>2. ps \in Seq(T) /\ x \in T /\ n \in 1 .. Len(ps) /\ n = Len(ps)
      BY <2>2, <2>3, <3>1
    <3>3. [ps EXCEPT ![n] = x] \in Seq(T) /\ [ps EXCEPT ![n] = x] # <<>>
      BY <3>2
    <3>4. qs = [ps EXCEPT ![n] = x]
      BY <3>1
    <3> QED BY <3>1, <3>3, <3>4
  <2> HIDE DEF qs
  <2> QED BY <2>1, <2>4, Zenon DEF IsAcc, At
<1>4. CASE at = "none" \/ ~ Taken(at, key, value)
  <2>1. W!ReadPair(acc, key, value) = Acc(No, seen, at, i, ps)
    BY <1>1, <1>4, PairRefused
  <2>2. IsAcc(Acc(No, seen, at, i, ps))
    BY <1>1, Bools, AccTyped
  <2> QED BY <2>1, <2>2
<1> QED BY <1>1, <1>2, <1>3, <1>4, Zenon DEF At

\* So does any line.
LEMMA ReadLineAcc ==
    ASSUME NEW acc, IsAcc(acc), NEW line, IsLine(line)
    PROVE  IsAcc(W!ReadLine(acc, line))
<1>1. CASE ~ acc.ok \/ line.is \in {"blank", "comment"}
  BY <1>1, Zenon DEF W!ReadLine
<1>2. CASE acc.ok /\ line.is = "section"
  <2>1. W!ReadLine(acc, line) = W!ReadHeader(acc, line.name)
    <3>1. "section" \notin {"blank", "comment"}
      OBVIOUS
    <3> QED BY <1>2, <3>1, Zenon DEF W!ReadLine
  <2> QED BY <2>1, ReadHeaderAcc
<1>3. CASE acc.ok /\ line.is = "pair"
  <2>1. W!ReadLine(acc, line) = W!ReadPair(acc, line.key, W!Uncommented(line.value))
    <3>1. "pair" \notin {"blank", "comment"} /\ "pair" # "section"
      OBVIOUS
    <3> QED BY <1>3, <3>1, Zenon DEF W!ReadLine
  <2>2. line.key \in Key /\ W!Uncommented(line.value) \in Seq(Clear)
    BY <1>3, UncommentedClear DEF IsLine
  <2> QED BY <2>1, <2>2, ReadPairAcc
<1>4. CASE acc.ok /\ line.is \notin {"blank", "comment", "section", "pair"}
  <2>1. W!ReadLine(acc, line) = W!Fail(acc)
    BY <1>4, Zenon DEF W!ReadLine
  <2>2. PICK ok \in BOOLEAN, seen \in BOOLEAN, at \in At,
             i \in Section("Interface"), ps \in Seq(Section("Peer")) :
                 acc = Acc(ok, seen, at, i, ps) /\ (at = "Peer" => ps # <<>>)
    BY Zenon DEF IsAcc
  <2>3. W!Fail(acc) = Acc(No, seen, at, i, ps)
    BY <2>2, ReadFails
  <2>4. IsAcc(Acc(No, seen, at, i, ps))
    BY <2>2, Bools, AccTyped
  <2> QED BY <2>1, <2>3, <2>4
<1> QED BY <1>1, <1>2, <1>3, <1>4, Zenon

\* What parse begins with, and what it gives of any lines.
Start == Acc(Yes, No, "none", W!NewSection("Interface"), <<>>)

\* parse begins with such a state.
LEMMA StartAcc == IsAcc(Start)
<1>1. W!NewSection("Interface") \in Section("Interface")
  BY NewSectionTyped
<1>2. <<>> \in Seq(Section("Peer"))
  OBVIOUS
<1>3. "none" \in At /\ "none" # "Peer"
  BY DEF At
<1> QED BY <1>1, <1>2, <1>3, Bools, AccTyped DEF Start

Conf(i, ps) == [interface |-> i, peers |-> ps]

\* parse is the fold from the start, and what it says at its end.
LEMMA ParseStart ==
    ASSUME NEW lines
    PROVE  W!Parse(lines) = [ok |-> Read(Start, lines).ok /\ Read(Start, lines).seen,
                             conf |-> Read(Start, lines).conf]
BY Zenon DEF W!Parse, Acc, Start, Read, Yes, No

\* Whatever lines are read, what parse knows is such a state.
LEMMA ReadTyped ==
    ASSUME NEW S, \A l \in S : IsLine(l)
    PROVE  \A s \in Seq(S) : IsAcc(Read(Start, s))
<1> DEFINE T == {s \in Seq(S) : IsAcc(Read(Start, s))}
<1>1. <<>> \in T
  <2>1. <<>> \in Seq(S)
    OBVIOUS
  <2>2. Read(Start, <<>>) = Start
    BY ReadFold
  <2> QED BY <2>1, <2>2, StartAcc
<1>2. ASSUME NEW s \in Seq(S), NEW l \in S, s \in T PROVE Append(s, l) \in T
  <2>1. Append(s, l) \in Seq(S)
    OBVIOUS
  <2>2. Read(Start, Append(s, l)) = W!ReadLine(Read(Start, s), l)
    BY ReadFold
  <2>3. IsAcc(Read(Start, s)) /\ IsLine(l)
    BY <1>2
  <2>4. IsAcc(W!ReadLine(Read(Start, s), l))
    BY <2>3, ReadLineAcc
  <2> QED BY <2>1, <2>2, <2>4
<1>3. Seq(S) \subseteq T
  <2> HIDE DEF T
  <2> QED BY <1>1, <1>2, Reading!SeqInd
<1> QED BY <1>3

\* The configuration that parse gives of any lines.
LEMMA ParseTyped ==
    ASSUME NEW S, \A l \in S : IsLine(l), NEW lines \in Seq(S)
    PROVE  \E i \in Section("Interface"), ps \in Seq(Section("Peer")) :
              W!Parse(lines).conf = Conf(i, ps)
<1>1. IsAcc(Read(Start, lines))
  BY ReadTyped
<1>2. PICK ok \in BOOLEAN, seen \in BOOLEAN, at \in At,
           i \in Section("Interface"), ps \in Seq(Section("Peer")) :
               Read(Start, lines) = Acc(ok, seen, at, i, ps)
  BY <1>1, Zenon DEF IsAcc
<1>3. Read(Start, lines).conf = Conf(i, ps)
  BY <1>2 DEF Acc, Conf
<1>4. W!Parse(lines).conf = Conf(i, ps)
  BY <1>3, ParseStart
<1> QED BY <1>4

-----------------------------------------------------------------------------
(* What render writes is read again. *)

\* The lines that render writes.
Rendered == {W!Header(name) : name \in {"Interface", "Peer"}} \cup {W!Pair(key, v) : key \in Key, v \in Seq(Clear)}

\* What parse knows when it is at a section, and that it is at its end.
Cur(name, i, ps, sec) ==
    IF name = "Peer" THEN Acc(Yes, Yes, "Peer", i, Append(ps, sec))
    ELSE Acc(Yes, Yes, "Interface", sec, <<>>)

\* A pair that is taken is added to the section that parse is at.
LEMMA PairRead ==
    ASSUME NEW name \in {"Interface", "Peer"}, NEW i, NEW ps \in Seq(Section("Peer")),
           NEW sec \in Section(name), NEW key \in Key, NEW value \in Seq(Clear),
           Taken(name, key, value)
    PROVE  /\ W!ReadLine(Cur(name, i, ps, sec), W!Pair(key, value))
                = Cur(name, i, ps, W!AddPair(sec, key, value))
           /\ W!AddPair(sec, key, value) \in Section(name)
<1> DEFINE acc == Cur(name, i, ps, sec)
           new == W!AddPair(sec, key, value)
<1>1. new \in Section(name)
  BY AddPairTyped DEF Taken
<1>2. acc.ok
  <2>1. \A at, j, qs : Acc(Yes, Yes, at, j, qs).ok = Yes
    BY DEF Acc
  <2>2. acc.ok = Yes
    BY <2>1 DEF Cur
  <2> HIDE DEF acc
  <2> QED BY <2>2, Zenon DEF Yes
<1>3. W!ReadLine(acc, W!Pair(key, value)) = W!ReadPair(acc, key, value)
  <2>1. PICK l : l = W!Pair(key, value)
    OBVIOUS
  <2>2. l.is = "pair" /\ l.key = key /\ l.value = value
    BY <2>1 DEF W!Pair
  <2>3. "pair" \notin {"blank", "comment"} /\ "pair" # "section"
    OBVIOUS
  <2>4. W!ReadLine(acc, l) = W!ReadPair(acc, key, W!Uncommented(value))
    <3> HIDE DEF acc
    <3> QED BY <1>2, <2>2, <2>3, Zenon DEF W!ReadLine
  <2>5. W!Uncommented(value) = value
    BY UncommentedSame
  <2> QED BY <2>1, <2>4, <2>5
<1>4. CASE name = "Interface"
  <2>1. W!ReadPair(acc, key, value) = Acc(Yes, Yes, "Interface", new, <<>>)
    BY <1>4, PairInterface DEF Cur
  <2> QED BY <1>1, <1>3, <1>4, <2>1 DEF Cur
<1>5. CASE name = "Peer"
  <2>1. PICK q : q = Append(ps, sec)
    OBVIOUS
  <2>2. acc = Acc(Yes, Yes, "Peer", i, q)
    BY <1>5, <2>1 DEF Cur
  <2>3. W!ReadPair(Acc(Yes, Yes, "Peer", i, q), key, value)
          = Acc(Yes, Yes, "Peer", i, [q EXCEPT ![Len(q)] = W!AddPair(@, key, value)])
    BY <1>5, PairPeer
  <2>4. q[Len(q)] = sec /\ [q EXCEPT ![Len(q)] = new] = Append(ps, new)
    <3> HIDE DEF new
    <3>1. PICK T : T = Section("Peer")
      OBVIOUS
    <3>2. sec \in T /\ new \in T /\ ps \in Seq(T)
      BY <1>1, <1>5, <3>1
    <3> QED BY <2>1, <3>2, Reading!LastReplaced
  <2>5. [q EXCEPT ![Len(q)] = W!AddPair(@, key, value)] = Append(ps, new)
    BY <2>4
  <2>6. W!ReadPair(acc, key, value) = Acc(Yes, Yes, "Peer", i, Append(ps, new))
    BY <2>2, <2>3, <2>5
  <2> HIDE DEF acc, new
  <2>7. W!ReadPair(acc, key, value) = Cur(name, i, ps, new)
    BY <1>5, <2>6 DEF Cur
  <2> QED BY <1>1, <1>3, <2>7 DEF acc, new
<1> QED BY <1>4, <1>5

\* A header brings parse to a new section.
LEMMA HeaderRead ==
    /\ \A ps : W!ReadLine(Start, W!Header("Interface"))
                 = Cur("Interface", W!NewSection("Interface"), ps, W!NewSection("Interface"))
    /\ \A at, i, ps : W!ReadLine(Acc(Yes, Yes, at, i, ps), W!Header("Peer"))
                        = Cur("Peer", i, ps, W!NewSection("Peer"))
<1>1. ASSUME NEW acc, acc.ok, NEW name
      PROVE  W!ReadLine(acc, W!Header(name)) = W!ReadHeader(acc, name)
  <2>1. PICK l : l = W!Header(name)
    OBVIOUS
  <2>2. l.is = "section" /\ l.name = name
    BY <2>1 DEF W!Header
  <2>3. "section" \notin {"blank", "comment"}
    OBVIOUS
  <2> QED BY <1>1, <2>1, <2>2, <2>3, Zenon DEF W!ReadLine
<1>2. ASSUME NEW seen, NEW at, NEW i, NEW ps PROVE Acc(Yes, seen, at, i, ps).ok
  <2>1. Acc(Yes, seen, at, i, ps).ok = Yes
    BY DEF Acc
  <2> QED BY <2>1, Zenon DEF Yes
<1>3. ASSUME NEW ps
      PROVE  W!ReadLine(Start, W!Header("Interface"))
               = Cur("Interface", W!NewSection("Interface"), ps, W!NewSection("Interface"))
  <2>1. ~ No
    BY Zenon DEF No
  <2>2. W!ReadHeader(Start, "Interface") = Acc(Yes, Yes, "Interface", W!NewSection("Interface"), <<>>)
    BY <2>1, ReadsInterface DEF Start
  <2>3. Start.ok
    BY <1>2, Zenon DEF Start
  <2>4. "Interface" # "Peer"
    OBVIOUS
  <2> QED BY <1>1, <2>2, <2>3, <2>4, Zenon DEF Cur
<1>4. ASSUME NEW at, NEW i, NEW ps
      PROVE  W!ReadLine(Acc(Yes, Yes, at, i, ps), W!Header("Peer"))
               = Cur("Peer", i, ps, W!NewSection("Peer"))
  <2>1. W!ReadHeader(Acc(Yes, Yes, at, i, ps), "Peer")
          = Acc(Yes, Yes, "Peer", i, Append(ps, W!NewSection("Peer")))
    BY ReadsPeer
  <2> QED BY <1>1, <1>2, <2>1, Zenon DEF Cur
<1> QED BY <1>3, <1>4

\* One line alone.
LEMMA ReadOne ==
    ASSUME NEW acc, NEW l
    PROVE  Read(acc, <<l>>) = W!ReadLine(acc, l)
<1>1. PICK S : S = {l}
  OBVIOUS
<1>2. PICK s : s = <<>>
  OBVIOUS
<1>3. s \in Seq(S) /\ l \in S /\ <<l>> = Append(s, l)
  BY <1>1, <1>2
<1>4. Read(acc, Append(s, l)) = W!ReadLine(Read(acc, s), l)
  BY <1>3, ReadFold
<1>5. Read(acc, <<>>) = acc
  BY ReadFold
<1> QED BY <1>2, <1>3, <1>4, <1>5

\* What is written of a key sets it, in a section that has nothing of it.
LEMMA RenderKnownRead ==
    ASSUME NEW name \in {"Interface", "Peer"}, NEW i, NEW ps \in Seq(Section("Peer")),
           NEW f \in Values(name), NEW e, NEW g \in Values(name), NEW key \in KeysOf(name),
           key \in Key, g[key] = <<>>
    PROVE  /\ W!RenderKnown(Sec(f, e), key) \in Seq(Rendered)
           /\ Read(Cur(name, i, ps, Sec(g, <<>>)), W!RenderKnown(Sec(f, e), key))
                = Cur(name, i, ps, Sec([g EXCEPT ![key] = f[key]], <<>>))
<1>1. PICK x : x = f[key]
  OBVIOUS
<1>2. x \in Allowed(key) /\ x \in Seq(Clear) /\ key \in DOMAIN g /\ g \in [KeysOf(name) -> Seq(Clear)]
  BY <1>1 DEF Values
<1>3. Sec(f, e).known = f
  BY DEF Sec
<1>4. CASE x = <<>>
  <2>1. W!RenderKnown(Sec(f, e), key) = <<>>
    BY <1>1, <1>3, <1>4, Zenon DEF W!RenderKnown
  <2>2. <<>> \in Seq(Rendered)
    OBVIOUS
  <2>3. [g EXCEPT ![key] = x] = g
    BY <1>2, <1>4
  <2> QED BY <1>1, <2>1, <2>2, <2>3, ReadFold
<1>5. CASE x # <<>>
  <2>1. PICK v : v = IF key \in W!Lists THEN W!Join(x) ELSE x
    OBVIOUS
  <2>2. W!RenderKnown(Sec(f, e), key) = <<W!Pair(key, v)>>
    BY <1>1, <1>3, <1>5, <2>1, Zenon DEF W!RenderKnown
  <2>3. v \in Seq(Clear) /\ v # <<>> /\ NewValue(<<>>, key, v) = x
        /\ (key \in W!Numbers => W!Fits(key, v))
    <3>1. CASE key \in W!Lists
      <4>1. x \in Seq(Item) /\ v = W!Join(x)
        BY <1>2, <2>1, <3>1 DEF Allowed
      <4>2. v \in Seq(Clear) /\ v # <<>> /\ W!SplitList(v) = x
        BY <1>5, <4>1, SplitJoined
      <4>3. NewValue(<<>>, key, v) = <<>> \o x
        BY <3>1, <4>2, Separate, Zenon DEF NewValue
      <4>4. <<>> \o x = x
        BY <4>1
      <4>5. key \notin W!Numbers
        BY <3>1, Separate
      <4> QED BY <4>2, <4>3, <4>4, <4>5
    <3>2. CASE key \in W!Numbers
      <4>1. key \notin W!Lists /\ v = x
        BY <2>1, <3>2, Separate
      <4>2. PICK d \in Numerals(key) : x = <<d>>
        BY <1>2, <1>5, <3>2, <4>1 DEF Allowed
      <4>3. W!Canonical[d] = d /\ W!Fits(key, <<d>>)
        BY DEF Numerals
      <4>4. NewValue(<<>>, key, v) = <<W!Canonical[v[1]]>>
        BY <3>2, <4>1, Zenon DEF NewValue
      <4>5. v[1] = d
        BY <4>1, <4>2
      <4> QED BY <1>2, <1>5, <4>1, <4>2, <4>3, <4>4, <4>5
    <3>3. CASE key \notin W!Lists /\ key \notin W!Numbers
      <4>1. v = x
        BY <2>1, <3>3
      <4>2. NewValue(<<>>, key, v) = v
        BY <3>3, Zenon DEF NewValue
      <4> QED BY <1>2, <1>5, <3>3, <4>1, <4>2
    <3> QED BY <3>1, <3>2, <3>3
  <2>4. Sec(g, <<>>) \in Section(name)
    <3>1. <<>> \in Seq(Extras(name))
      OBVIOUS
    <3> QED BY <3>1, SecTyped
  <2>5. Taken(name, key, v)
    BY <2>3 DEF Taken
  <2>6. W!ReadLine(Cur(name, i, ps, Sec(g, <<>>)), W!Pair(key, v))
          = Cur(name, i, ps, W!AddPair(Sec(g, <<>>), key, v))
    BY <2>3, <2>4, <2>5, PairRead
  <2>7. W!AddPair(Sec(g, <<>>), key, v) = Sec([g EXCEPT ![key] = NewValue(g[key], key, v)], <<>>)
    <3>1. PICK none : none = <<>>
      OBVIOUS
    <3>2. W!AddPair(Sec(g, none), key, v) = Sec([g EXCEPT ![key] = NewValue(g[key], key, v)], none)
      <4>1. key \in DOMAIN g
        BY <1>2
      <4> QED BY <4>1, AddPairKnown
    <3> QED BY <3>1, <3>2
  <2>8. W!AddPair(Sec(g, <<>>), key, v) = Sec([g EXCEPT ![key] = x], <<>>)
    BY <2>3, <2>7
  <2>9. <<W!Pair(key, v)>> \in Seq(Rendered)
    <3>1. PICK l : l = W!Pair(key, v)
      OBVIOUS
    <3>2. l \in Rendered
      BY <2>3, <3>1 DEF Rendered
    <3> QED BY <3>1, <3>2
  <2> QED BY <1>1, <2>2, <2>6, <2>8, <2>9, ReadOne
<1> QED BY <1>4, <1>5

\* The keys of a section are different.
LEMMA KeysDiffer ==
    ASSUME NEW name \in {"Interface", "Peer"}
    PROVE  /\ Len(W!Keys[name]) \in Nat /\ DOMAIN W!Keys[name] = 1 .. Len(W!Keys[name])
           /\ KeysOf(name) = {W!Keys[name][k] : k \in 1 .. Len(W!Keys[name])}
           /\ KeysOf(name) \subseteq Key
           /\ \A j, k \in 1 .. Len(W!Keys[name]) : W!Keys[name][j] = W!Keys[name][k] => j = k
<1>1. PICK ks : ks = W!Keys[name]
  OBVIOUS
<1>2. /\ DOMAIN ks = 1 .. Len(ks) /\ Len(ks) \in Nat
      /\ \A j, k \in 1 .. Len(ks) : ks[j] = ks[k] => j = k
  <2>1. CASE name = "Interface"
    <3>1. ks = <<"PrivateKey", "Address", "DNS", "ListenPort", "Fwmark", "MTU">>
      BY <1>1, <2>1 DEF W!Keys
    <3>2. /\ Len(ks) = 6 /\ ks[1] = "PrivateKey" /\ ks[2] = "Address" /\ ks[3] = "DNS"
          /\ ks[4] = "ListenPort" /\ ks[5] = "Fwmark" /\ ks[6] = "MTU"
      BY <3>1
    <3>4. DOMAIN ks = 1 .. 6
      BY <3>1
    <3>3. \A j \in 1 .. 6 : j \in {1, 2, 3, 4, 5, 6}
      OBVIOUS
    <3> QED BY <3>2, <3>3, <3>4
  <2>2. CASE name = "Peer"
    <3>1. ks = <<"PublicKey", "PresharedKey", "AllowedIPs", "Endpoint", "PersistentKeepalive">>
      BY <1>1, <2>2 DEF W!Keys
    <3>2. /\ Len(ks) = 5 /\ ks[1] = "PublicKey" /\ ks[2] = "PresharedKey"
          /\ ks[3] = "AllowedIPs" /\ ks[4] = "Endpoint" /\ ks[5] = "PersistentKeepalive"
      BY <3>1
    <3>4. DOMAIN ks = 1 .. 5
      BY <3>1
    <3>3. \A j \in 1 .. 5 : j \in {1, 2, 3, 4, 5}
      OBVIOUS
    <3> QED BY <3>2, <3>3, <3>4
  <2> QED BY <2>1, <2>2
<1>3. KeysOf(name) = {ks[k] : k \in DOMAIN ks}
  BY <1>1, Zenon DEF KeysOf, W!ToSet
<1>4. KeysOf(name) \subseteq Key
  BY DEF Key
<1> QED BY <1>1, <1>2, <1>3, <1>4

\* What is written of the first keys of a section, and what it says.
KeyLines(name, sec, n) == [k \in 1 .. n |-> W!RenderKnown(sec, W!Keys[name][k])]

FirstKeys(name, f, n) ==
    [k \in KeysOf(name) |-> IF \E j \in 1 .. n : W!Keys[name][j] = k THEN f[k] ELSE <<>>]

\* The first keys are values of a section.
LEMMA FirstKeysTyped ==
    ASSUME NEW name, NEW f \in Values(name), NEW n
    PROVE  FirstKeys(name, f, n) \in Values(name)
<1> DEFINE g == FirstKeys(name, f, n)
<1>1. \A k \in KeysOf(name) : f[k] \in Allowed(k) /\ <<>> \in Allowed(k) /\ Allowed(k) \subseteq Seq(Clear)
  BY AllowedClear DEF Values
<1>2. \A k \in KeysOf(name) : g[k] \in Allowed(k) /\ g[k] \in Seq(Clear)
  BY <1>1 DEF FirstKeys
<1>3. g = [k \in KeysOf(name) |-> g[k]]
  BY DEF FirstKeys
<1> HIDE DEF g
<1>4. g \in [KeysOf(name) -> Seq(Clear)]
  BY <1>2, <1>3
<1> QED BY <1>2, <1>4 DEF Values, g

\* The keys that are written are read, from the first to the last.
KeysRead(name, i, ps, f, e, n) ==
    /\ W!FlattenSeq(KeyLines(name, Sec(f, e), n)) \in Seq(Rendered)
    /\ Read(Cur(name, i, ps, W!NewSection(name)), W!FlattenSeq(KeyLines(name, Sec(f, e), n)))
         = Cur(name, i, ps, Sec(FirstKeys(name, f, n), <<>>))

\* Of every number of keys, so of all.
LEMMA AllKeysRead ==
    ASSUME NEW name \in {"Interface", "Peer"}, NEW i, NEW ps \in Seq(Section("Peer")),
           NEW f \in Values(name), NEW e
    PROVE  KeysRead(name, i, ps, f, e, Len(W!Keys[name]))
<1> DEFINE ks == W!Keys[name]
           P(n) == KeysRead(name, i, ps, f, e, n)
           T == {n \in Nat : n <= Len(ks) => P(n)}
           acc == Cur(name, i, ps, W!NewSection(name))
           sec == Sec(f, e)
<1>1. 0 \in T
  <2>1. KeyLines(name, sec, 0) = <<>>
    BY DEF KeyLines
  <2>2. FirstKeys(name, f, 0) = [k \in KeysOf(name) |-> <<>>]
    BY DEF FirstKeys
  <2>3. W!NewSection(name) = Sec(FirstKeys(name, f, 0), <<>>)
    BY <2>2, Zenon DEF W!NewSection, Sec, KeysOf
  <2>4. W!FlattenSeq(KeyLines(name, sec, 0)) = <<>>
    BY <2>1, Flatten
  <2>5. <<>> \in Seq(Rendered)
    OBVIOUS
  <2>6. Read(acc, <<>>) = acc
    BY ReadFold
  <2>7. P(0)
    BY <2>3, <2>4, <2>5, <2>6 DEF KeysRead
  <2> HIDE DEF P
  <2> QED BY <2>7
<1>2. ASSUME NEW n \in Nat, n \in T PROVE n + 1 \in T
  <2> SUFFICES ASSUME n + 1 <= Len(ks) PROVE P(n + 1)
    <3> HIDE DEF P
    <3> QED OBVIOUS
  <2>1. P(n)
    <3> HIDE DEF P
    <3> QED BY <1>2, KeysDiffer
  <2> DEFINE key == ks[n + 1]
             g == FirstKeys(name, f, n)
             s == KeyLines(name, sec, n)
             t == KeyLines(name, sec, n + 1)
  <2>2. /\ key \in KeysOf(name) /\ key \in Key /\ \A j \in 1 .. n : ks[j] # key
        /\ \A k \in 1 .. n + 1 : k \in 1 .. Len(ks) /\ ks[k] \in KeysOf(name)
    <3>1. n + 1 \in 1 .. Len(ks) /\ \A j \in 1 .. n : j \in 1 .. Len(ks) /\ j # n + 1
      BY KeysDiffer
    <3>2. \A k \in 1 .. n + 1 : k \in 1 .. Len(ks)
      BY KeysDiffer
    <3> HIDE DEF ks
    <3> QED BY <3>1, <3>2, KeysDiffer DEF ks
  <2>3. g \in Values(name) /\ g[key] = <<>>
    BY <2>2, FirstKeysTyped DEF FirstKeys
  <2>4. [g EXCEPT ![key] = f[key]] = FirstKeys(name, f, n + 1)
    <3>1. \A k \in KeysOf(name) :
              (\E j \in 1 .. n + 1 : ks[j] = k) <=> k = key \/ \E j \in 1 .. n : ks[j] = k
      <4>1. \A j \in 1 .. n + 1 : j = n + 1 \/ j \in 1 .. n
        OBVIOUS
      <4>2. n + 1 \in 1 .. n + 1 /\ \A j \in 1 .. n : j \in 1 .. n + 1
        OBVIOUS
      <4> HIDE DEF ks
      <4> QED BY <4>1, <4>2
    <3> HIDE DEF key
    <3>2. [g EXCEPT ![key] = f[key]]
            = [k \in KeysOf(name) |-> IF k = key THEN f[k] ELSE g[k]]
      BY <2>2 DEF FirstKeys
    <3> QED BY <3>1, <3>2 DEF FirstKeys
  <2>5. \A k \in 1 .. n + 1 : W!RenderKnown(sec, ks[k]) \in Seq(Rendered)
    <3> SUFFICES ASSUME NEW k \in 1 .. n + 1 PROVE W!RenderKnown(sec, ks[k]) \in Seq(Rendered)
      OBVIOUS
    <3>1. ks[k] \in KeysOf(name) /\ ks[k] \in Key
      BY <2>2, KeysDiffer
    <3>2. FirstKeys(name, f, 0) \in Values(name) /\ FirstKeys(name, f, 0)[ks[k]] = <<>>
      <4>1. FirstKeys(name, f, 0) = [x \in KeysOf(name) |-> <<>>]
        BY DEF FirstKeys
      <4> HIDE DEF ks
      <4> QED BY <3>1, <4>1, FirstKeysTyped
    <3> HIDE DEF ks, sec
    <3> QED BY <3>1, <3>2, RenderKnownRead DEF sec
  <2>6. s \in Seq(Seq(Rendered)) /\ t[n + 1] \in Seq(Rendered) /\ t = Append(s, t[n + 1])
        /\ t[n + 1] = W!RenderKnown(sec, key)
    <3>1. s = [k \in 1 .. n |-> W!RenderKnown(sec, ks[k])]
          /\ t = [k \in 1 .. n + 1 |-> W!RenderKnown(sec, ks[k])]
      BY DEF KeyLines
    <3>2. PICK S : S = Seq(Rendered)
      OBVIOUS
    <3> HIDE DEF s, t, ks, sec
    <3>3. Reading!OneLonger(s, t, n, S)
      <4>1. \A k \in 1 .. n : k \in 1 .. n + 1
        OBVIOUS
      <4> QED BY <2>5, <3>1, <3>2, <4>1 DEF Reading!OneLonger
    <3>4. s \in Seq(S) /\ t[n + 1] \in S /\ t = Append(s, t[n + 1])
      BY <3>3, Reading!AppendMap DEF Reading!Appended
    <3>5. n + 1 \in 1 .. n + 1
      OBVIOUS
    <3>6. t[n + 1] = W!RenderKnown(sec, key)
      BY <3>1, <3>5
    <3> QED BY <3>2, <3>4, <3>6
  <2> HIDE DEF s, t, g, key, ks, sec
  <2>7. W!FlattenSeq(t) = W!FlattenSeq(s) \o W!RenderKnown(sec, key)
    <3>1. PICK q : q = t[n + 1]
      OBVIOUS
    <3>2. W!FlattenSeq(Append(s, q)) = W!FlattenSeq(s) \o q
      BY <2>6, <3>1, Flatten
    <3> QED BY <2>6, <3>1, <3>2
  <2>8. /\ W!RenderKnown(sec, key) \in Seq(Rendered)
        /\ Read(Cur(name, i, ps, Sec(g, <<>>)), W!RenderKnown(sec, key))
             = Cur(name, i, ps, Sec([g EXCEPT ![key] = f[key]], <<>>))
    BY <2>2, <2>3, RenderKnownRead DEF sec
  <2>9. W!FlattenSeq(s) \in Seq(Rendered) /\ Read(acc, W!FlattenSeq(s)) = Cur(name, i, ps, Sec(g, <<>>))
    BY <2>1, Zenon DEF KeysRead, s, sec, g
  <2>10. W!FlattenSeq(t) \in Seq(Rendered)
    BY <2>7, <2>8, <2>9
  <2>11. Read(acc, W!FlattenSeq(t)) = Cur(name, i, ps, Sec(FirstKeys(name, f, n + 1), <<>>))
    <3>1. PICK a, b : a = W!FlattenSeq(s) /\ b = W!RenderKnown(sec, key)
      OBVIOUS
    <3>2. Read(acc, a \o b) = Read(Read(acc, a), b)
      <4> HIDE DEF acc
      <4> QED BY <2>8, <2>9, <3>1, ReadFold
    <3> QED BY <2>4, <2>7, <2>8, <2>9, <3>1, <3>2
  <2> QED BY <2>10, <2>11, Zenon DEF KeysRead, t, sec
<1>3. Nat \subseteq T
  <2> HIDE DEF T
  <2> QED BY <1>1, <1>2, Reading!NatInd
<1>4. Len(ks) \in Nat /\ Len(ks) <= Len(ks)
  BY KeysDiffer
<1> HIDE DEF ks, P
<1>5. P(Len(ks))
  BY <1>3, <1>4
<1> QED BY <1>5 DEF P, ks

\* The first keys, when they are all, are what is known.
LEMMA LastKeys ==
    ASSUME NEW name \in {"Interface", "Peer"}, NEW f \in Values(name)
    PROVE  FirstKeys(name, f, Len(W!Keys[name])) = f
<1>1. f \in [KeysOf(name) -> Seq(Clear)]
  BY DEF Values
<1>2. \A k \in KeysOf(name) : \E j \in 1 .. Len(W!Keys[name]) : W!Keys[name][j] = k
  BY KeysDiffer
<1>3. FirstKeys(name, f, Len(W!Keys[name])) = [k \in KeysOf(name) |-> f[k]]
  BY <1>2, Zenon DEF FirstKeys
<1> QED BY <1>1, <1>3

\* The pairs that are kept as they are.
ExtraLines(e) == [k \in DOMAIN e |-> W!Pair(e[k][1], e[k][2])]

ExtrasRead(name, i, ps, f, e) ==
    /\ ExtraLines(e) \in Seq(Rendered)
    /\ Read(Cur(name, i, ps, Sec(f, <<>>)), ExtraLines(e)) = Cur(name, i, ps, Sec(f, e))

\* One pair more is one line more.
LEMMA ExtraAppend ==
    ASSUME NEW S, NEW e \in Seq(S), NEW x \in S
    PROVE  ExtraLines(Append(e, x)) = Append(ExtraLines(e), W!Pair(x[1], x[2]))
<1> DEFINE R == {W!Pair(y[1], y[2]) : y \in S}
<1>1. PICK n, d : n = Len(e) /\ d = Append(e, x)
  OBVIOUS
<1>2. /\ n \in Nat /\ DOMAIN e = 1 .. n /\ DOMAIN d = 1 .. n + 1 /\ d[n + 1] = x
      /\ \A k \in 1 .. n : d[k] = e[k]
      /\ \A k \in 1 .. n + 1 : d[k] \in S
  BY <1>1
<1>3. PICK s, t : s = ExtraLines(e) /\ t = ExtraLines(d)
  OBVIOUS
<1>4. s = [k \in 1 .. n |-> W!Pair(e[k][1], e[k][2])]
      /\ t = [k \in 1 .. n + 1 |-> W!Pair(d[k][1], d[k][2])]
  BY <1>2, <1>3, Zenon DEF ExtraLines
<1>5. Reading!OneLonger(s, t, n, R)
  <2>1. \A k \in 1 .. n : k \in 1 .. n + 1
    BY <1>2
  <2>2. \A k \in 1 .. n + 1 : t[k] \in R
    BY <1>2, <1>4
  <2>3. \A k \in 1 .. n : s[k] = t[k]
    BY <1>2, <1>4, <2>1
  <2> HIDE DEF R
  <2> QED BY <1>4, <2>2, <2>3 DEF Reading!OneLonger
<1>6. s \in Seq(R) /\ t[n + 1] \in R /\ t = Append(s, t[n + 1])
  <2> HIDE DEF R
  <2>1. n \in Nat
    BY <1>2
  <2>2. Reading!Appended(s, t, n, R)
    BY <1>5, <2>1, Reading!AppendMap
  <2> QED BY <2>2 DEF Reading!Appended
<1>7. n + 1 \in 1 .. n + 1
  BY <1>2
<1>8. t[n + 1] = W!Pair(x[1], x[2])
  BY <1>2, <1>4, <1>7
<1> QED BY <1>1, <1>3, <1>6, <1>8

\* The extra pairs are read as they were, in their order.
LEMMA AllExtrasRead ==
    ASSUME NEW name \in {"Interface", "Peer"}, NEW i, NEW ps \in Seq(Section("Peer")),
           NEW f \in Values(name), NEW e \in Seq(Extras(name))
    PROVE  ExtrasRead(name, i, ps, f, e)
<1> DEFINE P(d) == ExtrasRead(name, i, ps, f, d)
           T == {d \in Seq(Extras(name)) : P(d)}
           acc == Cur(name, i, ps, Sec(f, <<>>))
<1>1. <<>> \in T
  <2>1. <<>> \in Seq(Extras(name)) /\ <<>> \in Seq(Rendered)
    OBVIOUS
  <2>2. ExtraLines(<<>>) = <<>>
    BY DEF ExtraLines
  <2>3. Read(acc, <<>>) = acc
    BY ReadFold
  <2> QED BY <2>1, <2>2, <2>3 DEF ExtrasRead
<1>2. ASSUME NEW d \in Seq(Extras(name)), NEW x \in Extras(name), d \in T PROVE Append(d, x) \in T
  <2>1. P(d)
    <3> HIDE DEF P
    <3> QED BY <1>2
  <2>2. PICK key, value : x = <<key, value>> /\ key \in Key /\ key \notin KeysOf(name)
                          /\ value \in Seq(Clear) /\ value # <<>>
    BY DEF Extras
  <2>3. PICK l : l = W!Pair(key, value)
    OBVIOUS
  <2>4. ExtraLines(Append(d, x)) = Append(ExtraLines(d), l)
    <3>1. ExtraLines(Append(d, x)) = Append(ExtraLines(d), W!Pair(x[1], x[2]))
      <4>1. PICK S : S = Extras(name)
        OBVIOUS
      <4>2. d \in Seq(S) /\ x \in S
        BY <4>1
      <4> QED BY <4>2, ExtraAppend
    <3> QED BY <2>2, <2>3, <3>1
  <2>5. l \in Rendered
    BY <2>2, <2>3 DEF Rendered
  <2>6. Sec(f, d) \in Section(name) /\ Taken(name, key, value)
    BY <2>2, SecTyped DEF Taken
  <2>7. W!ReadLine(Cur(name, i, ps, Sec(f, d)), l)
          = Cur(name, i, ps, W!AddPair(Sec(f, d), key, value))
    BY <2>2, <2>3, <2>6, PairRead
  <2>8. W!AddPair(Sec(f, d), key, value) = Sec(f, Append(d, x))
    <3>1. DOMAIN f = KeysOf(name)
      BY DEF Values
    <3> QED BY <2>2, <3>1, AddPairExtra
  <2>9. ExtraLines(d) \in Seq(Rendered) /\ Read(acc, ExtraLines(d)) = Cur(name, i, ps, Sec(f, d))
    BY <2>1, Zenon DEF ExtrasRead
  <2>10. Append(ExtraLines(d), l) \in Seq(Rendered)
    BY <2>5, <2>9
  <2>11. Read(acc, Append(ExtraLines(d), l)) = W!ReadLine(Read(acc, ExtraLines(d)), l)
    <3> HIDE DEF acc
    <3> QED BY <2>5, <2>9, ReadFold
  <2>12. P(Append(d, x))
    BY <2>4, <2>7, <2>8, <2>9, <2>10, <2>11, Zenon DEF ExtrasRead
  <2>13. Append(d, x) \in Seq(Extras(name))
    OBVIOUS
  <2> HIDE DEF P
  <2> QED BY <2>12, <2>13
<1>3. Seq(Extras(name)) \subseteq T
  <2> HIDE DEF T
  <2> QED BY <1>1, <1>2, Reading!SeqInd
<1> HIDE DEF P
<1>4. P(e)
  BY <1>3
<1> QED BY <1>4 DEF P

\* A section that is written is read, from its header on.
LEMMA SectionRead ==
    ASSUME NEW name \in {"Interface", "Peer"}, NEW i, NEW ps \in Seq(Section("Peer")),
           NEW sec \in Section(name), NEW acc,
           W!ReadLine(acc, W!Header(name)) = Cur(name, i, ps, W!NewSection(name))
    PROVE  /\ W!RenderSection(name, sec) \in Seq(Rendered)
           /\ Read(acc, W!RenderSection(name, sec)) = Cur(name, i, ps, sec)
<1>1. PICK f \in Values(name), e \in Seq(Extras(name)) : sec = Sec(f, e)
  BY SecTyped
<1>2. PICK a, b, c : /\ a = <<W!Header(name)>>
                     /\ b = W!FlattenSeq(KeyLines(name, Sec(f, e), Len(W!Keys[name])))
                     /\ c = ExtraLines(e)
  OBVIOUS
<1>3. W!RenderSection(name, sec) = a \o b \o c
  <2>1. sec.extra = e
    BY <1>1 DEF Sec
  <2>2. DOMAIN W!Keys[name] = 1 .. Len(W!Keys[name])
    BY KeysDiffer
  <2> QED BY <1>1, <1>2, <2>1, <2>2, Zenon DEF W!RenderSection, KeyLines, ExtraLines
<1>4. a \in Seq(Rendered) /\ Read(acc, a) = Cur(name, i, ps, W!NewSection(name))
  <2>1. PICK h : h = W!Header(name)
    OBVIOUS
  <2>2. h \in Rendered
    BY <2>1 DEF Rendered
  <2>3. <<h>> \in Seq(Rendered)
    BY <2>2
  <2> QED BY <1>2, <2>1, <2>3, ReadOne
<1>5. b \in Seq(Rendered) /\ Read(Cur(name, i, ps, W!NewSection(name)), b) = Cur(name, i, ps, Sec(f, <<>>))
  <2>1. KeysRead(name, i, ps, f, e, Len(W!Keys[name]))
    BY AllKeysRead
  <2> QED BY <1>2, <2>1, LastKeys, Zenon DEF KeysRead
<1>6. c \in Seq(Rendered) /\ Read(Cur(name, i, ps, Sec(f, <<>>)), c) = Cur(name, i, ps, sec)
  <2>1. ExtrasRead(name, i, ps, f, e)
    BY AllExtrasRead
  <2> QED BY <1>1, <1>2, <2>1, Zenon DEF ExtrasRead
<1>7. a \o b \in Seq(Rendered) /\ (a \o b) \o c \in Seq(Rendered)
  BY <1>4, <1>5, <1>6
<1>8. Read(acc, (a \o b) \o c) = Read(Read(acc, a \o b), c)
  <2>1. PICK ab : ab = a \o b
    OBVIOUS
  <2>2. ab \in Seq(Rendered) /\ c \in Seq(Rendered)
    BY <1>6, <1>7, <2>1
  <2>3. Read(acc, ab \o c) = Read(Read(acc, ab), c)
    BY <2>2, ReadFold
  <2> QED BY <2>1, <2>3
<1>9. Read(acc, a \o b) = Read(Read(acc, a), b)
  BY <1>4, <1>5, ReadFold
<1> QED BY <1>3, <1>4, <1>5, <1>6, <1>7, <1>8, <1>9

\* So are the peers, one after the other.
PeerLines(ps) == [k \in DOMAIN ps |-> W!RenderSection("Peer", ps[k])]

PeersRead(i, at, ps) ==
    /\ W!FlattenSeq(PeerLines(ps)) \in Seq(Rendered)
    /\ \E bt : Read(Acc(Yes, Yes, at, i, <<>>), W!FlattenSeq(PeerLines(ps))) = Acc(Yes, Yes, bt, i, ps)

\* Of every number of peers.
LEMMA AllPeersRead ==
    ASSUME NEW i, NEW at, NEW ps \in Seq(Section("Peer"))
    PROVE  PeersRead(i, at, ps)
<1> DEFINE P(qs) == PeersRead(i, at, qs)
           T == {qs \in Seq(Section("Peer")) : P(qs)}
           acc == Acc(Yes, Yes, at, i, <<>>)
<1>1. <<>> \in T
  <2>1. <<>> \in Seq(Section("Peer")) /\ <<>> \in Seq(Rendered)
    OBVIOUS
  <2>2. PeerLines(<<>>) = <<>>
    BY DEF PeerLines
  <2>3. Read(acc, <<>>) = acc
    BY ReadFold
  <2>4. W!FlattenSeq(PeerLines(<<>>)) = <<>>
    BY <2>2, Flatten
  <2> QED BY <2>1, <2>3, <2>4, Zenon DEF PeersRead
<1>2. ASSUME NEW qs \in Seq(Section("Peer")), NEW sec \in Section("Peer"), qs \in T
      PROVE  Append(qs, sec) \in T
  <2>1. P(qs)
    <3> HIDE DEF P
    <3> QED BY <1>2
  <2>2. PICK bt : Read(acc, W!FlattenSeq(PeerLines(qs))) = Acc(Yes, Yes, bt, i, qs)
    BY <2>1, Zenon DEF PeersRead
  <2>3. /\ W!RenderSection("Peer", sec) \in Seq(Rendered)
        /\ Read(Acc(Yes, Yes, bt, i, qs), W!RenderSection("Peer", sec)) = Cur("Peer", i, qs, sec)
    <3>1. W!ReadLine(Acc(Yes, Yes, bt, i, qs), W!Header("Peer"))
            = Cur("Peer", i, qs, W!NewSection("Peer"))
      BY HeaderRead
    <3> QED BY <3>1, SectionRead
  <2>4. PeerLines(Append(qs, sec)) = Append(PeerLines(qs), W!RenderSection("Peer", sec))
        /\ PeerLines(qs) \in Seq(Seq(Rendered))
    <3>1. PICK n, d : n = Len(qs) /\ d = Append(qs, sec)
      OBVIOUS
    <3>2. /\ n \in Nat /\ DOMAIN qs = 1 .. n /\ DOMAIN d = 1 .. n + 1 /\ d[n + 1] = sec
          /\ \A k \in 1 .. n : d[k] = qs[k]
          /\ \A k \in 1 .. n + 1 : d[k] \in Section("Peer")
      <4>1. PICK S : S = Section("Peer")
        OBVIOUS
      <4>2. qs \in Seq(S) /\ sec \in S
        BY <4>1
      <4>3. /\ n \in Nat /\ DOMAIN qs = 1 .. n /\ DOMAIN d = 1 .. n + 1 /\ d[n + 1] = sec
            /\ \A k \in 1 .. n : d[k] = qs[k]
            /\ \A k \in 1 .. n + 1 : d[k] \in S
        BY <3>1, <4>2
      <4> QED BY <4>1, <4>3
    <3>3. PICK s, t, S : s = PeerLines(qs) /\ t = PeerLines(d) /\ S = Seq(Rendered)
      OBVIOUS
    <3>4. s = [k \in 1 .. n |-> W!RenderSection("Peer", qs[k])]
          /\ t = [k \in 1 .. n + 1 |-> W!RenderSection("Peer", d[k])]
      BY <3>2, <3>3, Zenon DEF PeerLines
    <3>5. Reading!OneLonger(s, t, n, S)
      <4>1. \A k \in 1 .. n : k \in 1 .. n + 1
        BY <3>2
      <4>2. \A q \in Section("Peer") : W!RenderSection("Peer", q) \in Seq(Rendered)
        <5> SUFFICES ASSUME NEW q \in Section("Peer")
                     PROVE  W!RenderSection("Peer", q) \in Seq(Rendered)
          OBVIOUS
        <5>1. W!ReadLine(Acc(Yes, Yes, bt, i, qs), W!Header("Peer"))
                = Cur("Peer", i, qs, W!NewSection("Peer"))
          BY HeaderRead
        <5> QED BY <5>1, SectionRead
      <4>3. \A k \in 1 .. n + 1 : t[k] \in S
        BY <3>2, <3>3, <3>4, <4>2
      <4>4. \A k \in 1 .. n : s[k] = t[k]
        BY <3>2, <3>4, <4>1
      <4> QED BY <3>4, <4>3, <4>4 DEF Reading!OneLonger
    <3>6. s \in Seq(S) /\ t[n + 1] \in S /\ t = Append(s, t[n + 1])
      <4>1. n \in Nat
        BY <3>2
      <4>2. Reading!Appended(s, t, n, S)
        BY <3>5, <4>1, Reading!AppendMap
      <4> QED BY <4>2 DEF Reading!Appended
    <3>7. n + 1 \in 1 .. n + 1
      BY <3>2
    <3>8. t[n + 1] = W!RenderSection("Peer", sec)
      BY <3>2, <3>4, <3>7
    <3> QED BY <3>1, <3>3, <3>6, <3>8
  <2>5. PICK a, b : a = W!FlattenSeq(PeerLines(qs)) /\ b = W!RenderSection("Peer", sec)
    OBVIOUS
  <2>6. a \in Seq(Rendered) /\ b \in Seq(Rendered)
    BY <2>1, <2>3, <2>5, Zenon DEF PeersRead
  <2>7. W!FlattenSeq(PeerLines(Append(qs, sec))) = a \o b
    <3>1. PICK q : q = PeerLines(qs)
      OBVIOUS
    <3>2. W!FlattenSeq(Append(q, b)) = W!FlattenSeq(q) \o b
      BY <2>4, <2>6, <3>1, Flatten
    <3> QED BY <2>4, <2>5, <3>1, <3>2
  <2>8. a \o b \in Seq(Rendered)
    BY <2>6
  <2>9. Read(acc, a \o b) = Read(Read(acc, a), b)
    <3> HIDE DEF acc
    <3> QED BY <2>6, ReadFold
  <2>10. Read(acc, a \o b) = Acc(Yes, Yes, "Peer", i, Append(qs, sec))
    BY <2>2, <2>3, <2>5, <2>9 DEF Cur
  <2>11. P(Append(qs, sec))
    BY <2>7, <2>8, <2>10, Zenon DEF PeersRead
  <2>12. Append(qs, sec) \in Seq(Section("Peer"))
    <3>1. PICK S : S = Section("Peer")
      OBVIOUS
    <3>2. qs \in Seq(S) /\ sec \in S
      BY <3>1
    <3>3. Append(qs, sec) \in Seq(S)
      BY <3>2
    <3> QED BY <3>1, <3>3
  <2> HIDE DEF P
  <2> QED BY <2>11, <2>12
<1>3. Seq(Section("Peer")) \subseteq T
  <2> HIDE DEF T
  <2> QED BY <1>1, <1>2, Reading!SeqInd
<1> HIDE DEF P
<1>4. P(ps)
  BY <1>3
<1> QED BY <1>4 DEF P

\* A configuration that is written is read again: parse gives of it what render was given.
LEMMA RenderedRead ==
    ASSUME NEW i \in Section("Interface"), NEW ps \in Seq(Section("Peer"))
    PROVE  W!Parse(W!Render(Conf(i, ps))) = [ok |-> TRUE, conf |-> Conf(i, ps)]
<1>1. PICK none : none = <<>>
  OBVIOUS
<1>2. none \in Seq(Section("Peer"))
  BY <1>1
<1>3. PICK a, b : a = W!RenderSection("Interface", i) /\ b = W!FlattenSeq(PeerLines(ps))
  OBVIOUS
<1>4. a \in Seq(Rendered) /\ Read(Start, a) = Acc(Yes, Yes, "Interface", i, <<>>)
  <2>1. W!ReadLine(Start, W!Header("Interface"))
          = Cur("Interface", W!NewSection("Interface"), none, W!NewSection("Interface"))
    BY HeaderRead
  <2>2. /\ W!RenderSection("Interface", i) \in Seq(Rendered)
        /\ Read(Start, W!RenderSection("Interface", i))
             = Cur("Interface", W!NewSection("Interface"), none, i)
    BY <1>2, <2>1, SectionRead
  <2>3. Cur("Interface", W!NewSection("Interface"), none, i) = Acc(Yes, Yes, "Interface", i, <<>>)
    BY DEF Cur
  <2> QED BY <1>3, <2>2, <2>3
<1>5. PeersRead(i, "Interface", ps)
  BY AllPeersRead
<1>6. PICK bt : Read(Acc(Yes, Yes, "Interface", i, <<>>), b) = Acc(Yes, Yes, bt, i, ps)
  BY <1>3, <1>5, Zenon DEF PeersRead
<1>7. b \in Seq(Rendered)
  BY <1>3, <1>5, Zenon DEF PeersRead
<1>8. W!Render(Conf(i, ps)) = a \o b
  <2>1. Conf(i, ps).interface = i /\ Conf(i, ps).peers = ps
    BY DEF Conf
  <2> QED BY <1>3, <2>1, Zenon DEF W!Render, PeerLines
<1>9. Read(Start, a \o b) = Read(Read(Start, a), b)
  BY <1>4, <1>7, ReadFold
<1>10. PICK end : end = Read(Start, W!Render(Conf(i, ps)))
  OBVIOUS
<1>11. end = Acc(Yes, Yes, bt, i, ps)
  BY <1>4, <1>6, <1>8, <1>9, <1>10
<1>12. end.ok = Yes /\ end.seen = Yes /\ end.conf = Conf(i, ps)
  BY <1>11 DEF Acc, Conf
<1>13. (end.ok /\ end.seen) = TRUE
  BY <1>12, Zenon DEF Yes
<1> QED BY <1>10, <1>12, <1>13, ParseStart, Zenon

-----------------------------------------------------------------------------
(* The overrides, and what the service reads. *)

\* A list of a section, set to another.
LEMMA ListSet ==
    ASSUME NEW name, NEW sec \in Section(name), NEW key \in KeysOf(name), key \in W!Lists,
           NEW list \in Seq(Item)
    PROVE  [sec EXCEPT !.known[key] = list] \in Section(name)
<1>1. PICK f \in Values(name), e \in Seq(Extras(name)) : sec = Sec(f, e)
  BY SecTyped
<1>2. f \in [KeysOf(name) -> Seq(Clear)] /\ \A k \in KeysOf(name) : f[k] \in Allowed(k)
  BY DEF Values
<1>3. list \in Allowed(key) /\ list \in Seq(Clear)
  BY AllowedClear DEF Allowed
<1>4. [f EXCEPT ![key] = list] \in Values(name)
  BY <1>2, <1>3 DEF Values
<1>5. [sec EXCEPT !.known[key] = list] = Sec([f EXCEPT ![key] = list], e)
  <2>1. sec = [known |-> f, extra |-> e]
    BY <1>1 DEF Sec
  <2>2. [sec EXCEPT !.known[key] = list] = [known |-> [f EXCEPT ![key] = list], extra |-> e]
    BY <2>1, SMT
  <2> QED BY <2>2 DEF Sec
<1> QED BY <1>4, <1>5, SecTyped

\* The lists that are overridden are lists of their sections.
LEMMA ListKeys ==
    /\ "DNS" \in KeysOf("Interface") /\ "DNS" \in W!Lists
    /\ "AllowedIPs" \in KeysOf("Peer") /\ "AllowedIPs" \in W!Lists
<1>1. "DNS" \in W!Lists /\ "AllowedIPs" \in W!Lists
  BY DEF W!Lists
<1>2. "DNS" \in KeysOf("Interface")
  <2>1. PICK ks : ks = W!Keys["Interface"]
    OBVIOUS
  <2>2. ks = <<"PrivateKey", "Address", "DNS", "ListenPort", "Fwmark", "MTU">>
    BY <2>1 DEF W!Keys
  <2>3. DOMAIN ks = 1 .. 6 /\ ks[3] = "DNS"
    BY <2>2
  <2> QED BY <2>1, <2>3 DEF KeysOf, W!ToSet
<1>3. "AllowedIPs" \in KeysOf("Peer")
  <2>1. PICK ks : ks = W!Keys["Peer"]
    OBVIOUS
  <2>2. ks = <<"PublicKey", "PresharedKey", "AllowedIPs", "Endpoint", "PersistentKeepalive">>
    BY <2>1 DEF W!Keys
  <2>3. DOMAIN ks = 1 .. 5 /\ ks[3] = "AllowedIPs"
    BY <2>2
  <2> QED BY <2>1, <2>3 DEF KeysOf, W!ToSet
<1> QED BY <1>1, <1>2, <1>3

\* An override: a list, or none.
IsOverride(x) == x.set \in BOOLEAN /\ (x.set => x.list \in Seq(Item))

\* With the overrides a configuration is one.
LEMMA OverridesTyped ==
    ASSUME NEW i \in Section("Interface"), NEW ps \in Seq(Section("Peer")),
           NEW o, IsOverride(o.dns), IsOverride(o.ips)
    PROVE  \E j \in Section("Interface"), qs \in Seq(Section("Peer")) :
              W!WithOverrides(Conf(i, ps), o) = Conf(j, qs)
<1>1. PICK j : j = IF o.dns.set THEN [i EXCEPT !.known["DNS"] = o.dns.list] ELSE i
  OBVIOUS
<1>2. j \in Section("Interface")
  <2>1. CASE o.dns.set
    <3>1. [i EXCEPT !.known["DNS"] = o.dns.list] \in Section("Interface")
      BY <2>1, ListSet, ListKeys DEF IsOverride
    <3> QED BY <1>1, <2>1, <3>1
  <2>2. CASE ~ o.dns.set
    BY <1>1, <2>2
  <2> QED BY <2>1, <2>2
<1> DEFINE Set(p) == IF o.ips.set THEN [p EXCEPT !.known["AllowedIPs"] = o.ips.list] ELSE p
<1>3. \A p \in Section("Peer") : Set(p) \in Section("Peer")
  <2> SUFFICES ASSUME NEW p \in Section("Peer") PROVE Set(p) \in Section("Peer")
    OBVIOUS
  <2>1. CASE o.ips.set
    <3>1. [p EXCEPT !.known["AllowedIPs"] = o.ips.list] \in Section("Peer")
      BY <2>1, ListSet, ListKeys DEF IsOverride
    <3> QED BY <2>1, <3>1
  <2>2. CASE ~ o.ips.set
    BY <2>2
  <2> QED BY <2>1, <2>2
<1>4. PICK qs : qs = [k \in DOMAIN ps |-> Set(ps[k])]
  OBVIOUS
<1>5. qs \in Seq(Section("Peer"))
  <2> HIDE DEF Set
  <2>1. PICK T, n : T = Section("Peer") /\ n = Len(ps)
    OBVIOUS
  <2>2. n \in Nat /\ DOMAIN ps = 1 .. n /\ \A k \in 1 .. n : ps[k] \in T
    <3>1. ps \in Seq(T)
      BY <2>1
    <3> QED BY <2>1, <3>1
  <2>3. qs = [k \in 1 .. n |-> Set(ps[k])] /\ \A k \in 1 .. n : Set(ps[k]) \in T
    BY <1>3, <1>4, <2>1, <2>2
  <2>4. qs \in [1 .. n -> T]
    BY <2>3
  <2>5. qs \in Seq(T)
    BY <2>2, <2>4
  <2> QED BY <2>1, <2>5
<1>6. W!WithOverrides(Conf(i, ps), o) = Conf(j, qs)
  <2>1. Conf(i, ps).interface = i /\ Conf(i, ps).peers = ps
    BY DEF Conf
  <2>2. W!WithOverrides(Conf(i, ps), o) = [interface |-> j, peers |-> qs]
    BY <1>1, <1>4, <2>1, Zenon DEF W!WithOverrides
  <2> QED BY <2>2 DEF Conf
<1> QED BY <1>2, <1>5, <1>6

\* What the service reads, of lines of any number and overrides of clean elements
\* (wg.rs:188-272).
THEOREM RoundTrip ==
    ASSUME NEW S, \A l \in S : IsLine(l), NEW lines \in Seq(S),
           NEW o, IsOverride(o.dns), IsOverride(o.ips)
    PROVE  W!Parse(W!ServiceConf(lines, o)) =
              [ok |-> TRUE, conf |-> W!WithOverrides(W!Parse(lines).conf, o)]
<1>1. PICK i \in Section("Interface"), ps \in Seq(Section("Peer")) : W!Parse(lines).conf = Conf(i, ps)
  BY ParseTyped
<1>2. PICK j \in Section("Interface"), qs \in Seq(Section("Peer")) :
          W!WithOverrides(Conf(i, ps), o) = Conf(j, qs)
  BY OverridesTyped
<1>3. W!Parse(W!Render(Conf(j, qs))) = [ok |-> TRUE, conf |-> Conf(j, qs)]
  BY RenderedRead
<1>4. W!ServiceConf(lines, o) = W!Render(Conf(j, qs))
  BY <1>1, <1>2, Zenon DEF W!ServiceConf
<1> QED BY <1>1, <1>2, <1>3, <1>4, Zenon

\* The overrides of the run are such.
LEMMA OverridesAre == \A x \in Overrides : IsOverride(x)
<1>1. "c" \in Item /\ "d" \in Item
  BY DEF Item, Clear, Piece
<1>2. <<>> \in Seq(Item) /\ <<"c">> \in Seq(Item) /\ <<"c", "d">> \in Seq(Item)
  <2>1. PICK c, d : c = "c" /\ d = "d"
    OBVIOUS
  <2>2. c \in Item /\ d \in Item
    BY <1>1, <2>1
  <2>3. <<>> \in Seq(Item) /\ <<c>> \in Seq(Item) /\ <<c, d>> \in Seq(Item)
    BY <2>2
  <2> QED BY <2>1, <2>3
<1> SUFFICES ASSUME NEW x \in Overrides PROVE IsOverride(x)
  OBVIOUS
<1>3. CASE x = [set |-> FALSE, list |-> <<>>]
  <2>1. x.set = FALSE
    BY <1>3
  <2> QED BY <2>1 DEF IsOverride
<1>4. CASE x \in [set : {TRUE}, list : {<<>>, <<"c">>, <<"c", "d">>}]
  <2>1. x.set = TRUE /\ x.list \in {<<>>, <<"c">>, <<"c", "d">>}
    BY <1>4
  <2>2. x.list \in Seq(Item)
    BY <1>2, <2>1
  <2> QED BY <2>1, <2>2 DEF IsOverride
<1> QED BY <1>3, <1>4 DEF Overrides

\* The lines of the run are such.
LEMMA WgLinesAre == \A l \in WgLines : IsLine(l)
<1>1. ASSUME NEW key, NEW value, key \in Key, value \in Seq(Piece)
      PROVE  IsLine(W!Pair(key, value))
  BY <1>1 DEF IsLine, W!Pair
<1>2. ASSUME NEW name PROVE IsLine(W!Header(name))
  BY DEF IsLine, W!Header
<1>3. IsLine(Comment(FALSE))
  BY DEF IsLine, Comment
<1>4. {"PrivateKey", "DNS", "AllowedIPs", "MTU", "ListenPort", "PostUp"} \subseteq Key
  <2>1. KeysOf("Interface") \subseteq Key /\ KeysOf("Peer") \subseteq Key /\ "PostUp" \in Key
    BY DEF Key
  <2>2. {"PrivateKey", "MTU", "ListenPort"} \subseteq KeysOf("Interface")
    <3>1. PICK ks : ks = W!Keys["Interface"]
      OBVIOUS
    <3>2. ks = <<"PrivateKey", "Address", "DNS", "ListenPort", "Fwmark", "MTU">>
      BY <3>1 DEF W!Keys
    <3>3. DOMAIN ks = 1 .. 6 /\ ks[1] = "PrivateKey" /\ ks[4] = "ListenPort" /\ ks[6] = "MTU"
      BY <3>2
    <3>4. \A k \in DOMAIN ks : ks[k] \in KeysOf("Interface")
      BY <3>1 DEF KeysOf, W!ToSet
    <3>5. 1 \in DOMAIN ks /\ 4 \in DOMAIN ks /\ 6 \in DOMAIN ks
      BY <3>3
    <3> QED BY <3>3, <3>4, <3>5
  <2> QED BY <2>1, <2>2, ListKeys
<1>5. /\ <<"a", ",", "b">> \in Seq(Piece) /\ <<"01280">> \in Seq(Piece) /\ <<"65536">> \in Seq(Piece)
      /\ <<"a", "#", "b">> \in Seq(Piece) /\ <<"#", "a">> \in Seq(Piece)
  <2>1. \A p, q, r \in Piece : <<p>> \in Seq(Piece) /\ <<p, q>> \in Seq(Piece) /\ <<p, q, r>> \in Seq(Piece)
    OBVIOUS
  <2>2. {"a", "b", ",", "#"} \subseteq Piece
    BY DEF Piece
  <2>3. "01280" \in Piece /\ "65536" \in Piece
    BY DEF Piece, W!Canonical
  <2> HIDE DEF Piece
  <2> QED BY <2>1, <2>2, <2>3, Zenon
<1> SUFFICES ASSUME NEW l \in WgLines PROVE IsLine(l)
  OBVIOUS
<1>6. \/ \E name \in {"Interface", "Peer", "Office"} : l = W!Header(name)
      \/ \E key \in {"PrivateKey", "DNS", "AllowedIPs"} : l = W!Pair(key, <<"a", ",", "b">>)
      \/ l = W!Pair("MTU", <<"01280">>) \/ l = W!Pair("ListenPort", <<"65536">>)
      \/ l = W!Pair("PostUp", <<"a", "#", "b">>) \/ l = W!Pair("PostUp", <<"#", "a">>)
      \/ l = Comment(FALSE)
  BY Zenon DEF WgLines
<1>7. ASSUME NEW key \in {"PrivateKey", "DNS", "AllowedIPs"} PROVE IsLine(W!Pair(key, <<"a", ",", "b">>))
  <2>1. key \in Key
    BY <1>4
  <2> QED BY <1>1, <1>5, <2>1
<1>8. /\ IsLine(W!Pair("MTU", <<"01280">>)) /\ IsLine(W!Pair("ListenPort", <<"65536">>))
      /\ IsLine(W!Pair("PostUp", <<"a", "#", "b">>)) /\ IsLine(W!Pair("PostUp", <<"#", "a">>))
  <2>1. "MTU" \in Key /\ "ListenPort" \in Key /\ "PostUp" \in Key
    BY <1>4
  <2> QED BY <1>1, <1>5, <2>1
<1> QED BY <1>2, <1>3, <1>6, <1>7, <1>8, Zenon

\* The text of a run.
WgInv == format = "wg" => text \in Seq(WgLines)

\* The texts of the run are sequences of its lines.
LEMMA WgInvKept == Spec => []WgInv
<1>1. Init => WgInv
  BY DEF Init, WgInv
<1>2. WgInv /\ [Next]_vars => WgInv'
  <2> SUFFICES ASSUME WgInv, [Next]_vars, format' = "wg" PROVE text' \in Seq(WgLines)
    BY DEF WgInv
  <2>1. CASE UNCHANGED vars
    BY <2>1 DEF WgInv, vars
  <2>2. CASE Grow
    <3>1. format = "wg"
      BY <2>2 DEF Grow
    <3>2. PICK part \in Parts : text' = Append(text, part)
      BY <2>2 DEF Grow
    <3>3. Parts = WgLines
      BY <3>1, Zenon DEF Parts
    <3>4. text \in Seq(WgLines) /\ part \in WgLines
      BY <3>1, <3>3 DEF WgInv
    <3>5. Append(text, part) \in Seq(WgLines)
      <4>1. PICK R, t : R = WgLines /\ t = text
        OBVIOUS
      <4>2. Append(t, part) \in Seq(R)
        BY <3>4, <4>1
      <4> QED BY <4>1, <4>2
    <3> QED BY <3>2, <3>5
  <2> QED BY <2>1, <2>2 DEF Next
<1> QED BY <1>1, <1>2, PTL DEF Spec

\* ServiceReadsProfile, of texts of any number of lines.
THEOREM ServiceReads == Spec => []ServiceReadsProfile
<1>1. WgInv => ServiceReadsProfile
  <2> SUFFICES ASSUME WgInv, format = "wg", NEW ips \in Overrides, NEW dns \in Overrides
               PROVE  LET o == [ips |-> ips, dns |-> dns] IN
                      W!Parse(W!ServiceConf(text, o)) =
                          [ok |-> TRUE, conf |-> W!WithOverrides(W!Parse(text).conf, o)]
    BY Zenon DEF ServiceReadsProfile
  <2>1. PICK o : o = [ips |-> ips, dns |-> dns]
    OBVIOUS
  <2>2. o.ips = ips /\ o.dns = dns
    BY <2>1
  <2>3. IsOverride(o.ips) /\ IsOverride(o.dns)
    BY <2>2, OverridesAre
  <2>4. text \in Seq(WgLines)
    BY DEF WgInv
  <2>5. W!Parse(W!ServiceConf(text, o)) =
            [ok |-> TRUE, conf |-> W!WithOverrides(W!Parse(text).conf, o)]
    BY <2>3, <2>4, WgLinesAre, RoundTrip
  <2> QED BY <2>1, <2>5, Zenon
<1> QED BY <1>1, WgInvKept, PTL
=============================================================================
