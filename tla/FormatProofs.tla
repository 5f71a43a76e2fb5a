---------------------------- MODULE FormatProofs ----------------------------
(***************************************************************************)
(* Proofs about the other formats: the days that date_to_unix counts, the  *)
(* way of a profile to a client and back through update_profile, the kind  *)
(* that an import is taken for, and the way of a link from MakeLink to     *)
(* xray's outbound.  What a loop computes is proved with FoldFacts.        *)
(***************************************************************************)
EXTENDS Formats, TLAPS

-----------------------------------------------------------------------------
(* The log. *)

L == INSTANCE LogFiles

\* The days from 1970 to a date, until 2099.
TrueDays(date) ==
    LET leap == (date.year - 1969) \div 4 IN
    (date.year - 1970) * 365 + leap + L!MonthDays[date.month] + date.day - 1
        + IF date.year % 4 = 0 /\ date.month > 2 THEN 1 ELSE 0

\* The days that date_to_unix counts one short, and the years the proof is for.
Short(date) == date.year % 4 = 1 \/ (date.year % 4 = 0 /\ date.month > 2)

Calendar == [year : 1970 .. 2099, month : 1 .. 12, day : 1 .. 31]

\* The leap days of the years before y as the calendar has them and as date_to_unix
\* counts them: one less in the year after a leap year.
LEMMA LeapDays ==
    ASSUME NEW y \in Nat, y >= 1970
    PROVE  (y - 1969) \div 4 = (y - 1970) \div 4 + IF y % 4 = 1 THEN 1 ELSE 0
<1> DEFINE q == y \div 4
<1>1. q \in Nat /\ y % 4 \in 0 .. 3 /\ y = 4 * q + (y % 4)
  OBVIOUS
<1>2. CASE y % 4 = 0
  <2>1. y - 1969 = 4 * (q - 493) + 3 /\ y - 1970 = 4 * (q - 493) + 2
    BY <1>1, <1>2
  <2> QED BY <1>1, <1>2, <2>1
<1>3. CASE y % 4 = 1
  <2>1. y - 1969 = 4 * (q - 492) /\ y - 1970 = 4 * (q - 493) + 3
    BY <1>1, <1>3
  <2> QED BY <1>1, <1>3, <2>1
<1>4. CASE y % 4 = 2
  <2>1. y - 1969 = 4 * (q - 492) + 1 /\ y - 1970 = 4 * (q - 492)
    BY <1>1, <1>4
  <2> QED BY <1>1, <1>4, <2>1
<1>5. CASE y % 4 = 3
  <2>1. y - 1969 = 4 * (q - 492) + 2 /\ y - 1970 = 4 * (q - 492) + 1
    BY <1>1, <1>5
  <2> QED BY <1>1, <1>5, <2>1
<1> QED BY <1>1, <1>2, <1>3, <1>4, <1>5

\* The cumulated days of the months are numbers.
LEMMA MonthDaysNat == ASSUME NEW month \in 1 .. 12 PROVE L!MonthDays[month] \in Nat
BY DEF L!MonthDays

\* date_to_unix is a day short from March of a leap year to the end of the year after
\* it, and right on every other day from 1970 to 2099.
LEMMA DaysShort ==
    ASSUME NEW date \in Calendar
    PROVE  /\ L!DaysOf(date) \in Int
           /\ TrueDays(date) = L!DaysOf(date) + IF Short(date) THEN 1 ELSE 0
<1>1. date.year \in Nat /\ date.year >= 1970 /\ date.month \in 1 .. 12 /\ date.day \in Nat
  BY DEF Calendar
<1>2. L!MonthDays[date.month] \in Nat
  BY <1>1, MonthDaysNat
<1>3. (date.year - 1969) \div 4 = (date.year - 1970) \div 4 + IF date.year % 4 = 1 THEN 1 ELSE 0
  BY <1>1, LeapDays
<1>4. (date.year - 1970) \div 4 \in Int /\ date.year % 4 \in 0 .. 3
  BY <1>1
<1> DEFINE months == L!MonthDays[date.month]
           past == (date.year - 1970) \div 4
           mod == date.year % 4
<1> HIDE DEF months, past, mod
<1>5. L!DaysOf(date) = (date.year - 1970) * 365 + past + months + date.day - 1
  BY DEF L!DaysOf, months, past
<1>6. TrueDays(date) = (date.year - 1970) * 365 + (past + IF mod = 1 THEN 1 ELSE 0)
                         + months + date.day - 1 + IF mod = 0 /\ date.month > 2 THEN 1 ELSE 0
  BY <1>3 DEF TrueDays, months, past, mod
<1>7. Short(date) <=> mod = 1 \/ (mod = 0 /\ date.month > 2)
  BY DEF Short, mod
<1>8. months \in Nat /\ past \in Int /\ mod \in 0 .. 3
  BY <1>2, <1>4 DEF months, past, mod
<1> QED BY <1>1, <1>5, <1>6, <1>7, <1>8

\* Whatever the number of days to keep, a file of any date from 1970 to 2099 is
\* removed when it is that old, or a day sooner where date_to_unix is short.
THEOREM RemovedInTime ==
    \A date \in Calendar, keep \in Nat, age \in Nat :
        L!Removed(date, TrueDays(date) + age, keep)
            <=> age >= keep \/ (age = keep - 1 /\ Short(date))
<1> SUFFICES ASSUME NEW date \in Calendar, NEW keep \in Nat, NEW age \in Nat
             PROVE  L!Removed(date, TrueDays(date) + age, keep)
                        <=> age >= keep \/ (age = keep - 1 /\ Short(date))
  OBVIOUS
<1>1. L!DaysOf(date) \in Int
  BY DaysShort
<1>2. CASE Short(date)
  <2>1. TrueDays(date) = L!DaysOf(date) + 1
    BY <1>2, DaysShort
  <2> QED BY <1>1, <1>2, <2>1 DEF L!Removed
<1>3. CASE ~ Short(date)
  <2>1. TrueDays(date) = L!DaysOf(date)
    BY <1>1, <1>3, DaysShort
  <2> QED BY <1>1, <1>3, <2>1 DEF L!Removed
<1> QED BY <1>2, <1>3

-----------------------------------------------------------------------------
(* Profiles. *)

\* A profile has a kind and three configurations, and these may be exchanged.
IsProfile(p) == p = [kind |-> p.kind, wg |-> p.wg, ovpn |-> p.ovpn, vless |-> p.vless]

With(p, a, b, c) == [p EXCEPT !.wg = a, !.ovpn = b, !.vless = c]

\* The profile that EXCEPT makes, as a record.
LEMMA Replaced ==
    ASSUME NEW p, IsProfile(p), NEW a, NEW b, NEW c
    PROVE  With(p, a, b, c)
           = [kind |-> p.kind, wg |-> a, ovpn |-> b, vless |-> c]
<1>1. PICK q : q = [p EXCEPT !.wg = a]
  OBVIOUS
<1>2. q = [kind |-> p.kind, wg |-> a, ovpn |-> p.ovpn, vless |-> p.vless]
  BY <1>1, SMT DEF IsProfile
<1>3. PICK r : r = [q EXCEPT !.ovpn = b]
  OBVIOUS
<1>4. r = [kind |-> p.kind, wg |-> a, ovpn |-> b, vless |-> p.vless]
  BY <1>2, <1>3, SMT
<1>5. [r EXCEPT !.vless = c] = [kind |-> p.kind, wg |-> a, ovpn |-> b, vless |-> c]
  BY <1>4, SMT
<1>6. With(p, a, b, c) = [r EXCEPT !.vless = c]
  BY <1>1, <1>3, Zenon DEF With
<1> QED BY <1>5, <1>6, Zenon

\* Whatever configurations a profile has, also several of them or unreadable ones, a
\* client that sends its view back changes none, and is refused only if the profile
\* could not be connected before.
THEOREM ViewKeepsSecrets ==
    \A kind, wg, ovpn, vless :
        LET p == [kind |-> kind, wg |-> wg, ovpn |-> ovpn, vless |-> vless]
            edited == Update(p, PublicView(p))
        IN edited = IF Validate(p) THEN [ok |-> TRUE, profile |-> p] ELSE Refused
<1> SUFFICES ASSUME NEW kind, NEW wg, NEW ovpn, NEW vless
             PROVE  LET p == [kind |-> kind, wg |-> wg, ovpn |-> ovpn, vless |-> vless]
                        edited == Update(p, PublicView(p))
                    IN edited = IF Validate(p) THEN [ok |-> TRUE, profile |-> p] ELSE Refused
  OBVIOUS
<1> DEFINE hidden(config) == IF config = <<>> THEN <<>> ELSE << <<>> >>
           keep(new, old) == IF new \in {<<>>, << <<>> >>} THEN old ELSE new
<1>1. \A config : keep(hidden(config), config) = config
  BY Zenon
<1>2. PICK p : p = [kind |-> kind, wg |-> wg, ovpn |-> ovpn, vless |-> vless]
  OBVIOUS
<1>3. PICK view : view = [kind |-> kind, wg |-> hidden(wg), ovpn |-> hidden(ovpn),
                          vless |-> hidden(vless)]
  OBVIOUS
<1>4. IsProfile(p) /\ IsProfile(view)
  <2> HIDE DEF hidden
  <2> QED BY <1>2, <1>3 DEF IsProfile
<1>5. PublicView(p) = view
  <2>1. PublicView(p) = With(p, hidden(p.wg), hidden(p.ovpn), hidden(p.vless))
    BY Zenon DEF PublicView, With
  <2> HIDE DEF hidden
  <2> QED BY <1>2, <1>3, <1>4, <2>1, Replaced
<1> DEFINE updated == With(view, keep(view.wg, p.wg), keep(view.ovpn, p.ovpn),
                           keep(view.vless, p.vless))
<1>6. updated = p
  <2> HIDE DEF keep, hidden
  <2>1. /\ keep(view.wg, p.wg) = wg
        /\ keep(view.ovpn, p.ovpn) = ovpn
        /\ keep(view.vless, p.vless) = vless
        /\ view.kind = kind
    BY <1>1, <1>2, <1>3
  <2>2. updated = With(view, wg, ovpn, vless)
    BY <2>1, Zenon
  <2>3. With(view, wg, ovpn, vless)
        = [kind |-> view.kind, wg |-> wg, ovpn |-> ovpn, vless |-> vless]
    BY <1>4, Replaced
  <2> QED BY <1>2, <2>1, <2>2, <2>3, Zenon
<1>7. Update(p, view) = IF Validate(updated) THEN [ok |-> TRUE, profile |-> updated] ELSE Refused
  BY Zenon DEF Update, With
<1> HIDE DEF updated
<1> QED BY <1>2, <1>5, <1>6, <1>7

\* The checked property (update_profile): it holds of every text, whatever is in it.
THEOREM EditedKeepsSecrets == Spec => []EditKeepsSecrets
<1>1. EditKeepsSecrets
  <2> SUFFICES ASSUME NEW kind \in {"wireguard", "openvpn", "vless"}
               PROVE  LET p == [kind |-> kind, wg |-> text[1], ovpn |-> text[2], vless |-> text[3]]
                          edited == Update(p, PublicView(p))
                      IN edited.ok = Validate(p) /\ (edited.ok => edited.profile = p)
    BY Zenon DEF EditKeepsSecrets
  <2> DEFINE p == [kind |-> kind, wg |-> text[1], ovpn |-> text[2], vless |-> text[3]]
  <2>1. Update(p, PublicView(p)) = IF Validate(p) THEN [ok |-> TRUE, profile |-> p] ELSE Refused
    BY ViewKeepsSecrets
  <2>2. Validate(p) \in BOOLEAN
    BY DEF Validate
  <2>3. PICK q, edited, valid : q = p /\ edited = Update(p, PublicView(p)) /\ valid = Validate(p)
    BY Zenon
  <2>4. edited = IF valid THEN [ok |-> TRUE, profile |-> q] ELSE [ok |-> FALSE]
    BY <2>1, <2>3, Zenon DEF Refused
  <2>5. valid \in BOOLEAN
    BY <2>2, <2>3, Zenon
  <2>6. edited.ok = valid /\ (edited.ok => edited.profile = q)
    BY <2>4, <2>5
  <2> QED BY <2>3, <2>6, Zenon
<1> QED BY <1>1, PTL

-----------------------------------------------------------------------------
(* Links: where a text is cut. *)

\* A piece that is not there.
LEMMA FirstNone ==
    ASSUME NEW S, NEW s \in Seq(S), NEW p, p \notin S
    PROVE  First(s, p) = 0 /\ Before(s, 0) = s /\ After(s, 0) = <<>>
<1>1. {i \in 1 .. Len(s) : s[i] = p} = {}
  OBVIOUS
<1>2. First(s, p) = 0
  BY <1>1, Zenon DEF First, SelectInSeq
<1> QED BY <1>2 DEF Before, After

\* The same of a piece that is looked for from the end.
LEMMA FinalNone ==
    ASSUME NEW S, NEW s \in Seq(S), NEW p, p \notin S
    PROVE  Final(s, p) = 0 /\ Before(s, 0) = s /\ After(s, 0) = <<>>
<1>1. {i \in 1 .. Len(s) : s[i] = p} = {}
  OBVIOUS
<1>2. Final(s, p) = 0
  BY <1>1, Zenon DEF Final, SelectLastInSeq
<1> QED BY <1>2 DEF Before, After

\* The least and the greatest of a set of places, if it is known.
LEMMA MinIs ==
    ASSUME NEW I \in SUBSET Nat, NEW k \in I, \A i \in I : k <= i
    PROVE  Min(I) = k
<1>1. PICK m : m = Min(I)
  OBVIOUS
<1>2. m \in I /\ \A i \in I : m <= i
  BY <1>1, Zenon DEF Min
<1>3. m <= k /\ k <= m /\ m \in Nat /\ k \in Nat
  BY <1>2
<1>4. m = k
  BY <1>3
<1> QED BY <1>1, <1>4

\* The greatest one.
LEMMA MaxIs ==
    ASSUME NEW I \in SUBSET Nat, NEW k \in I, \A i \in I : i <= k
    PROVE  Max(I) = k
<1>1. PICK m : m = Max(I)
  OBVIOUS
<1>2. m \in I /\ \A i \in I : m >= i
  <2>1. \A i \in I : k >= i
    OBVIOUS
  <2> QED BY <1>1, <2>1, Zenon DEF Max
<1>3. m <= k /\ k <= m /\ m \in Nat /\ k \in Nat
  BY <1>2
<1>4. m = k
  BY <1>3
<1> QED BY <1>1, <1>4

\* A sequence that is cut at a place.
LEMMA Cut ==
    ASSUME NEW R, NEW s \in Seq(R), NEW p \in R, NEW t \in Seq(R)
    PROVE  LET whole == s \o <<p>> \o t
               k == Len(s) + 1
           IN /\ whole \in Seq(R) /\ k \in 1 .. Len(whole) /\ whole[k] = p
              /\ \A i \in 1 .. Len(whole) : i < k => whole[i] = s[i] /\ i \in 1 .. Len(s)
              /\ \A i \in 1 .. Len(whole) : i > k => whole[i] = t[i - k] /\ i - k \in 1 .. Len(t)
              /\ Before(whole, k) = s /\ After(whole, k) = t
<1> DEFINE whole == s \o <<p>> \o t
           k == Len(s) + 1
<1>1. /\ whole \in Seq(R) /\ Len(whole) = k + Len(t) /\ k \in Nat \ {0} /\ Len(t) \in Nat
      /\ whole[k] = p
      /\ \A i \in 1 .. Len(s) : whole[i] = s[i]
      /\ \A i \in 1 .. Len(t) : whole[k + i] = t[i]
  OBVIOUS
<1> HIDE DEF whole, k
<1>2. k \in 1 .. Len(whole)
  BY <1>1
<1>3. \A i \in 1 .. Len(whole) : i < k => whole[i] = s[i] /\ i \in 1 .. Len(s)
  BY <1>1 DEF k
<1>4. ASSUME NEW i \in 1 .. Len(whole), i > k
      PROVE  whole[i] = t[i - k] /\ i - k \in 1 .. Len(t)
  <2>1. i - k \in 1 .. Len(t) /\ k + (i - k) = i
    <3>1. \A a, b, n \in Nat : a <= b + n /\ a > b => a - b \in 1 .. n /\ b + (a - b) = a
      OBVIOUS
    <3>2. i \in Nat /\ i <= k + Len(t)
      BY <1>1
    <3> QED BY <1>1, <1>4, <3>1, <3>2
  <2>2. whole[k + (i - k)] = t[i - k]
    BY <1>1, <2>1
  <2> QED BY <2>1, <2>2
<1>5. Before(whole, k) = s
  <2>1. k # 0 /\ k - 1 = Len(s) /\ Len(s) <= Len(whole)
    BY <1>1 DEF k
  <2>2. SubSeq(whole, 1, Len(s)) = s
    BY <1>1, <2>1
  <2> QED BY <2>1, <2>2 DEF Before
<1>6. After(whole, k) = t
  <2>1. k # 0 /\ k + 1 \in Nat \ {0}
    BY <1>1
  <2>2. PICK r : r = SubSeq(whole, k + 1, Len(whole))
    OBVIOUS
  <2>3. r \in Seq(R) /\ Len(r) = Len(t)
    BY <1>1, <2>1, <2>2
  <2>4. \A i \in 1 .. Len(t) : r[i] = t[i]
    <3> SUFFICES ASSUME NEW i \in 1 .. Len(t) PROVE r[i] = t[i]
      OBVIOUS
    <3>1. r[i] = whole[(k + 1) + (i - 1)]
      BY <1>1, <2>1, <2>2
    <3>2. (k + 1) + (i - 1) = k + i
      BY <1>1
    <3> QED BY <1>1, <3>1, <3>2
  <2>5. r = t
    BY <2>3, <2>4
  <2> QED BY <2>1, <2>2, <2>5 DEF After
<1> QED BY <1>1, <1>2, <1>3, <1>4, <1>5, <1>6 DEF whole, k

\* split_once, of a piece that only the first part cannot have.
LEMMA FirstAt ==
    ASSUME NEW S, NEW s \in Seq(S), NEW p, p \notin S, NEW T, NEW t \in Seq(T)
    PROVE  LET whole == s \o <<p>> \o t IN
           /\ First(whole, p) = Len(s) + 1
           /\ Before(whole, First(whole, p)) = s /\ After(whole, First(whole, p)) = t
<1>1. PICK R : R = S \cup T \cup {p}
  OBVIOUS
<1>2. s \in Seq(R) /\ t \in Seq(R) /\ p \in R
  BY <1>1
<1>3. PICK whole, k : whole = s \o <<p>> \o t /\ k = Len(s) + 1
  OBVIOUS
<1>4. /\ whole \in Seq(R) /\ k \in 1 .. Len(whole) /\ whole[k] = p
      /\ \A i \in 1 .. Len(whole) : i < k => whole[i] = s[i] /\ i \in 1 .. Len(s)
      /\ Before(whole, k) = s /\ After(whole, k) = t
  BY <1>2, <1>3, Cut
<1> DEFINE I == {i \in 1 .. Len(whole) : whole[i] = p}
<1>5. k \in I
  BY <1>4
<1>6. \A i \in I : k <= i
  <2> SUFFICES ASSUME NEW i \in I, i < k PROVE FALSE
    BY <1>4
  <2>1. s[i] = p /\ i \in 1 .. Len(s)
    BY <1>4
  <2> QED BY <2>1
<1>7. Min(I) = k
  <2>1. I \in SUBSET Nat
    BY <1>4
  <2> HIDE DEF I
  <2> QED BY <1>5, <1>6, <2>1, MinIs
<1>8. First(whole, p) = k
  <2>1. I # {}
    BY <1>5
  <2> QED BY <1>7, <2>1, Zenon DEF First, SelectInSeq
<1> QED BY <1>3, <1>4, <1>8

\* rsplit_once, of a piece that only the second part cannot have.
LEMMA FinalAt ==
    ASSUME NEW S, NEW s \in Seq(S), NEW p, NEW T, NEW t \in Seq(T), p \notin T
    PROVE  LET whole == s \o <<p>> \o t IN
           /\ Final(whole, p) = Len(s) + 1
           /\ Before(whole, Final(whole, p)) = s /\ After(whole, Final(whole, p)) = t
<1>1. PICK R : R = S \cup T \cup {p}
  OBVIOUS
<1>2. s \in Seq(R) /\ t \in Seq(R) /\ p \in R
  BY <1>1
<1>3. PICK whole, k : whole = s \o <<p>> \o t /\ k = Len(s) + 1
  OBVIOUS
<1>4. /\ whole \in Seq(R) /\ k \in 1 .. Len(whole) /\ whole[k] = p
      /\ \A i \in 1 .. Len(whole) : i > k => whole[i] = t[i - k] /\ i - k \in 1 .. Len(t)
      /\ Before(whole, k) = s /\ After(whole, k) = t
  BY <1>2, <1>3, Cut
<1> DEFINE I == {i \in 1 .. Len(whole) : whole[i] = p}
<1>5. k \in I
  BY <1>4
<1>6. \A i \in I : i <= k
  <2> SUFFICES ASSUME NEW i \in I, i > k PROVE FALSE
    BY <1>4
  <2>1. t[i - k] = p /\ i - k \in 1 .. Len(t)
    BY <1>4
  <2> QED BY <2>1
<1>7. Max(I) = k
  <2>1. I \in SUBSET Nat
    BY <1>4
  <2> HIDE DEF I
  <2> QED BY <1>5, <1>6, <2>1, MaxIs
<1>8. Final(whole, p) = k
  <2>1. I # {}
    BY <1>5
  <2> QED BY <1>7, <2>1, Zenon DEF Final, SelectLastInSeq
<1> QED BY <1>3, <1>4, <1>8

-----------------------------------------------------------------------------
(* The address. *)

\* The characters that an address is taken apart at; how MakeLink writes host and port.
Marks == {"/", "@", "?", "#", "[", "]"}

HostText(host) == IF Contains(host, ":") THEN <<"[">> \o host \o <<"]">> ELSE host

PortText(port) == IF port = <<>> THEN <<>> ELSE <<":">> \o port

PortOf(port) == IF port = <<>> THEN <<"443">> ELSE port

\* What of the end of the address is told by the places that are looked for.
LEMMA EndpointIs ==
    ASSUME NEW s, NEW from
    PROVE  /\ ~ (s # <<>> /\ s[1] = "[") /\ from = Final(s, ":") =>
                /\ Endpoint(s).host = Before(s, from)
                /\ Endpoint(s).port = (IF from # 0 THEN After(s, from) ELSE DefaultPort)
                /\ Endpoint(s).ok <=> Endpoint(s).port \in Ports /\ Endpoint(s).host # <<>>
           /\ (s # <<>> /\ s[1] = "[") /\ from = First(s, "]") + 1 =>
                /\ Endpoint(s).host = SubSeq(s, 2, First(s, "]") - 1)
                /\ Endpoint(s).port = (IF from <= Len(s) /\ s[from] = ":" THEN After(s, from) ELSE DefaultPort)
                /\ Endpoint(s).ok <=> First(s, "]") # 0 /\ Endpoint(s).port \in Ports /\ Endpoint(s).host # <<>>
<1>1. CASE ~ (s # <<>> /\ s[1] = "[")
  BY <1>1 DEF Endpoint
<1>2. CASE s # <<>> /\ s[1] = "["
  BY <1>2 DEF Endpoint
<1> QED BY <1>1, <1>2

\* What is read as this host and this port.
IsEndpoint(s, host, port) ==
    Endpoint(s).ok /\ Endpoint(s).host = host /\ Endpoint(s).port = port

\* A port is digits.
LEMMA PortSeq ==
    ASSUME NEW port \in Ports
    PROVE  port \in Seq({"443", "8443"}) /\ ":" \notin {"443", "8443"}
<1>1. PICK a, b, D : a = "443" /\ b = "8443" /\ D = {"443", "8443"}
  OBVIOUS
<1>2. a \in D /\ b \in D
  BY <1>1
<1>3. <<a>> \in Seq(D) /\ <<b>> \in Seq(D)
  BY <1>2
<1>4. port = <<a>> \/ port = <<b>>
  BY <1>1 DEF Ports
<1> QED BY <1>1, <1>3, <1>4

\* An address with a name for its host is read as the host and the port.
LEMMA EndpointNamed ==
    ASSUME NEW H, "[" \notin H, ":" \notin H, NEW host \in Seq(H), host # <<>>,
           NEW port \in {<<>>} \cup Ports
    PROVE  IsEndpoint(host \o PortText(port), host, PortOf(port))
<1>1. PICK colon, open : colon = ":" /\ open = "["
  OBVIOUS
<1>2. Len(host) \in Nat \ {0} /\ host[1] # open
  BY <1>1
<1>3. CASE port = <<>>
  <2>1. host \o PortText(port) = host /\ PortOf(port) = DefaultPort
    BY <1>3 DEF PortText, PortOf, DefaultPort
  <2>2. Final(host, ":") = 0 /\ Before(host, 0) = host
    BY FinalNone
  <2>3. /\ Endpoint(host).host = host /\ Endpoint(host).port = DefaultPort
        /\ Endpoint(host).ok <=> Endpoint(host).port \in Ports /\ Endpoint(host).host # <<>>
    BY <1>1, <1>2, <2>2, EndpointIs
  <2>4. DefaultPort \in Ports
    BY DEF DefaultPort, Ports
  <2> QED BY <2>1, <2>3, <2>4 DEF IsEndpoint
<1>4. CASE port # <<>>
  <2>1. PortOf(port) = port /\ PortText(port) = <<colon>> \o port
    BY <1>1, <1>4 DEF PortText, PortOf
  <2>2. PICK D : D = {"443", "8443"}
    OBVIOUS
  <2>3. port \in Seq(D) /\ colon \notin D
    BY <1>1, <1>4, <2>2, PortSeq
  <2>4. PICK s : s = host \o <<colon>> \o port
    OBVIOUS
  <2>5. Final(s, colon) = Len(host) + 1 /\ Before(s, Final(s, colon)) = host
        /\ After(s, Final(s, colon)) = port
    BY <2>3, <2>4, FinalAt
  <2>6. s = host \o (<<colon>> \o port) /\ s[1] = host[1]
    <3>1. PICK C : C = H \cup D \cup {colon}
      OBVIOUS
    <3>2. host \in Seq(C) /\ port \in Seq(C) /\ <<colon>> \in Seq(C)
      BY <2>3, <3>1
    <3>3. s = host \o (<<colon>> \o port)
      BY <2>4, <3>2
    <3>4. s[1] = host[1]
      BY <1>2, <2>4, <3>2
    <3> QED BY <3>3, <3>4
  <2>7. Final(s, colon) # 0
    BY <1>2, <2>5
  <2>8. /\ Endpoint(s).host = host /\ Endpoint(s).port = port
        /\ Endpoint(s).ok <=> Endpoint(s).port \in Ports /\ Endpoint(s).host # <<>>
    BY <1>1, <1>2, <2>5, <2>6, <2>7, EndpointIs
  <2>9. port \in Ports
    BY <1>4
  <2> QED BY <2>1, <2>6, <2>8, <2>9 DEF IsEndpoint
<1> QED BY <1>3, <1>4

\* So is one with an IPv6 address in brackets, whatever ":" there are in it.
LEMMA EndpointBracketed ==
    ASSUME NEW H, "]" \notin H, NEW host \in Seq(H), host # <<>>,
           NEW port \in {<<>>} \cup Ports
    PROVE  IsEndpoint(<<"[">> \o host \o <<"]">> \o PortText(port), host, PortOf(port))
<1>1. PICK colon, open, shut : colon = ":" /\ open = "[" /\ shut = "]"
  OBVIOUS
<1>2. PICK D, t : D = {"443", "8443"} \cup {colon} /\ t = PortText(port)
  OBVIOUS
<1>3. t \in Seq(D)
  <2>1. CASE port = <<>>
    BY <1>2, <2>1 DEF PortText
  <2>2. CASE port # <<>>
    <3>1. port \in Seq(D) /\ <<colon>> \in Seq(D)
      <4>1. PICK E : E = {"443", "8443"}
        OBVIOUS
      <4>2. port \in Seq(E)
        BY <2>2, <4>1, PortSeq
      <4>3. D = E \cup {colon}
        BY <1>2, <4>1
      <4> QED BY <4>2, <4>3
    <3>2. t = <<colon>> \o port
      BY <1>1, <1>2, <2>2 DEF PortText
    <3> QED BY <3>1, <3>2
  <2> QED BY <2>1, <2>2
<1>4. PICK n, B, C : n = Len(host) /\ B = H \cup {open} /\ C = B \cup D \cup {shut}
  OBVIOUS
<1>5. PICK u : u = <<open>> \o host
  OBVIOUS
<1>6. /\ n \in Nat \ {0} /\ u \in Seq(B) /\ Len(u) = n + 1 /\ u[1] = open
      /\ \A i \in 1 .. n : u[i + 1] = host[i]
  <2>1. host \in Seq(B) /\ <<open>> \in Seq(B) /\ n \in Nat \ {0} /\ Len(host) = n
    BY <1>4
  <2> QED BY <1>5, <2>1
<1>7. PICK s, z : s = u \o <<shut>> \o t /\ z = First(s, shut)
  OBVIOUS
<1>8. z = n + 2
  <2>1. shut \notin B
    BY <1>1, <1>4
  <2>2. First(s, shut) = Len(u) + 1
    BY <1>3, <1>6, <1>7, <2>1, FirstAt
  <2> QED BY <1>6, <1>7, <2>2
<1>9. /\ Len(s) = n + 2 + Len(t) /\ s \in Seq(C) /\ Len(t) \in Nat
      /\ \A i \in 1 .. n + 1 : s[i] = u[i]
      /\ \A i \in 1 .. Len(t) : s[n + 2 + i] = t[i]
  <2>1. u \in Seq(C) /\ t \in Seq(C) /\ <<shut>> \in Seq(C)
    BY <1>3, <1>4, <1>6
  <2>2. PICK v : v = u \o <<shut>>
    OBVIOUS
  <2>3. v \in Seq(C) /\ Len(v) = n + 2 /\ \A i \in 1 .. n + 1 : v[i] = u[i]
    BY <1>6, <2>1, <2>2
  <2>4. s = v \o t
    BY <1>7, <2>2
  <2>5. PICK m : m = n + 2
    OBVIOUS
  <2>6. m \in Nat /\ Len(v) = m /\ v \in Seq(C)
    BY <1>6, <2>3, <2>5
  <2>7. Len(s) = m + Len(t) /\ s \in Seq(C) /\ Len(t) \in Nat
        /\ \A i \in 1 .. Len(t) : s[m + i] = t[i]
    <3>1. Len(s) = Len(v) + Len(t) /\ s \in Seq(C) /\ Len(t) \in Nat
          /\ \A i \in 1 .. Len(t) : s[Len(v) + i] = t[i]
      <4>1. v \in Seq(C) /\ t \in Seq(C)
        BY <2>1, <2>6
      <4>2. Len(s) = Len(v) + Len(t)
        BY <2>4, <4>1
      <4>3. s \in Seq(C) /\ Len(t) \in Nat
        BY <2>4, <4>1
      <4>4. \A i \in 1 .. Len(t) : s[Len(v) + i] = t[i]
        BY <2>4, <4>1
      <4> QED BY <4>2, <4>3, <4>4
    <3> QED BY <2>6, <3>1
  <2>8. \A i \in 1 .. n + 1 : i \in 1 .. Len(v)
    BY <1>6, <2>3
  <2>9. \A i \in 1 .. n + 1 : s[i] = v[i]
    BY <2>1, <2>3, <2>4, <2>8
  <2> QED BY <2>3, <2>5, <2>7, <2>9
<1>10. s # <<>> /\ s[1] = open
  BY <1>6, <1>9
<1>11. SubSeq(s, 2, n + 1) = host
  <2>1. PICK r : r = SubSeq(s, 2, n + 1)
    OBVIOUS
  <2>2. r \in Seq(C) /\ Len(r) = n
    BY <1>6, <1>9, <2>1
  <2>3. \A i \in 1 .. n : r[i] = host[i]
    <3> SUFFICES ASSUME NEW i \in 1 .. n PROVE r[i] = host[i]
      OBVIOUS
    <3>1. r[i] = s[2 + (i - 1)]
      BY <1>6, <1>9, <2>1
    <3>2. 2 + (i - 1) = i + 1 /\ i + 1 \in 1 .. n + 1
      BY <1>6
    <3>3. s[i + 1] = u[i + 1] /\ u[i + 1] = host[i]
      BY <1>6, <1>9, <3>2
    <3> QED BY <3>1, <3>2, <3>3
  <2> QED BY <1>4, <1>6, <2>1, <2>2, <2>3
<1>12. PICK from : from = z + 1
  OBVIOUS
<1>13. z - 1 = n + 1 /\ from = n + 3 /\ z # 0
  BY <1>6, <1>8, <1>12
<1>14. (IF from <= Len(s) /\ s[from] = colon THEN After(s, from) ELSE DefaultPort) = PortOf(port)
  <2>1. CASE port = <<>>
    <3>1. t = <<>> /\ Len(t) = 0
      BY <1>2, <2>1 DEF PortText
    <3>2. ~ (from <= Len(s))
      BY <1>6, <1>9, <1>13, <3>1
    <3> QED BY <2>1, <3>2 DEF PortOf, DefaultPort
  <2>2. CASE port # <<>>
    <3>1. t = <<colon>> \o port /\ port \in Seq(D) /\ <<colon>> \in Seq(D)
      <4>1. PICK E : E = {"443", "8443"}
        OBVIOUS
      <4>2. port \in Seq(E)
        BY <2>2, <4>1, PortSeq
      <4>3. D = E \cup {colon}
        BY <1>2, <4>1
      <4>4. port \in Seq(D) /\ <<colon>> \in Seq(D)
        BY <4>2, <4>3
      <4> QED BY <1>1, <1>2, <2>2, <4>4 DEF PortText
    <3>2. Len(t) = 1 + Len(port) /\ t[1] = colon /\ Len(port) \in Nat
      BY <3>1
    <3>3. from <= Len(s) /\ s[from] = colon
      <4>1. 1 \in 1 .. Len(t) /\ n + 2 + 1 = from
        BY <1>6, <1>13, <3>2
      <4> QED BY <1>6, <1>9, <1>13, <3>2, <4>1
    <3>4. After(s, from) = port
      <4>1. PICK v : v = u \o <<shut>>
        OBVIOUS
      <4>2. v \in Seq(C) /\ Len(v) = n + 2 /\ port \in Seq(C) /\ colon \in C
        <5>1. u \in Seq(C) /\ <<shut>> \in Seq(C) /\ port \in Seq(C) /\ colon \in C
          BY <1>2, <1>3, <1>4, <1>6, <3>1
        <5> QED BY <1>6, <4>1, <5>1
      <4>3. s = v \o <<colon>> \o port
        BY <1>7, <3>1, <4>1, <4>2
      <4>4. Len(v) + 1 = from
        BY <1>6, <1>13, <4>2
      <4>5. After(v \o <<colon>> \o port, Len(v) + 1) = port
        BY <4>2, Cut
      <4> QED BY <4>3, <4>4, <4>5
    <3> QED BY <2>2, <3>3, <3>4 DEF PortOf
  <2> QED BY <2>1, <2>2
<1>15. Endpoint(s).host = host /\ Endpoint(s).port = PortOf(port)
       /\ (Endpoint(s).ok <=> Endpoint(s).port \in Ports /\ Endpoint(s).host # <<>>)
  <2>1. /\ Endpoint(s).host = SubSeq(s, 2, First(s, "]") - 1)
        /\ Endpoint(s).port = (IF from <= Len(s) /\ s[from] = ":" THEN After(s, from) ELSE DefaultPort)
        /\ Endpoint(s).ok <=> First(s, "]") # 0 /\ Endpoint(s).port \in Ports /\ Endpoint(s).host # <<>>
    BY <1>1, <1>7, <1>10, <1>12, EndpointIs
  <2> QED BY <1>1, <1>7, <1>11, <1>13, <1>14, <2>1
<1>16. PortOf(port) \in Ports
  BY DEF PortOf, Ports
<1> QED BY <1>1, <1>2, <1>5, <1>7, <1>15, <1>16 DEF IsEndpoint

-----------------------------------------------------------------------------
(* Blanks around a link. *)

\* The places where trim cuts.
TrimFrom(s) == CHOOSE k \in 1 .. Len(s) + 1 :
                  (k <= Len(s) => s[k] # Blank) /\ \A j \in 1 .. k - 1 : ~ (s[j] # Blank)

TrimTo(s) == CHOOSE k \in 0 .. Len(s) :
                (k >= 1 => s[k] # Blank) /\ \A j \in k + 1 .. Len(s) : ~ (s[j] # Blank)

\* Trim cuts at the first and the last piece that are not blank.
LEMMA TrimIs ==
    ASSUME NEW S, NEW s \in Seq(S), NEW n \in 1 .. Len(s), s[1] # Blank, s[n] # Blank,
           \A j \in n + 1 .. Len(s) : s[j] = Blank
    PROVE  Trim(s) = SubSeq(s, 1, n)
<1>1. Trim(s) = SubSeq(s, TrimFrom(s), TrimTo(s))
  BY Zenon DEF Trim, TrimFrom, TrimTo
<1>2. Len(s) \in Nat /\ n \in Nat /\ n >= 1 /\ n <= Len(s)
  OBVIOUS
<1>3. TrimFrom(s) = 1
  <2> DEFINE P(k) == (k <= Len(s) => s[k] # Blank) /\ \A j \in 1 .. k - 1 : ~ (s[j] # Blank)
  <2>1. 1 \in 1 .. Len(s) + 1 /\ P(1)
    BY <1>2
  <2>2. \A k \in 1 .. Len(s) + 1 : P(k) => k = 1
    <3> SUFFICES ASSUME NEW k \in 1 .. Len(s) + 1, P(k), k # 1 PROVE FALSE
      OBVIOUS
    <3>1. 1 \in 1 .. k - 1
      BY <1>2
    <3> QED BY <3>1
  <2>3. TrimFrom(s) = CHOOSE k \in 1 .. Len(s) + 1 : P(k)
    BY Zenon DEF TrimFrom
  <2> HIDE DEF P
  <2>4. TrimFrom(s) \in 1 .. Len(s) + 1 /\ P(TrimFrom(s))
    BY <2>1, <2>3, Zenon
  <2> QED BY <2>2, <2>4
<1>4. TrimTo(s) = n
  <2> DEFINE P(k) == (k >= 1 => s[k] # Blank) /\ \A j \in k + 1 .. Len(s) : ~ (s[j] # Blank)
  <2>1. n \in 0 .. Len(s) /\ P(n)
    BY <1>2
  <2>2. \A k \in 0 .. Len(s) : P(k) => k = n
    <3> SUFFICES ASSUME NEW k \in 0 .. Len(s), P(k), k # n PROVE FALSE
      OBVIOUS
    <3>1. k < n => n \in k + 1 .. Len(s)
      BY <1>2
    <3>2. k > n => k \in n + 1 .. Len(s) /\ k >= 1
      BY <1>2
    <3> QED BY <1>2, <3>1, <3>2
  <2>3. TrimTo(s) = CHOOSE k \in 0 .. Len(s) : P(k)
    BY Zenon DEF TrimTo
  <2> HIDE DEF P
  <2>4. TrimTo(s) \in 0 .. Len(s) /\ P(TrimTo(s))
    BY <2>1, <2>3, Zenon
  <2> QED BY <2>2, <2>4
<1> QED BY <1>1, <1>3, <1>4

\* Of nothing, nothing is cut off.
LEMMA TrimNone == Trim(<<>>) = <<>>
<1>1. PICK s : s = <<>>
  OBVIOUS
<1>2. Trim(s) = SubSeq(s, TrimFrom(s), TrimTo(s))
  BY Zenon DEF Trim, TrimFrom, TrimTo
<1>3. Len(s) = 0 /\ s \in Seq({})
  BY <1>1
<1>4. TrimFrom(s) = 1
  <2> DEFINE P(k) == (k <= Len(s) => s[k] # Blank) /\ \A j \in 1 .. k - 1 : ~ (s[j] # Blank)
  <2>1. 1 \in 1 .. Len(s) + 1 /\ P(1) /\ 1 .. Len(s) + 1 = {1}
    BY <1>3
  <2>2. TrimFrom(s) = CHOOSE k \in 1 .. Len(s) + 1 : P(k)
    BY Zenon DEF TrimFrom
  <2> HIDE DEF P
  <2>3. TrimFrom(s) \in 1 .. Len(s) + 1
    BY <2>1, <2>2, Zenon
  <2> QED BY <2>1, <2>3
<1>5. TrimTo(s) = 0
  <2> DEFINE P(k) == (k >= 1 => s[k] # Blank) /\ \A j \in k + 1 .. Len(s) : ~ (s[j] # Blank)
  <2>1. 0 \in 0 .. Len(s) /\ P(0) /\ 0 .. Len(s) = {0}
    BY <1>3
  <2>2. TrimTo(s) = CHOOSE k \in 0 .. Len(s) : P(k)
    BY Zenon DEF TrimTo
  <2> HIDE DEF P
  <2>3. TrimTo(s) \in 0 .. Len(s)
    BY <2>1, <2>2, Zenon
  <2> QED BY <2>1, <2>3
<1>6. SubSeq(s, 1, 0) = <<>>
  BY <1>3
<1> QED BY <1>1, <1>2, <1>4, <1>5, <1>6

\* A blank at the end is cut off, and nothing else.
LEMMA TrimBlank ==
    ASSUME NEW S, NEW u \in Seq(S), u # <<>>, u[1] # Blank, u[Len(u)] # Blank
    PROVE  Trim(u) = u /\ Trim(Append(u, Blank)) = u
<1>1. PICK n : n = Len(u)
  OBVIOUS
<1>2. n \in Nat \ {0} /\ n \in 1 .. n
  BY <1>1
<1>3. Trim(u) = u
  <2>1. \A j \in n + 1 .. Len(u) : u[j] = Blank
    BY <1>1, <1>2
  <2>2. Trim(u) = SubSeq(u, 1, n)
    BY <1>1, <1>2, <2>1, TrimIs
  <2>3. SubSeq(u, 1, n) = u
    BY <1>1
  <2> QED BY <2>2, <2>3
<1>4. Trim(Append(u, Blank)) = u
  <2>1. PICK D, s : D = S \cup {Blank} /\ s = Append(u, Blank)
    OBVIOUS
  <2>2. s \in Seq(D) /\ Len(s) = n + 1 /\ s[n + 1] = Blank /\ \A j \in 1 .. n : s[j] = u[j]
    BY <1>1, <2>1
  <2>3. n \in 1 .. Len(s) /\ s[1] # Blank /\ s[n] # Blank
    BY <1>1, <1>2, <2>2
  <2>4. \A j \in n + 1 .. Len(s) : s[j] = Blank
    BY <1>2, <2>2
  <2>5. Trim(s) = SubSeq(s, 1, n)
    BY <2>2, <2>3, <2>4, TrimIs
  <2>6. SubSeq(s, 1, n) = u
    BY <1>1, <1>2, <2>1
  <2> QED BY <2>1, <2>5, <2>6
<1> QED BY <1>3, <1>4

-----------------------------------------------------------------------------
(* A configuration of words. *)

\* The fold of parse.
Reading == INSTANCE FoldFacts WITH Op <- W!ReadLine

\* What parse knows at first, and after some lines.
Unread == [ok |-> TRUE, seen |-> FALSE, at |-> "none",
           conf |-> [interface |-> W!NewSection("Interface"), peers |-> <<>>]]

KnownOf(lines) == W!FoldLeft(W!ReadLine, Unread, lines)

\* parse reads a line at a time, and takes the text if it is still so at the end.
LEMMA KnownFold ==
    /\ KnownOf(<<>>) = Unread
    /\ \A S : \A s \in Seq(S), l \in S : KnownOf(Append(s, l)) = W!ReadLine(KnownOf(s), l)
    /\ \A s : W!Parse(s).ok => KnownOf(s).ok
<1>1. \A s : KnownOf(s) = Reading!Fold(Unread, s)
  BY Zenon DEF KnownOf, W!FoldLeft, W!MapThenFoldSet, W!Max, Reading!Fold, Reading!FoldLeft,
               Reading!MapThenFoldSet, Reading!Max
<1>2. KnownOf(<<>>) = Unread
  BY <1>1, Reading!FoldEmpty
<1>3. ASSUME NEW S, NEW s \in Seq(S), NEW l \in S
      PROVE  KnownOf(Append(s, l)) = W!ReadLine(KnownOf(s), l)
  BY <1>1, Reading!FoldAppend
<1>4. ASSUME NEW s, W!Parse(s).ok PROVE KnownOf(s).ok
  <2>1. W!Parse(s) = [ok |-> KnownOf(s).ok /\ KnownOf(s).seen, conf |-> KnownOf(s).conf]
    BY Zenon DEF W!Parse, KnownOf, Unread
  <2>2. W!Parse(s).ok = (KnownOf(s).ok /\ KnownOf(s).seen)
    BY <2>1
  <2> QED BY <1>4, <2>2
<1> QED BY <1>2, <1>3, <1>4

\* Whatever is read, there is an answer, and a section that parse is at, or none.
Answers(acc) == {"ok", "at"} \subseteq DOMAIN acc /\ acc.at \in {"none", "Interface", "Peer"}

\* Each line that is read keeps it so.
LEMMA Answered ==
    ASSUME NEW acc, Answers(acc), NEW line
    PROVE  Answers(W!ReadLine(acc, line))
<1>1. {"ok", "at"} \subseteq DOMAIN acc /\ acc.at \in {"none", "Interface", "Peer"}
  BY DEF Answers
<1>2. Answers(W!Fail(acc))
  BY <1>1 DEF W!Fail, Answers
<1>3. ASSUME NEW name PROVE Answers(W!ReadHeader(acc, name))
  <2>1. \A x, y : Answers([acc EXCEPT !.seen = x, !.at = "Interface"])
    BY <1>1 DEF Answers
  <2>2. \A y : Answers([acc EXCEPT !.at = "Peer", !.conf.peers = y])
    BY <1>1 DEF Answers
  <2>3. \/ W!ReadHeader(acc, name) = W!Fail(acc)
        \/ \E x : W!ReadHeader(acc, name) = [acc EXCEPT !.seen = x, !.at = "Interface"]
        \/ \E y : W!ReadHeader(acc, name) = [acc EXCEPT !.at = "Peer", !.conf.peers = y]
    BY Zenon DEF W!ReadHeader
  <2> QED BY <1>2, <2>1, <2>2, <2>3
<1>4. ASSUME NEW key, NEW value PROVE Answers(W!ReadPair(acc, key, value))
  <2>1. \A y : Answers([acc EXCEPT !.conf.interface = y])
    BY <1>1 DEF Answers
  <2>2. \A k, y : Answers([acc EXCEPT !.conf.peers[k] = y])
    BY <1>1 DEF Answers
  <2>3. \/ W!ReadPair(acc, key, value) = W!Fail(acc)
        \/ \E y : W!ReadPair(acc, key, value) = [acc EXCEPT !.conf.interface = y]
        \/ \E k, y : W!ReadPair(acc, key, value) = [acc EXCEPT !.conf.peers[k] = y]
    BY <1>1, Zenon DEF W!ReadPair
  <2> QED BY <1>2, <2>1, <2>2, <2>3
<1>5. \/ W!ReadLine(acc, line) \in {acc, W!Fail(acc)}
      \/ W!ReadLine(acc, line) = W!ReadHeader(acc, line.name)
      \/ W!ReadLine(acc, line) = W!ReadPair(acc, line.key, W!Uncommented(line.value))
  BY Zenon DEF W!ReadLine
<1> QED BY <1>2, <1>3, <1>4, <1>5

\* A text that parse takes has no words that are none of its lines.
LEMMA WordsRefused ==
    ASSUME NEW S, NEW lines \in Seq(S), W!Parse(lines).ok
    PROVE  \A k \in DOMAIN lines : lines[k].is # "words"
<1> DEFINE Fine(s) == \A k \in DOMAIN s : s[k].is # "words"
           T == {s \in Seq(S) : Answers(KnownOf(s)) /\ (KnownOf(s).ok => Fine(s))}
<1>1. <<>> \in T
  <2>1. Answers(Unread)
    BY DEF Answers, Unread
  <2> QED BY <2>1, KnownFold
<1>2. ASSUME NEW s \in Seq(S), NEW l \in S, s \in T PROVE Append(s, l) \in T
  <2>1. Append(s, l) \in Seq(S)
    OBVIOUS
  <2>2. PICK acc : acc = KnownOf(s)
    OBVIOUS
  <2>3. KnownOf(Append(s, l)) = W!ReadLine(acc, l)
    BY <2>2, KnownFold
  <2>4. Answers(acc)
    BY <1>2, <2>2
  <2>5. Answers(KnownOf(Append(s, l)))
    BY <2>3, <2>4, Answered
  <2> SUFFICES ASSUME KnownOf(Append(s, l)).ok PROVE Fine(Append(s, l))
    BY <2>1, <2>5
  <2>6. acc.ok
    BY <2>3, Zenon DEF W!ReadLine
  <2>7. l.is # "words"
    <3> SUFFICES ASSUME l.is = "words" PROVE FALSE
      OBVIOUS
    <3>1. "words" \notin {"blank", "comment", "section", "pair"}
      OBVIOUS
    <3>2. W!ReadLine(acc, l) = W!Fail(acc)
      BY <2>6, <3>1, Zenon DEF W!ReadLine
    <3>3. W!Fail(acc).ok = FALSE
      BY <2>4 DEF Answers, W!Fail
    <3> QED BY <2>3, <3>2, <3>3
  <2>8. Fine(s)
    <3> HIDE DEF Fine
    <3> QED BY <1>2, <2>2, <2>6
  <2>9. /\ Len(s) \in Nat /\ DOMAIN s = 1 .. Len(s) /\ DOMAIN Append(s, l) = 1 .. Len(s) + 1
        /\ Append(s, l)[Len(s) + 1] = l /\ \A k \in 1 .. Len(s) : Append(s, l)[k] = s[k]
    OBVIOUS
  <2>10. \A k \in 1 .. Len(s) + 1 : k = Len(s) + 1 \/ k \in 1 .. Len(s)
    BY <2>9
  <2> QED BY <2>7, <2>8, <2>9, <2>10
<1>3. Seq(S) \subseteq T
  <2> HIDE DEF T
  <2> QED BY <1>1, <1>2, Reading!SeqInd
<1>4. KnownOf(lines).ok
  BY KnownFold
<1> HIDE DEF Fine
<1>5. Fine(lines)
  BY <1>3, <1>4
<1> QED BY <1>5 DEF Fine

-----------------------------------------------------------------------------
(* The place of a cut, and a blank after it. *)

\* Where split_once cuts: at the first of the pieces, if there is one.
LEMMA FirstPlace ==
    ASSUME NEW S, NEW s \in Seq(S), NEW p
    PROVE  \/ First(s, p) = 0 /\ \A i \in 1 .. Len(s) : s[i] # p
           \/ /\ First(s, p) \in 1 .. Len(s) /\ s[First(s, p)] = p
              /\ \A i \in 1 .. Len(s) : s[i] = p => First(s, p) <= i
<1>1. PICK I : I = {i \in 1 .. Len(s) : s[i] = p}
  OBVIOUS
<1>2. First(s, p) = IF I = {} THEN 0 ELSE Min(I)
  BY <1>1, Zenon DEF First, SelectInSeq
<1>3. CASE I = {}
  BY <1>1, <1>2, <1>3
<1>4. CASE I # {}
  <2>1. I \in SUBSET Nat
    BY <1>1
  <2>2. PICK k \in I : \A i \in I : k <= i
    BY <1>4, <2>1, Reading!Least
  <2>3. Min(I) = k
    BY <2>1, <2>2, MinIs
  <2> QED BY <1>1, <1>2, <1>4, <2>2, <2>3
<1> QED BY <1>3, <1>4

\* A place that is the first of its piece is the one where split_once cuts.
LEMMA FirstFound ==
    ASSUME NEW S, NEW s \in Seq(S), NEW p, NEW k \in 1 .. Len(s), s[k] = p,
           \A i \in 1 .. Len(s) : s[i] = p => k <= i
    PROVE  First(s, p) = k
<1>1. PICK f : f = First(s, p)
  OBVIOUS
<1>2. f \in 1 .. Len(s) /\ s[f] = p /\ \A i \in 1 .. Len(s) : s[i] = p => f <= i
  BY <1>1, FirstPlace
<1>3. f <= k /\ k <= f /\ f \in Nat /\ k \in Nat
  BY <1>2
<1> QED BY <1>1, <1>3

\* Where rsplit_once cuts: at the last one.
LEMMA FinalPlace ==
    ASSUME NEW S, NEW s \in Seq(S), NEW p
    PROVE  \/ Final(s, p) = 0 /\ \A i \in 1 .. Len(s) : s[i] # p
           \/ Final(s, p) \in 1 .. Len(s) /\ s[Final(s, p)] = p
<1>1. PICK I : I = {i \in 1 .. Len(s) : s[i] = p}
  OBVIOUS
<1>2. Final(s, p) = IF I = {} THEN 0 ELSE Max(I)
  BY <1>1, Zenon DEF Final, SelectLastInSeq
<1>3. CASE I = {}
  BY <1>1, <1>2, <1>3
<1>4. CASE I # {}
  <2>1. I \in SUBSET Nat
    BY <1>1
  <2>2. PICK J, n : n = Len(s) /\ J = {j \in Nat : \E i \in I : j = n - i}
    OBVIOUS
  <2>3. n \in Nat /\ \A i \in I : i \in 1 .. n
    BY <1>1, <2>2
  <2>4. J # {} /\ J \in SUBSET Nat
    <3>1. PICK i \in I : TRUE
      BY <1>4
    <3>2. n - i \in Nat
      BY <2>3
    <3> QED BY <2>2, <3>1, <3>2
  <2>5. PICK j \in J : \A l \in J : j <= l
    BY <2>4, Reading!Least
  <2>6. PICK k \in I : j = n - k
    BY <2>2
  <2>7. \A i \in I : i <= k
    <3> SUFFICES ASSUME NEW i \in I PROVE i <= k
      OBVIOUS
    <3>1. n - i \in Nat /\ n - i \in J
      BY <2>2, <2>3
    <3>2. n - k <= n - i
      BY <2>5, <2>6, <3>1
    <3> QED BY <2>3, <3>2
  <2>8. Max(I) = k
    BY <2>1, <2>7, MaxIs
  <2> QED BY <1>1, <1>2, <1>4, <2>8
<1> QED BY <1>3, <1>4

\* What ends with a blank is no port.
LEMMA BlankPort ==
    ASSUME NEW S, NEW s \in Seq(S), s[Len(s)] = Blank, NEW f \in 1 .. Len(s), f # Len(s)
    PROVE  After(s, f) \notin Ports
<1>1. PICK r, m : r = SubSeq(s, f + 1, Len(s)) /\ m = Len(s) - f
  OBVIOUS
<1>2. Len(s) \in Nat /\ m \in Nat \ {0} /\ (f + 1) + (m - 1) = Len(s)
  BY <1>1
<1>3. r \in Seq(S) /\ Len(r) = m
  BY <1>1, <1>2
<1>4. r[m] = s[(f + 1) + (m - 1)]
  BY <1>1, <1>2, <1>3
<1>5. r[Len(r)] = Blank
  BY <1>2, <1>3, <1>4
<1>6. After(s, f) = r
  BY <1>1, <1>2 DEF After
<1>7. \A q \in Ports : q[Len(q)] # Blank
  <2> SUFFICES ASSUME NEW q \in Ports PROVE q[Len(q)] # Blank
    OBVIOUS
  <2>1. PICK a, b : a = "443" /\ b = "8443"
    OBVIOUS
  <2>2. q = <<a>> \/ q = <<b>>
    BY <2>1 DEF Ports
  <2>3. \A c : q = <<c>> => Len(q) = 1 /\ q[1] = c
    OBVIOUS
  <2>4. q[Len(q)] = a \/ q[Len(q)] = b
    BY <2>2, <2>3
  <2> QED BY <2>1, <2>4 DEF Blank
<1> QED BY <1>5, <1>6, <1>7

\* An address that is taken with a blank after it is taken without it, if anything is left.
LEMMA EndpointTrim ==
    ASSUME NEW S, NEW v \in Seq(S), v # <<>>, Endpoint(Append(v, Blank)).ok
    PROVE  Endpoint(v).ok
<1>1. PICK s, n, D : s = Append(v, Blank) /\ n = Len(v) /\ D = S \cup {Blank}
  OBVIOUS
<1>2. /\ n \in Nat \ {0} /\ s \in Seq(D) /\ Len(s) = n + 1 /\ s[n + 1] = Blank
      /\ \A i \in 1 .. n : s[i] = v[i]
  BY <1>1
<1>3. s # <<>> /\ s[1] = v[1]
  BY <1>2
<1>4. \A f \in 1 .. n : After(s, f) \notin Ports
  <2>1. \A f \in 1 .. n : f \in 1 .. Len(s) /\ f # Len(s) /\ s[Len(s)] = Blank
    BY <1>2
  <2> QED BY <1>2, <2>1, BlankPort
<1>5. DefaultPort \in Ports
  BY DEF DefaultPort, Ports
<1>6. PICK colon, open, shut : colon = ":" /\ open = "[" /\ shut = "]"
  OBVIOUS
<1>7. colon # Blank /\ shut # Blank
  BY <1>6 DEF Blank
<1>8. CASE v[1] # open
  <2>1. PICK f : f = Final(s, colon)
    OBVIOUS
  <2>2. /\ Endpoint(s).port = (IF f # 0 THEN After(s, f) ELSE DefaultPort)
        /\ Endpoint(s).port \in Ports
    BY <1>1, <1>3, <1>6, <1>8, <2>1, EndpointIs
  <2>3. f = 0
    <3> SUFFICES ASSUME f # 0 PROVE FALSE
      OBVIOUS
    <3>1. f \in 1 .. Len(s) /\ s[f] = colon
      BY <1>2, <2>1, FinalPlace
    <3>2. f \in 1 .. n
      BY <1>2, <1>7, <3>1
    <3> QED BY <1>4, <2>2, <3>2
  <2>4. \A i \in 1 .. Len(s) : s[i] # colon
    <3>1. \/ f = 0 /\ \A i \in 1 .. Len(s) : s[i] # colon
          \/ f \in 1 .. Len(s) /\ s[f] = colon
      BY <1>2, <2>1, FinalPlace
    <3>2. f \notin 1 .. Len(s)
      BY <2>3
    <3> QED BY <3>1, <3>2
  <2>5. Final(v, colon) = 0
    <3>1. \A i \in 1 .. n : v[i] # colon
      BY <1>2, <2>4
    <3> QED BY <1>1, <3>1, FinalPlace
  <2>6. Endpoint(v).host = v /\ Endpoint(v).port = DefaultPort
        /\ (Endpoint(v).ok <=> Endpoint(v).port \in Ports /\ Endpoint(v).host # <<>>)
    <3>1. PICK z : z = 0
      OBVIOUS
    <3>2. /\ Endpoint(v).host = Before(v, z)
          /\ Endpoint(v).port = (IF z # 0 THEN After(v, z) ELSE DefaultPort)
          /\ Endpoint(v).ok <=> Endpoint(v).port \in Ports /\ Endpoint(v).host # <<>>
      BY <1>6, <1>8, <2>5, <3>1, EndpointIs
    <3> QED BY <3>1, <3>2 DEF Before
  <2> QED BY <1>5, <2>6
<1>9. CASE v[1] = open
  <2>1. PICK e, from : e = First(s, shut) /\ from = e + 1
    OBVIOUS
  <2>2. /\ Endpoint(s).host = SubSeq(s, 2, e - 1)
        /\ Endpoint(s).port = (IF from <= Len(s) /\ s[from] = colon THEN After(s, from) ELSE DefaultPort)
        /\ e # 0 /\ Endpoint(s).port \in Ports /\ Endpoint(s).host # <<>>
    <3>1. /\ Endpoint(s).host = SubSeq(s, 2, First(s, "]") - 1)
          /\ Endpoint(s).port = (IF from <= Len(s) /\ s[from] = ":" THEN After(s, from) ELSE DefaultPort)
          /\ Endpoint(s).ok <=> First(s, "]") # 0 /\ Endpoint(s).port \in Ports /\ Endpoint(s).host # <<>>
      BY <1>3, <1>6, <1>9, <2>1, EndpointIs
    <3>2. Endpoint(s).ok
      BY <1>1
    <3> QED BY <1>6, <2>1, <3>1, <3>2
  <2>3. /\ e \in 1 .. Len(s) /\ s[e] = shut
        /\ \A i \in 1 .. Len(s) : s[i] = shut => e <= i
    BY <1>2, <2>1, <2>2, FirstPlace
  <2>4. e \in 1 .. n
    BY <1>2, <1>7, <2>3
  <2>5. First(v, shut) = e
    <3>1. e \in 1 .. Len(v) /\ v[e] = shut
      BY <1>1, <1>2, <2>3, <2>4
    <3>2. \A i \in 1 .. Len(v) : v[i] = shut => e <= i
      BY <1>1, <1>2, <2>3
    <3> QED BY <3>1, <3>2, FirstFound
  <2>6. ~ (from <= Len(v) /\ v[from] = colon)
    <3> SUFFICES ASSUME from <= n, v[from] = colon PROVE FALSE
      BY <1>1
    <3>1. from \in 1 .. n /\ from <= Len(s)
      BY <1>2, <2>1, <2>4
    <3>2. s[from] = colon
      BY <1>2, <3>1
    <3> QED BY <1>4, <2>2, <3>1, <3>2
  <2>7. SubSeq(v, 2, e - 1) = SubSeq(s, 2, e - 1)
    <3>1. PICK a, b, m : a = SubSeq(v, 2, e - 1) /\ b = SubSeq(s, 2, e - 1) /\ m = e - 1
      OBVIOUS
    <3>2. m \in Nat /\ m <= n /\ v \in Seq(D)
      BY <1>1, <1>2, <2>4, <3>1
    <3>3. \A i \in 2 .. m : v[i] = s[i]
      BY <1>2, <3>2
    <3>4. a = [i \in 1 .. m - 2 + 1 |-> v[2 + i - 1]] /\ b = [i \in 1 .. m - 2 + 1 |-> s[2 + i - 1]]
      BY <1>2, <3>1, <3>2
    <3>5. \A i \in 1 .. m - 2 + 1 : 2 + i - 1 \in 2 .. m
      BY <3>2
    <3> QED BY <3>1, <3>3, <3>4, <3>5
  <2>8. Endpoint(v).host = SubSeq(v, 2, e - 1) /\ Endpoint(v).port = DefaultPort
        /\ (Endpoint(v).ok <=> e # 0 /\ Endpoint(v).port \in Ports /\ Endpoint(v).host # <<>>)
    <3>1. /\ Endpoint(v).host = SubSeq(v, 2, First(v, "]") - 1)
          /\ Endpoint(v).port = (IF from <= Len(v) /\ v[from] = ":" THEN After(v, from) ELSE DefaultPort)
          /\ Endpoint(v).ok <=> First(v, "]") # 0 /\ Endpoint(v).port \in Ports /\ Endpoint(v).host # <<>>
      BY <1>6, <1>9, <2>1, <2>5, EndpointIs
    <3> QED BY <1>6, <2>5, <2>6, <3>1
  <2> QED BY <1>5, <2>2, <2>7, <2>8
<1> QED BY <1>8, <1>9

-----------------------------------------------------------------------------
(* Links without a query. *)

\* Splitting at "/", piece by piece.
SlashPiece(acc, q) == IF q = "/" THEN Append(acc, <<>>)
                      ELSE [acc EXCEPT ![Len(acc)] = Append(@, q)]

\* The fold of these pieces.
Slashing == INSTANCE FoldFacts WITH Op <- SlashPiece

\* Split is this fold.
LEMMA SlashStep == \A s : Split(s, "/") = Slashing!Fold(<< <<>> >>, s)
BY Zenon DEF Split, SlashPiece, FoldLeft, MapThenFoldSet, Max, Slashing!Fold, Slashing!FoldLeft,
             Slashing!MapThenFoldSet, Slashing!Max

\* What has no "/" in it is not split there.
LEMMA SlashMore ==
    ASSUME NEW R, "/" \notin R, NEW t \in Seq(R)
    PROVE  Split(t, "/")[1] = t
<1> DEFINE T == {r \in Seq(R) : Slashing!Fold(<< <<>> >>, r) = <<r>>}
<1>1. <<>> \in T
  <2>1. <<>> \in Seq(R)
    OBVIOUS
  <2> QED BY <2>1, Slashing!FoldEmpty
<1>2. ASSUME NEW r \in Seq(R), NEW q \in R, r \in T PROVE Append(r, q) \in T
  <2>1. PICK new : new = Append(r, q)
    OBVIOUS
  <2>2. new \in Seq(R)
    BY <2>1
  <2>3. PICK acc : acc = <<r>>
    OBVIOUS
  <2>4. Slashing!Fold(<< <<>> >>, new) = SlashPiece(acc, q)
    BY <1>2, <2>1, <2>3, Slashing!FoldAppend
  <2>5. Len(acc) = 1 /\ acc[1] = r /\ [acc EXCEPT ![1] = new] = <<new>>
    BY <2>3
  <2>6. q # "/"
    OBVIOUS
  <2>7. SlashPiece(acc, q) = [acc EXCEPT ![1] = new]
    BY <2>1, <2>5, <2>6, Zenon DEF SlashPiece
  <2> QED BY <2>1, <2>2, <2>4, <2>5, <2>7
<1>3. Seq(R) \subseteq T
  <2> HIDE DEF T
  <2> QED BY <1>1, <1>2, Slashing!SeqInd
<1>4. Split(t, "/") = <<t>>
  BY <1>3, SlashStep
<1> QED BY <1>4

\* Two sequences of one element each.
LEMMA TwoOnes == ASSUME NEW u, NEW m PROVE <<u>> \o <<m>> = <<u, m>>
<1>1. PICK V, a, b, c, d : V = {u, m} /\ a = <<u>> /\ b = <<m>> /\ c = <<u, m>> /\ d = a \o b
  OBVIOUS
<1>2. u \in V /\ m \in V
  BY <1>1
<1>3. a \in Seq(V) /\ b \in Seq(V) /\ c \in Seq(V)
  BY <1>1, <1>2
<1>4. Len(a) = 1 /\ Len(b) = 1 /\ Len(c) = 2
  BY <1>1
<1>5. a[1] = u /\ b[1] = m /\ c[1] = u /\ c[2] = m
  BY <1>1
<1>6. d \in Seq(V)
  BY <1>1, <1>3
<1>7. Len(d) = 2
  BY <1>1, <1>3, <1>4
<1>8. \A i \in 1 .. Len(a) : d[i] = a[i]
  BY <1>1, <1>3
<1>9. \A i \in 1 .. Len(b) : d[Len(a) + i] = b[i]
  BY <1>1, <1>3
<1>10. d[1] = u /\ d[2] = m
  BY <1>4, <1>5, <1>8, <1>9
<1>11. d = c
  BY <1>3, <1>4, <1>5, <1>6, <1>7, <1>10
<1> QED BY <1>1, <1>11

\* The schemes that parse takes.
Schemes == {"vless://", "VLESS://"}

\* A link of a scheme, a user and an address, without a query and a name.
ShortLink(scheme, user, w) == <<scheme, user, "@">> \o w

\* Its pieces.
ShortShape(S, s, scheme, user, at, w) ==
    /\ s \in Seq(S \cup {scheme, user, at}) /\ Len(s) = Len(w) + 3
    /\ s # <<>> /\ s[1] = scheme /\ s[2] = user /\ s[3] = at
    /\ \A i \in 1 .. Len(w) : s[3 + i] = w[i]
    /\ Tail(s) = <<user>> \o <<at>> \o w

\* A link of this form has them.
LEMMA ShortParts ==
    ASSUME NEW S, NEW w \in Seq(S), NEW scheme, NEW user, NEW at, NEW s,
           s = <<scheme, user, at>> \o w
    PROVE  ShortShape(S, s, scheme, user, at, w)
<1>1. PICK D, h : D = S \cup {scheme, user, at} /\ h = <<scheme, user, at>> /\ s = h \o w
  OBVIOUS
<1>2. scheme \in D /\ user \in D /\ at \in D /\ w \in Seq(D)
  BY <1>1
<1>3. h \in Seq(D) /\ Len(h) = 3 /\ h[1] = scheme /\ h[2] = user /\ h[3] = at
  BY <1>1, <1>2
<1>4. h \in Seq(D) /\ w \in Seq(D)
  BY <1>2, <1>3
<1>5. s \in Seq(D) /\ Len(s) = Len(h) + Len(w) /\ Len(w) \in Nat
  BY <1>1, <1>4
<1>6. \A i \in 1 .. Len(h) : s[i] = h[i]
  BY <1>1, <1>4
<1>7. \A i \in 1 .. Len(w) : s[Len(h) + i] = w[i]
  BY <1>1, <1>4
<1>8. Len(s) = Len(w) + 3 /\ s # <<>> /\ s[1] = scheme /\ s[2] = user /\ s[3] = at
      /\ \A i \in 1 .. Len(w) : s[3 + i] = w[i]
  <2>1. s[1] = scheme /\ s[2] = user /\ s[3] = at
    BY <1>3, <1>6
  <2>2. Len(s) = Len(w) + 3 /\ s # <<>>
    BY <1>3, <1>5
  <2>3. \A i \in 1 .. Len(w) : s[3 + i] = w[i]
    BY <1>3, <1>7
  <2> QED BY <2>1, <2>2, <2>3
<1>9. Tail(s) = <<user>> \o <<at>> \o w
  <2>1. PICK t, g : t = Tail(s) /\ g = <<user, at>> \o w
    OBVIOUS
  <2>2. <<user>> \o <<at>> = <<user, at>>
    BY TwoOnes
  <2>3. PICK k : k = <<user, at>>
    OBVIOUS
  <2>4. k \in Seq(D) /\ Len(k) = 2 /\ k[1] = user /\ k[2] = at
    BY <1>2, <2>3
  <2>5. k \in Seq(D) /\ w \in Seq(D)
    BY <1>2, <2>4
  <2>6. g \in Seq(D) /\ Len(g) = Len(k) + Len(w)
    BY <2>1, <2>3, <2>5
  <2>7. \A i \in 1 .. Len(k) : g[i] = k[i]
    BY <2>1, <2>3, <2>5
  <2>8. \A i \in 1 .. Len(w) : g[Len(k) + i] = w[i]
    BY <2>1, <2>3, <2>5
  <2>9. t \in Seq(D) /\ Len(t) = Len(w) + 2
    BY <1>5, <1>8, <2>1
  <2>10. \A i \in 1 .. Len(t) : t[i] = s[i + 1]
    BY <1>5, <1>8, <2>1
  <2>11. t[1] = user /\ t[2] = at
    BY <1>5, <1>8, <2>9, <2>10
  <2>12. \A i \in 1 .. Len(w) : t[2 + i] = w[i]
    <3> SUFFICES ASSUME NEW i \in 1 .. Len(w) PROVE t[2 + i] = w[i]
      OBVIOUS
    <3>1. 2 + i \in 1 .. Len(t) /\ (2 + i) + 1 = 3 + i
      BY <1>5, <2>9
    <3> QED BY <1>8, <2>10, <3>1
  <2>13. \A i \in 1 .. Len(t) : i = 1 \/ i = 2 \/ (i - 2 \in 1 .. Len(w) /\ 2 + (i - 2) = i)
    BY <1>5, <2>9
  <2>14. \A i \in 1 .. Len(w) : g[2 + i] = w[i]
    BY <2>4, <2>8
  <2>15. g[1] = user /\ g[2] = at /\ Len(g) = Len(w) + 2
    BY <1>5, <2>4, <2>6, <2>7
  <2>16. \A i \in 1 .. Len(t) : t[i] = g[i]
    BY <2>11, <2>12, <2>13, <2>14, <2>15
  <2>17. t = g
    BY <2>6, <2>9, <2>15, <2>16
  <2> QED BY <2>1, <2>2, <2>17
<1> QED BY <1>1, <1>5, <1>8, <1>9 DEF ShortShape

\* Without a query and a name it is read by the address alone.
LEMMA ShortRead ==
    ASSUME NEW S, S \cap {"#", "?", "/", "@"} = {}, NEW w \in Seq(S), NEW scheme,
           NEW user, user \notin {"#", "?", "/", "@"}
    PROVE  ParseLink(ShortLink(scheme, user, w)).ok
             <=> scheme \in Schemes /\ <<user>> \in Uuids /\ Endpoint(w).ok
<1>1. PICK s, rest, at, one : s = ShortLink(scheme, user, w) /\ rest = Tail(s) /\ at = "@" /\ one = <<user>>
  OBVIOUS
<1>2. s # <<>> /\ s[1] = scheme /\ rest = one \o <<at>> \o w
  <2>1. s = <<scheme, user, at>> \o w
    BY <1>1 DEF ShortLink
  <2>2. w \in Seq(S)
    OBVIOUS
  <2>3. ShortShape(S, s, scheme, user, at, w)
    BY <2>1, <2>2, ShortParts
  <2>4. s # <<>> /\ s[1] = scheme /\ Tail(s) = <<user>> \o <<at>> \o w
    BY <2>3, Zenon DEF ShortShape
  <2> QED BY <1>1, <2>4
<1>3. PICK D : D = S \cup {user, at}
  OBVIOUS
<1>4. one \in Seq(D) /\ one \in Seq({user}) /\ Len(one) = 1
  <2>1. user \in D /\ user \in {user}
    BY <1>3
  <2> QED BY <1>1, <2>1
<1>5. rest \in Seq(D)
  <2>1. <<at>> \in Seq(D) /\ w \in Seq(D)
    <3>1. at \in D /\ S \subseteq D
      BY <1>3
    <3> QED BY <3>1
  <2> QED BY <1>2, <1>4, <2>1
<1>6. "#" \notin D /\ "?" \notin D /\ "/" \notin D /\ at \notin S
  BY <1>1, <1>3
<1>7. First(rest, "#") = 0 /\ Before(rest, 0) = rest
  BY <1>5, <1>6, FirstNone
<1>8. First(rest, "?") = 0
  BY <1>5, <1>6, FirstNone
<1>9. Split(rest, "/")[1] = rest
  BY <1>5, <1>6, SlashMore
<1>10. Final(rest, at) = Len(one) + 1 /\ Before(rest, Final(rest, at)) = one /\ After(rest, Final(rest, at)) = w
  <2>1. one \in Seq({user})
    BY <1>4
  <2> QED BY <1>2, <1>6, <2>1, FinalAt
<1>11. PICK end, f : end = Endpoint(w) /\ f = Final(rest, "@")
  OBVIOUS
<1>12. f # 0 /\ Before(rest, f) = one /\ Endpoint(After(rest, f)) = end
  BY <1>1, <1>4, <1>10, <1>11
<1>13. s[1] \notin Schemes => ParseLink(s) = NoLink
  BY <1>2, Zenon DEF ParseLink, Schemes
<1>14. s[1] \in Schemes /\ ~ (one \in Uuids /\ end.ok) => ParseLink(s) = NoLink
  <2>1. one \notin Uuids => ParseLink(s) = NoLink
    BY <1>1, <1>2, <1>7, <1>8, <1>9, <1>11, <1>12, Zenon DEF ParseLink, Schemes
  <2>2. ~ end.ok => ParseLink(s) = NoLink
    BY <1>1, <1>2, <1>7, <1>8, <1>9, <1>11, <1>12, Zenon DEF ParseLink, Schemes
  <2> QED BY <2>1, <2>2
<1>15. s[1] \in Schemes /\ one \in Uuids /\ end.ok => ParseLink(s).ok
  <2>1. PICK uri : uri = [ok |-> TRUE, id |-> Before(rest, f), host |-> end.host, port |-> end.port,
             name |-> Decode(After(rest, First(rest, "#"))),
             params |-> FoldLeft(ReadParam, <<>>, Split(After(rest, First(rest, "?")), "&"))]
    OBVIOUS
  <2>2. s[1] \in Schemes /\ one \in Uuids /\ end.ok => ParseLink(s) = uri
    BY <1>1, <1>2, <1>7, <1>8, <1>9, <1>11, <1>12, <2>1, Zenon DEF ParseLink, Schemes
  <2>3. uri.ok
    BY <2>1
  <2> QED BY <2>2, <2>3
<1>16. ~ NoLink.ok
  BY DEF NoLink
<1> QED BY <1>1, <1>2, <1>11, <1>13, <1>14, <1>15, <1>16

-----------------------------------------------------------------------------
(* The kind of a text. *)

\* ImportedAsSeen of any text.
AsSeen(t) ==
    Import(t).ok =>
        /\ \/ Validate(Import(t).profile)
           \/ /\ Import(t).profile.kind = "vless"
              /\ ToSet(Tail(Pieces(t))) = {"uuid", "@", Blank}
        /\ \/ DetectKind(t) \in {"none", Import(t).profile.kind}
           \/ Import(t).profile.kind = "wireguard" /\ Comment(TRUE) \in ToSet(t)

\* Of detectKind: the lines that are not blank, the first of them, and those that say "remote".
Full(t) == {k \in DOMAIN t : t[k].is # "blank"}

Opening(t) == t[CHOOSE k \in Full(t) : \A j \in Full(t) : k <= j]

SaysRemote(t, k) ==
    \/ t[k].is = "comment" /\ t[k].remote
    \/ /\ O!IsWord(t[k], {"remote"})
       /\ t[k].args # <<>> \/ \E j \in Full(t) : j > k

\* detectKind in these terms.
LEMMA DetectIs ==
    ASSUME NEW t
    PROVE  DetectKind(t) =
             IF Full(t) = {} THEN "none"
             ELSE IF Opening(t).is = "section" /\ Opening(t).name = "Interface" THEN "wireguard"
             ELSE IF Opening(t).is = "link" /\ ToSet(SubSeq(Trim(Opening(t).pieces), 1, 1)) = {"vless://"}
             THEN "vless"
             ELSE IF O!IsWord(Opening(t), {"client"}) \/ \E k \in Full(t) : SaysRemote(t, k)
             THEN "openvpn"
             ELSE "none"
BY Zenon DEF DetectKind, Full, Opening, SaysRemote

\* The first of the lines that are not blank is one of them.
LEMMA OpeningIs ==
    ASSUME NEW S, NEW t \in Seq(S), Full(t) # {}
    PROVE  \E k \in Full(t) : Opening(t) = t[k]
<1>1. Full(t) \in SUBSET Nat
  <2>1. DOMAIN t = 1 .. Len(t) /\ Len(t) \in Nat
    OBVIOUS
  <2> QED BY <2>1 DEF Full
<1>2. \E k \in Full(t) : \A j \in Full(t) : k <= j
  BY <1>1, Reading!Least
<1>3. PICK i : i = CHOOSE k \in Full(t) : \A j \in Full(t) : k <= j
  OBVIOUS
<1>4. i \in Full(t)
  BY <1>2, <1>3, Zenon
<1>5. Opening(t) = t[i]
  BY <1>3, Zenon DEF Opening
<1> QED BY <1>4, <1>5

\* import_profile takes a text for what infer_profile_kind says, or refuses it.
LEMMA ImportIs ==
    ASSUME NEW t, Import(t).ok
    PROVE  \/ /\ InferKind(t) = "wireguard" /\ W!Parse(t).ok
              /\ Import(t).profile.kind = "wireguard" /\ Import(t).profile.wg = <<t>>
           \/ /\ InferKind(t) = "openvpn"
              /\ Import(t).profile.kind = "openvpn" /\ Import(t).profile.ovpn = <<t>>
           \/ /\ InferKind(t) = "vless" /\ ParseLink(Pieces(t)).ok
              /\ Import(t).profile.kind = "vless" /\ Import(t).profile.vless = <<Trimmed(t)>>
<1>1. PICK kind : kind = InferKind(t)
  OBVIOUS
<1>2. PICK wg, ovpn, vless : wg = "wireguard" /\ ovpn = "openvpn" /\ vless = "vless"
  OBVIOUS
<1>3. wg # ovpn /\ wg # vless /\ ovpn # vless
  BY <1>2
<1>4. CASE kind = wg /\ W!Parse(t).ok
  <2>1. Import(t) = [ok |-> TRUE, profile |-> [Empty(kind) EXCEPT !.wg = <<t>>]]
    BY <1>1, <1>2, <1>4, Zenon DEF Import
  <2>2. Import(t).profile.kind = kind /\ Import(t).profile.wg = <<t>>
    BY <2>1 DEF Empty
  <2> QED BY <1>1, <1>2, <1>4, <2>2
<1>5. CASE kind = ovpn
  <2>1. Import(t) = [ok |-> TRUE, profile |-> [Empty(kind) EXCEPT !.ovpn = <<t>>]]
    BY <1>1, <1>2, <1>3, <1>5, Zenon DEF Import
  <2>2. Import(t).profile.kind = kind /\ Import(t).profile.ovpn = <<t>>
    BY <2>1 DEF Empty
  <2> QED BY <1>1, <1>2, <1>5, <2>2
<1>6. CASE kind = vless /\ ParseLink(Pieces(t)).ok
  <2>1. Import(t) = [ok |-> TRUE, profile |-> [Empty(kind) EXCEPT !.vless = <<Trimmed(t)>>]]
    BY <1>1, <1>2, <1>3, <1>6, Zenon DEF Import
  <2>2. Import(t).profile.kind = kind /\ Import(t).profile.vless = <<Trimmed(t)>>
    BY <2>1 DEF Empty
  <2> QED BY <1>1, <1>2, <1>6, <2>2
<1>7. CASE ~ (kind = wg /\ W!Parse(t).ok) /\ kind # ovpn /\ ~ (kind = vless /\ ParseLink(Pieces(t)).ok)
  <2>1. Import(t) = Refused
    BY <1>1, <1>2, <1>7, Zenon DEF Import
  <2>2. ~ Refused.ok
    BY DEF Refused
  <2> QED BY <2>1, <2>2
<1> QED BY <1>4, <1>5, <1>6, <1>7

-----------------------------------------------------------------------------
(* Imports of lines. *)

\* A line that is no link, and a comment only as Comment makes them.
Plainline(l) ==
    l.is # "link" /\ (l.is = "comment" => l = Comment(l.remote) /\ l.remote \in BOOLEAN)

\* A text of any number of lines is imported as a profile that can be connected, and of
\* the kind that detectKind took it for, but for the comment (import_profile).
LEMMA LinesSeen ==
    ASSUME NEW S, \A l \in S : Plainline(l), NEW t \in Seq(S)
    PROVE  AsSeen(t)
<1> SUFFICES ASSUME Import(t).ok
             PROVE  /\ Validate(Import(t).profile)
                    /\ \/ DetectKind(t) \in {"none", Import(t).profile.kind}
                       \/ Import(t).profile.kind = "wireguard" /\ Comment(TRUE) \in ToSet(t)
  BY Zenon DEF AsSeen
<1>1. DOMAIN t = 1 .. Len(t) /\ \A k \in DOMAIN t : t[k] \in S
  OBVIOUS
<1>2. \A k \in DOMAIN t : t[k].is # "link"
  BY <1>1 DEF Plainline
<1>3. Pieces(t) = <<>>
  <2>1. t # <<>> => 1 \in DOMAIN t
    BY <1>1
  <2> QED BY <1>2, <2>1, Zenon DEF Pieces
<1>4. InferKind(t) # "vless"
  <2>1. ~ LooksLikeVless(Trim(Pieces(t)))
    BY <1>3, TrimNone, Zenon DEF LooksLikeVless
  <2>2. "wireguard" # "vless" /\ "openvpn" # "vless" /\ "none" # "vless"
    OBVIOUS
  <2> QED BY <2>1, <2>2, Zenon DEF InferKind
<1>5. DetectKind(t) # "vless"
  <2>1. Full(t) # {} => Opening(t).is # "link"
    BY <1>2, OpeningIs DEF Full
  <2>2. "wireguard" # "vless" /\ "openvpn" # "vless" /\ "none" # "vless"
    OBVIOUS
  <2> QED BY <2>1, <2>2, DetectIs, Zenon
<1>6. DetectKind(t) \in {"none", "wireguard", "openvpn"}
  BY <1>5, DetectIs, Zenon
<1>7. CASE InferKind(t) = "wireguard"
  <2>1. /\ W!Parse(t).ok
        /\ Import(t).profile.kind = "wireguard" /\ Import(t).profile.wg = <<t>>
    BY <1>7, ImportIs
  <2>2. Validate(Import(t).profile)
    <3>1. <<t>> # <<>> /\ <<t>>[1] = t
      OBVIOUS
    <3> QED BY <2>1, <3>1, Zenon DEF Validate
  <2>3. \A k \in DOMAIN t : t[k].is # "words"
    BY <2>1, WordsRefused
  <2>4. ASSUME DetectKind(t) = "openvpn" PROVE Comment(TRUE) \in ToSet(t)
    <3>1. "none" # "openvpn" /\ "wireguard" # "openvpn" /\ "vless" # "openvpn"
      OBVIOUS
    <3>2. Full(t) # {} /\ (O!IsWord(Opening(t), {"client"}) \/ \E k \in Full(t) : SaysRemote(t, k))
      BY <2>4, <3>1, DetectIs, Zenon
    <3>3. ~ O!IsWord(Opening(t), {"client"})
      BY <2>3, <3>2, OpeningIs DEF Full, O!IsWord
    <3>4. PICK k \in Full(t) : SaysRemote(t, k)
      BY <3>2, <3>3
    <3>5. k \in DOMAIN t /\ t[k].is = "comment" /\ t[k].remote
      BY <2>3, <3>4 DEF SaysRemote, Full, O!IsWord
    <3>6. t[k] = Comment(t[k].remote) /\ t[k].remote \in BOOLEAN
      BY <1>1, <3>5 DEF Plainline
    <3>7. t[k] = Comment(TRUE)
      <4>1. t[k].remote = TRUE
        BY <3>5, <3>6, Zenon
      <4> QED BY <3>6, <4>1, Zenon
    <3> QED BY <3>5, <3>7 DEF ToSet
  <2> QED BY <1>6, <2>1, <2>2, <2>4
<1>8. CASE InferKind(t) = "openvpn"
  <2>1. Import(t).profile.kind = "openvpn" /\ Import(t).profile.ovpn = <<t>>
    BY <1>8, ImportIs
  <2>2. Validate(Import(t).profile)
    <3>1. <<t>> # <<>> /\ "openvpn" # "wireguard"
      OBVIOUS
    <3> QED BY <2>1, <3>1, Zenon DEF Validate
  <2>3. ~ W!LooksLikeWg(t)
    <3>1. "openvpn" # "wireguard" /\ "openvpn" # "vless"
      OBVIOUS
    <3> QED BY <1>8, <3>1, Zenon DEF InferKind
  <2>4. DetectKind(t) # "wireguard"
    <3> SUFFICES ASSUME DetectKind(t) = "wireguard" PROVE FALSE
      OBVIOUS
    <3>1. "none" # "wireguard" /\ "openvpn" # "wireguard" /\ "vless" # "wireguard"
      OBVIOUS
    <3>2. Full(t) # {} /\ Opening(t).is = "section" /\ Opening(t).name = "Interface"
      BY <3>1, DetectIs, Zenon
    <3>3. PICK k \in Full(t) : Opening(t) = t[k]
      BY <3>2, OpeningIs
    <3> QED BY <2>3, <3>2, <3>3 DEF W!LooksLikeWg, Full
  <2> QED BY <1>6, <2>1, <2>2, <2>4
<1> QED BY <1>4, <1>7, <1>8, ImportIs

-----------------------------------------------------------------------------
(* Imports of a link. *)

\* One element more after two.
LEMMA PairAppend ==
   ASSUME NEW D, NEW x \in D, NEW y \in D, NEW z \in D
   PROVE Append(<<x, y>>, z) = <<x, y, z>>
<1>1. PICK p, q, r : p = <<x, y>> /\ q = Append(p, z) /\ r = <<x, y, z>>
  OBVIOUS
<1>2. p \in Seq(D) /\ Len(p) = 2 /\ p[1] = x /\ p[2] = y
  BY <1>1
<1>3. q \in Seq(D) /\ Len(q) = Len(p) + 1 /\ q[Len(p) + 1] = z /\ \A i \in 1 .. Len(p) : q[i] = p[i]
  BY <1>1, <1>2
<1>4. Len(q) = 3 /\ q[1] = x /\ q[2] = y /\ q[3] = z
  BY <1>2, <1>3
<1>5. r \in Seq(D) /\ Len(r) = 3 /\ r[1] = x /\ r[2] = y /\ r[3] = z
  BY <1>1
<1>6. q = r
  BY <1>3, <1>4, <1>5
<1> QED BY <1>1, <1>6

\* All of four elements but the first.
LEMMA FourTail ==
  ASSUME NEW D, NEW s \in Seq(D), Len(s) = 4
  PROVE  DOMAIN Tail(s) = 1 .. 3 /\ Tail(s)[1] = s[2] /\ Tail(s)[2] = s[3] /\ Tail(s)[3] = s[4]
<1>1. s # <<>>
  OBVIOUS
<1>2. PICK t : t = Tail(s)
  OBVIOUS
<1>3. t \in Seq(D) /\ Len(t) = 3
  BY <1>1, <1>2
<1>4. \A i \in 1 .. Len(t) : t[i] = s[i + 1]
  BY <1>1, <1>2
<1>5. DOMAIN t = 1 .. 3
  BY <1>3
<1>6. t[1] = s[2] /\ t[2] = s[3] /\ t[3] = s[4]
  BY <1>3, <1>4
<1> QED BY <1>2, <1>5, <1>6

\* A link that parse takes is taken without the blank after it too, unless there is
\* nothing but the blank where the host should be.
LEMMA TrimmedRead ==
    ASSUME NEW S, S \cap {"#", "?", "/", "@", Blank} = {}, NEW v \in Seq(S),
           NEW scheme, scheme # Blank, NEW user, user \notin {"#", "?", "/", "@", Blank},
           NEW w, w = v \/ w = Append(v, Blank),
           NEW s, s = ShortLink(scheme, user, w), ParseLink(s).ok
    PROVE  \/ ParseLink(Trim(s)).ok /\ Trim(s) # <<>>
           \/ ToSet(Tail(s)) = {"uuid", "@", Blank}
<1>1. PICK at, h, b, D : at = "@" /\ h = <<scheme, user, at>> /\ b = Blank /\ D = S \cup {scheme, user, at}
  OBVIOUS
<1>2. PICK u : u = h \o v
  OBVIOUS
<1>3. ShortShape(S, u, scheme, user, at, v)
  BY <1>1, <1>2, ShortParts
<1>4. u \in Seq(D) /\ u # <<>> /\ u[1] = scheme
  BY <1>1, <1>3 DEF ShortShape
<1>5. b \notin D
  BY <1>1 DEF Blank
<1>6. u[Len(u)] # b
  <2>1. Len(u) \in 1 .. Len(u)
    BY <1>4
  <2>2. u[Len(u)] \in D
    BY <1>4, <2>1
  <2> QED BY <1>5, <2>2
<1>7. Trim(u) = u /\ Trim(Append(u, Blank)) = u
  <2>1. u[1] # Blank /\ u[Len(u)] # Blank
    BY <1>1, <1>4, <1>6
  <2> QED BY <1>4, <2>1, TrimBlank
<1>8. u = ShortLink(scheme, user, v)
  BY <1>1, <1>2 DEF ShortLink
<1>9. s = h \o w
  BY <1>1 DEF ShortLink
<1>10. CASE w = v
  BY <1>2, <1>4, <1>7, <1>9, <1>10
<1>11. CASE w = Append(v, b)
  <2>1. h \in Seq(D) /\ v \in Seq(D)
    <3>1. scheme \in D /\ user \in D /\ at \in D /\ S \subseteq D
      BY <1>1
    <3> QED BY <1>1, <3>1
  <2>2. h \o Append(v, b) = Append(h \o v, b)
    <3>1. PICK E : E = D \cup {b}
      OBVIOUS
    <3>2. b \in E /\ h \in Seq(E) /\ v \in Seq(E)
      BY <2>1, <3>1
    <3> QED BY <3>2
  <2>3. Trim(s) = u
    BY <1>1, <1>2, <1>7, <1>9, <1>11, <2>2
  <2>4. scheme \in Schemes /\ <<user>> \in Uuids /\ Endpoint(w).ok
    <3>1. PICK E : E = S \cup {Blank}
      OBVIOUS
    <3>2. E \cap {"#", "?", "/", "@"} = {} /\ user \notin {"#", "?", "/", "@"}
      BY <3>1 DEF Blank
    <3>3. w \in Seq(E)
      <4>1. v \in Seq(E) /\ b \in E
        BY <1>1, <3>1
      <4> QED BY <1>11, <4>1
    <3>4. ParseLink(ShortLink(scheme, user, w)).ok
      OBVIOUS
    <3> QED BY <3>2, <3>3, <3>4, ShortRead
  <2>5. CASE v # <<>>
    <3>1. Endpoint(v).ok
      BY <1>1, <1>11, <2>4, <2>5, EndpointTrim
    <3>2. S \cap {"#", "?", "/", "@"} = {} /\ user \notin {"#", "?", "/", "@"}
      OBVIOUS
    <3>3. ParseLink(ShortLink(scheme, user, v)).ok
      BY <2>4, <3>1, <3>2, ShortRead
    <3> QED BY <1>4, <1>8, <2>3, <3>3
  <2>6. CASE v = <<>>
    <3>1. PICK E : E = S \cup {b}
      OBVIOUS
    <3>2. w \in Seq(E) /\ w = <<b>>
      BY <1>11, <2>6, <3>1
    <3>3. ShortShape(E, s, scheme, user, at, w)
      BY <1>1, <1>9, <3>2, ShortParts
    <3>4. PICK t : t = Tail(s)
      OBVIOUS
    <3>5. PICK F : F = E \cup {scheme, user, at}
      OBVIOUS
    <3>6. s \in Seq(F) /\ Len(s) = 4 /\ s[2] = user /\ s[3] = at /\ s[4] = b
      <4>1. Len(w) = 1 /\ w[1] = b
        BY <3>2
      <4>2. s \in Seq(F) /\ Len(s) = Len(w) + 3 /\ s[2] = user /\ s[3] = at
            /\ \A i \in 1 .. Len(w) : s[3 + i] = w[i]
        BY <3>3, <3>5 DEF ShortShape
      <4> QED BY <4>1, <4>2
    <3>7. DOMAIN t = 1 .. 3 /\ t[1] = user /\ t[2] = at /\ t[3] = b
      <4>1. s \in Seq(F) /\ Len(s) = 4
        BY <3>6
      <4>2. DOMAIN t = 1 .. 3 /\ t[1] = s[2] /\ t[2] = s[3] /\ t[3] = s[4]
        BY <3>4, <4>1, FourTail
      <4> QED BY <3>6, <4>2
    <3>8. ToSet(t) = {t[i] : i \in DOMAIN t}
      BY DEF ToSet
    <3>9. ToSet(t) = {user, at, b}
      BY <3>7, <3>8
    <3>10. user = "uuid"
      BY <2>4 DEF Uuids
    <3> QED BY <1>1, <3>4, <3>9, <3>10
  <2> QED BY <2>5, <2>6
<1> QED BY <1>1, <1>10, <1>11

\* What the run's links are made of, and how: with a blank before them, or one after
\* them, or none.
HostSet == {"host", "[", "a", ":", "b", "]", "8443"}

\* The user identifiers of the links that are read.
Users == {"uuid", "nobody"}

OfLink(s) ==
    \/ s # <<>> /\ s[1] = Blank
    \/ \E scheme \in {"vless://", "VLESS://", "Vless://", "http://"}, user \in Users, v \in Seq(HostSet) :
          s = ShortLink(scheme, user, v) \/ s = ShortLink(scheme, user, Append(v, Blank))

\* They begin with a blank, or are an address with or without a blank after it.
LEMMA LinksAre ==
    ASSUME NEW l \in Links
    PROVE  \E s : l = Link(s) /\ OfLink(s)
<1>1. PICK lead \in {<<>>, <<Blank>>}, scheme \in {"vless://", "VLESS://", "Vless://", "http://"},
           user \in {"uuid", "nobody"}, host \in {<<>>, <<"host">>, <<"[", "a", ":", "b", "]">>},
           end \in {<<>>, <<Blank>>, <<":", "8443">>, <<":", "8443", Blank>>} :
               l = Link(lead \o <<scheme, user, "@">> \o host \o end)
  BY DEF Links
<1>2. PICK h, s : h = <<scheme, user, "@">> /\ s = lead \o h \o host \o end
  OBVIOUS
<1>3. PICK D : D = HostSet \cup {Blank, scheme, user, "@"}
  OBVIOUS
<1>4. h \in Seq(D) /\ h # <<>>
  <2>1. scheme \in D /\ user \in D /\ "@" \in D
    BY <1>3
  <2>2. PICK at : at = "@"
    OBVIOUS
  <2>3. h = <<scheme, user, at>> /\ at \in D
    BY <1>2, <2>1, <2>2
  <2> QED BY <2>1, <2>3
<1>5. PICK nothing, blank, port, b, colon, number :
         /\ nothing = <<>> /\ blank = <<b>> /\ b = Blank /\ port = <<colon, number>>
         /\ colon = ":" /\ number = "8443"
  OBVIOUS
<1>6. colon \in HostSet /\ number \in HostSet /\ b \in D /\ HostSet \subseteq D
  BY <1>3, <1>5 DEF HostSet
<1>7. host \in Seq(HostSet)
  <2>1. PICK n, o, a, c, k : n = "host" /\ o = "[" /\ a = "a" /\ c = "b" /\ k = "]"
    OBVIOUS
  <2>2. n \in HostSet /\ o \in HostSet /\ a \in HostSet /\ c \in HostSet /\ k \in HostSet
    BY <2>1 DEF HostSet
  <2>3. host = <<>> \/ host = <<n>> \/ host = <<o, a, colon, c, k>>
    BY <1>5, <2>1
  <2>4. <<>> \in Seq(HostSet) /\ <<n>> \in Seq(HostSet) /\ <<o, a, colon, c, k>> \in Seq(HostSet)
    BY <1>6, <2>2
  <2> QED BY <2>3, <2>4
<1>8. PICK v, w : /\ v \in Seq(HostSet) /\ (w = v \/ w = Append(v, b))
                  /\ w = host \o end
  <2>1. end = <<>> \/ end = <<b>> \/ end = <<colon, number>> \/ end = <<colon, number, b>>
    BY <1>5
  <2>2. <<colon, number>> \in Seq(HostSet)
    BY <1>6
  <2>3. CASE end = <<>>
    BY <1>7, <2>3
  <2>4. CASE end = <<b>>
    <3>1. b \in D /\ host \in Seq(D)
      BY <1>6, <1>7
    <3>2. host \o <<b>> = Append(host, b)
      BY <3>1
    <3> QED BY <1>7, <2>4, <3>2
  <2>5. CASE end = <<colon, number>>
    <3>1. host \o <<colon, number>> \in Seq(HostSet)
      BY <1>7, <2>2
    <3> QED BY <2>5, <3>1
  <2>6. CASE end = <<colon, number, b>>
    <3>1. PICK p : p = <<colon, number>>
      OBVIOUS
    <3>2. host \in Seq(D) /\ p \in Seq(D) /\ b \in D
      BY <1>6, <1>7, <3>1
    <3>3. Append(p, b) = <<colon, number, b>>
      <4>1. colon \in D /\ number \in D /\ b \in D
        BY <1>6
      <4> QED BY <3>1, <4>1, PairAppend
    <3>4. host \o Append(p, b) = Append(host \o p, b)
      BY <3>2
    <3>5. host \o p \in Seq(HostSet)
      BY <1>7, <2>2, <3>1
    <3> QED BY <2>6, <3>3, <3>4, <3>5
  <2> QED BY <2>1, <2>3, <2>4, <2>5, <2>6
<1>9. host \in Seq(D) /\ end \in Seq(D)
  <2>1. end = <<>> \/ end = <<b>> \/ end = <<colon, number>> \/ end = <<colon, number, b>>
    BY <1>5
  <2>2. colon \in D /\ number \in D /\ b \in D
    BY <1>6
  <2>3. <<>> \in Seq(D) /\ <<b>> \in Seq(D) /\ <<colon, number>> \in Seq(D) /\ <<colon, number, b>> \in Seq(D)
    BY <2>2
  <2>4. host \in Seq(D)
    BY <1>6, <1>7
  <2> QED BY <2>1, <2>3, <2>4
<1>10. CASE lead = <<>>
  <2>1. (<<>> \o h) \o host = h \o host
    BY <1>4
  <2>2. (h \o host) \o end = h \o (host \o end)
    BY <1>4, <1>9
  <2>3. s = h \o w
    BY <1>2, <1>8, <1>10, <2>1, <2>2
  <2>4. s = ShortLink(scheme, user, w)
    BY <1>2, <2>3 DEF ShortLink
  <2>5. OfLink(s)
    BY <1>5, <1>8, <2>4 DEF OfLink, Users
  <2> QED BY <1>1, <1>2, <2>5
<1>11. CASE lead = <<Blank>>
  <2>1. lead = <<b>>
    BY <1>5, <1>11
  <2>2. PICK k, g : k = h \o host /\ g = k \o end
    OBVIOUS
  <2>3. lead \in Seq(D)
    BY <1>6, <2>1
  <2>4. g \in Seq(D)
    <3>1. k \in Seq(D)
      BY <1>4, <1>9, <2>2
    <3> QED BY <1>9, <2>2, <3>1
  <2>5. s = lead \o g
    <3>1. lead \in Seq(D) /\ h \in Seq(D) /\ host \in Seq(D) /\ end \in Seq(D)
      BY <1>4, <1>9, <2>3
    <3>2. ((lead \o h) \o host) \o end = lead \o ((h \o host) \o end)
      <4>1. PICK a, c, e : a = lead /\ c = host /\ e = end
        OBVIOUS
      <4>2. a \in Seq(D) /\ h \in Seq(D) /\ c \in Seq(D) /\ e \in Seq(D)
        BY <3>1, <4>1
      <4>3. ((a \o h) \o c) \o e = a \o ((h \o c) \o e)
        BY <4>2
      <4> QED BY <4>1, <4>3
    <3> QED BY <1>2, <2>2, <3>2
  <2>6. Len(lead) = 1 /\ lead[1] = b
    BY <2>1
  <2>7. Len(s) = Len(lead) + Len(g) /\ Len(g) \in Nat /\ \A i \in 1 .. Len(lead) : s[i] = lead[i]
    BY <2>3, <2>4, <2>5
  <2>8. s[1] = Blank /\ s # <<>>
    BY <1>5, <2>6, <2>7
  <2> QED BY <1>1, <1>2, <2>8 DEF OfLink
<1> QED BY <1>10, <1>11

\* What import_profile and detectKind make of a text that is one link.
LEMMA LinkSeen ==
    ASSUME NEW l, NEW s, l = Link(s), OfLink(s)
    PROVE  AsSeen(<<l>>)
<1>1. PICK t : t = <<l>>
  OBVIOUS
<1>2. DOMAIN t = {1} /\ t[1] = l /\ t # <<>>
  BY <1>1
<1>3. l.is = "link" /\ l.pieces = s
  BY DEF Link
<1>4. Pieces(t) = s
  BY <1>2, <1>3, Zenon DEF Pieces
<1>5. ~ W!LooksLikeWg(t)
  BY <1>2, <1>3 DEF W!LooksLikeWg
<1>6. \A k \in DOMAIN t : t[k].is # "words"
  BY <1>2, <1>3
<1>7. ~ O!LooksLikeOvpn(t)
  BY <1>6, Zenon DEF O!LooksLikeOvpn, O!IsWord
<1> SUFFICES ASSUME Import(t).ok
             PROVE  /\ \/ Validate(Import(t).profile)
                       \/ /\ Import(t).profile.kind = "vless"
                          /\ ToSet(Tail(Pieces(t))) = {"uuid", "@", Blank}
                    /\ DetectKind(t) \in {"none", Import(t).profile.kind}
  BY <1>1, Zenon DEF AsSeen
<1>8. InferKind(t) \in {"vless", "none"}
  BY <1>5, <1>7, Zenon DEF InferKind
<1>9. /\ ParseLink(s).ok
      /\ Import(t).profile.kind = "vless" /\ Import(t).profile.vless = <<Trimmed(t)>>
  <2>1. InferKind(t) # "wireguard" /\ InferKind(t) # "openvpn"
    BY <1>8
  <2> QED BY <1>4, <2>1, ImportIs
<1>10. PICK scheme \in {"vless://", "VLESS://", "Vless://", "http://"}, user \in Users, v \in Seq(HostSet) :
          s = ShortLink(scheme, user, v) \/ s = ShortLink(scheme, user, Append(v, Blank))
  <2>1. s[1] # Blank
    <3>1. s[1] \in {"vless://", "VLESS://"}
      <4>1. ParseLink(s) # NoLink
        BY <1>9 DEF NoLink
      <4> QED BY <4>1, Zenon DEF ParseLink
    <3> QED BY <3>1 DEF Blank
  <2> QED BY <2>1 DEF OfLink
<1>11. s # <<>>
  <2>1. ParseLink(s) # NoLink
    BY <1>9 DEF NoLink
  <2> QED BY <2>1, Zenon DEF ParseLink
<1>12. Trimmed(t) = <<Link(Trim(s))>>
  BY <1>4, <1>11, Zenon DEF Trimmed
<1>13. (ParseLink(Trim(s)).ok /\ Trim(s) # <<>>) \/ ToSet(Tail(s)) = {"uuid", "@", Blank}
  <2>1. HostSet \cap {"#", "?", "/", "@", Blank} = {} /\ user \notin {"#", "?", "/", "@", Blank} /\ scheme # Blank
    BY DEF HostSet, Users, Blank
  <2>2. PICK w : (w = v \/ w = Append(v, Blank)) /\ s = ShortLink(scheme, user, w)
    BY <1>10
  <2>3. v \in Seq(HostSet)
    OBVIOUS
  <2> QED BY <1>9, <2>1, <2>2, <2>3, TrimmedRead
<1>14. ParseLink(Trim(s)).ok => Validate(Import(t).profile)
  <2>1. PICK c, r : c = <<Link(r)>> /\ r = Trim(s)
    OBVIOUS
  <2>2. c # <<>> /\ c[1].is = "link" /\ c[1].pieces = r
    BY <2>1 DEF Link
  <2>3. Pieces(c) = r
    BY <2>2, Zenon DEF Pieces
  <2>4. <<c>> # <<>> /\ <<c>>[1] = c /\ "vless" # "wireguard" /\ "vless" # "openvpn"
    OBVIOUS
  <2>5. Import(t).profile.vless = <<c>>
    BY <1>9, <1>12, <2>1
  <2> QED BY <1>9, <2>1, <2>3, <2>4, <2>5, Zenon DEF Validate
<1>15. DetectKind(t) \in {"none", "vless"}
  <2>1. Full(t) # {} => Opening(t) = l
    <3> SUFFICES ASSUME Full(t) # {} PROVE Opening(t) = l
      OBVIOUS
    <3>1. t \in Seq({l})
      BY <1>1
    <3>2. PICK k \in Full(t) : Opening(t) = t[k]
      BY <3>1, OpeningIs
    <3> QED BY <1>2, <3>2 DEF Full
  <2>2. l.is # "section" /\ l.is # "words"
    BY <1>3
  <2>3. ~ O!IsWord(l, {"client"})
    BY <2>2 DEF O!IsWord
  <2>4. ~ \E k \in Full(t) : SaysRemote(t, k)
    BY <1>2, <1>3 DEF Full, SaysRemote, O!IsWord
  <2> QED BY <2>1, <2>2, <2>3, <2>4, DetectIs, Zenon
<1> QED BY <1>4, <1>9, <1>13, <1>14, <1>15

-----------------------------------------------------------------------------
(* The imports of a run. *)

\* The run's lines are such.
LEMMA ImportLinesAre == \A l \in ImportLines : Plainline(l)
<1>1. ASSUME NEW word, NEW args PROVE Plainline(O!Words(0, word, args, 0))
  BY DEF Plainline, O!Words
<1>2. Plainline(W!Header("Interface")) /\ Plainline(W!Pair("PrivateKey", <<"k">>))
  BY DEF Plainline, W!Header, W!Pair
<1>3. ASSUME NEW b \in BOOLEAN PROVE Plainline(Comment(b))
  <2>1. Comment(b).is = "comment" /\ Comment(b).remote = b
    BY Zenon DEF Comment
  <2> QED BY <2>1, Zenon DEF Plainline
<1>4. TRUE \in BOOLEAN /\ FALSE \in BOOLEAN
  OBVIOUS
<1>5. Plainline(BlankLine)
  BY DEF Plainline, BlankLine
<1> QED BY <1>1, <1>2, <1>3, <1>4, <1>5, Zenon DEF ImportLines

\* The text of an import's state is one link, or lines.
ImportInv ==
    format = "import" =>
        (\E l \in Links : text = <<l>>) \/ text \in Seq(ImportLines)

\* A link is a line of its own kind.
LEMMA LinksBegin == ASSUME NEW l \in Links PROVE l.is = "link"
<1>1. PICK s : l = Link(s)
  BY LinksAre
<1> QED BY <1>1 DEF Link

\* The states of the imports are such.
LEMMA ImportInvKept == Spec => []ImportInv
<1>1. Init => ImportInv
  BY DEF Init, ImportInv
<1>2. ImportInv /\ [Next]_vars => ImportInv'
  <2> SUFFICES ASSUME ImportInv, [Next]_vars, format' = "import"
               PROVE  (\E l \in Links : text' = <<l>>) \/ text' \in Seq(ImportLines)
    BY DEF ImportInv
  <2>1. CASE UNCHANGED vars
    BY <2>1 DEF vars, ImportInv
  <2>2. CASE Next
    <3>1. format = "import"
      BY <2>2 DEF Next, Grow
    <3>2. Parts = IF text = <<>> THEN ImportLines \cup Links
                  ELSE IF text[1].is = "link" THEN {} ELSE ImportLines
      BY <3>1, Zenon DEF Parts
    <3>3. PICK part \in Parts : text' = Append(text, part)
      BY <2>2 DEF Next, Grow
    <3>4. PICK R : R = ImportLines
      OBVIOUS
    <3>5. ASSUME text \in Seq(R), part \in R PROVE text' \in Seq(R)
      BY <3>3, <3>5
    <3>6. CASE text = <<>>
      <4>1. text \in Seq(R) /\ text' = <<part>>
        BY <3>3, <3>6
      <4> QED BY <3>2, <3>3, <3>4, <3>5, <3>6, <4>1
    <3>7. CASE text # <<>>
      <4>1. part \in R /\ text[1].is # "link"
        BY <3>2, <3>3, <3>4, <3>7
      <4>2. text \in Seq(R)
        <5>1. \A l \in Links : text # <<l>>
          <6> SUFFICES ASSUME NEW l \in Links, text = <<l>> PROVE FALSE
            OBVIOUS
          <6>1. text[1] = l
            OBVIOUS
          <6> QED BY <4>1, <6>1, LinksBegin
        <5> QED BY <3>1, <3>4, <5>1 DEF ImportInv
      <4> QED BY <3>4, <3>5, <4>1, <4>2
    <3> QED BY <3>6, <3>7
  <2> QED BY <2>1, <2>2
<1> QED BY <1>1, <1>2, PTL DEF Spec

\* The checked property, for texts of any number of lines.
THEOREM SeenAsImported == Spec => []ImportedAsSeen
<1>1. ImportInv => ImportedAsSeen
  <2> SUFFICES ASSUME ImportInv, format = "import" PROVE AsSeen(text)
    BY Zenon DEF ImportedAsSeen, AsSeen
  <2>1. CASE text \in Seq(ImportLines)
    BY <2>1, ImportLinesAre, LinesSeen
  <2>2. CASE \E l \in Links : text = <<l>>
    <3>1. PICK l \in Links : text = <<l>>
      BY <2>2
    <3>2. PICK s : l = Link(s) /\ OfLink(s)
      BY LinksAre
    <3>3. AsSeen(<<l>>)
      BY <3>2, LinkSeen
    <3> QED BY <3>1, <3>3
  <2> QED BY <2>1, <2>2 DEF ImportInv
<1> QED BY <1>1, ImportInvKept, PTL

-----------------------------------------------------------------------------
(* Links: characters. *)

\* The characters that are written as %XX, and what is left of the others then.
Special == {Blank, "#", "&", "="}

Coded(S) == (S \ Special) \cup DOMAIN Plain

\* Encode and Decode of one piece.
EncodeOne(c) == IF \E p \in DOMAIN Plain : Plain[p] = c
                THEN CHOOSE p \in DOMAIN Plain : Plain[p] = c ELSE c

DecodeOne(c) == IF c \in DOMAIN Plain THEN Plain[c] ELSE c

\* The codes stand for the special characters, for each of them, and are none themselves.
LEMMA PlainIs ==
    /\ \A p \in DOMAIN Plain : Plain[p] \in Special /\ p \notin Special
    /\ \A c \in Special : \E p \in DOMAIN Plain : Plain[p] = c
<1>1. DOMAIN Plain = {"%20", "%23", "%26", "%3D"}
  BY DEF Plain
<1>2. Plain["%20"] = Blank /\ Plain["%23"] = "#" /\ Plain["%26"] = "&" /\ Plain["%3D"] = "="
  BY DEF Plain
<1>3. \A p \in DOMAIN Plain : p \notin Special
  BY <1>1 DEF Special, Blank
<1> QED BY <1>1, <1>2, <1>3 DEF Special

\* percent_decode gives back one piece that was encoded.
LEMMA OneCoded ==
    ASSUME NEW S, S \cap DOMAIN Plain = {}, NEW c \in S
    PROVE  EncodeOne(c) \in Coded(S) /\ DecodeOne(EncodeOne(c)) = c
<1>1. CASE \E p \in DOMAIN Plain : Plain[p] = c
  <2>1. PICK p : p = EncodeOne(c)
    OBVIOUS
  <2>2. p \in DOMAIN Plain /\ Plain[p] = c
    BY <1>1, <2>1, Zenon DEF EncodeOne
  <2> QED BY <2>1, <2>2 DEF Coded, DecodeOne
<1>2. CASE ~ \E p \in DOMAIN Plain : Plain[p] = c
  <2>1. EncodeOne(c) = c
    BY <1>2, Zenon DEF EncodeOne
  <2>2. c \notin Special /\ c \notin DOMAIN Plain
    BY <1>2, PlainIs
  <2> QED BY <2>1, <2>2 DEF Coded, DecodeOne
<1> QED BY <1>1, <1>2

\* percent_decode gives back what was encoded, and nothing that was encoded has a
\* character in it that the parser looks for in a query.
LEMMA EncodeCoded ==
    ASSUME NEW S, S \cap DOMAIN Plain = {}, NEW s \in Seq(S)
    PROVE  Encode(s) \in Seq(Coded(S)) /\ Decode(Encode(s)) = s
<1>1. PICK n, C, e, d : n = Len(s) /\ C = Coded(S) /\ e = Encode(s) /\ d = Decode(e)
  OBVIOUS
<1>2. n \in Nat /\ DOMAIN s = 1 .. n /\ \A k \in 1 .. n : s[k] \in S
  BY <1>1
<1>3. e = [k \in 1 .. n |-> EncodeOne(s[k])]
  BY <1>1, <1>2, Zenon DEF Encode, EncodeOne
<1>4. \A k \in 1 .. n : e[k] \in C /\ DecodeOne(e[k]) = s[k]
  BY <1>1, <1>2, <1>3, OneCoded
<1>5. DOMAIN e = 1 .. n
  BY <1>3
<1>6. d = [k \in 1 .. n |-> DecodeOne(e[k])]
  BY <1>1, <1>5, Zenon DEF Decode, DecodeOne
<1>7. e \in [1 .. n -> C]
  BY <1>3, <1>4
<1>8. e \in Seq(C)
  BY <1>2, <1>7
<1>9. d = s
  <2>1. d = [k \in 1 .. n |-> s[k]]
    BY <1>4, <1>6
  <2> QED BY <1>2, <2>1
<1> QED BY <1>1, <1>8, <1>9

\* What is encoded has none of the characters that a query is taken apart at.
LEMMA NotCoded ==
    ASSUME NEW S
    PROVE  "#" \notin Coded(S) /\ "&" \notin Coded(S) /\ "=" \notin Coded(S)
<1>1. "#" \in Special /\ "&" \in Special /\ "=" \in Special
  BY DEF Special
<1> QED BY <1>1, PlainIs DEF Coded

-----------------------------------------------------------------------------
(* Parameters. *)

\* One parameter of a link as it is written, and the parameters there can be.
ParamText(x) == Encode(x[1]) \o <<"=">> \o Encode(x[2])

Named(S) == Seq(S) \X Seq(S)

\* The pieces of a parameter, and of a query.
InParam(S) == Coded(S) \cup {"="}

InQuery(S) == InParam(S) \cup {"&", "?"}

\* One parameter that was written is read as it was.
LEMMA ParamRead ==
    ASSUME NEW S, S \cap DOMAIN Plain = {}, NEW x \in Named(S), NEW ps
    PROVE  /\ ParamText(x) \in Seq(InParam(S)) /\ ParamText(x) # <<>>
           /\ ReadParam(ps, ParamText(x)) = Append(ps, x)
<1>1. PICK key, val : key \in Seq(S) /\ val \in Seq(S) /\ x = <<key, val>>
  BY DEF Named
<1>2. PICK a, b, C, eq : a = Encode(key) /\ b = Encode(val) /\ C = Coded(S) /\ eq = "="
  OBVIOUS
<1>3. a \in Seq(C) /\ b \in Seq(C) /\ Decode(a) = key /\ Decode(b) = val /\ eq \notin C
  BY <1>1, <1>2, EncodeCoded, NotCoded
<1>4. PICK t : t = a \o <<eq>> \o b
  OBVIOUS
<1>5. ParamText(x) = t
  BY <1>1, <1>2, <1>4 DEF ParamText
<1>6. t \in Seq(InParam(S)) /\ t # <<>>
  <2>1. PICK D : D = C \cup {eq}
    OBVIOUS
  <2>2. a \in Seq(D) /\ b \in Seq(D) /\ <<eq>> \in Seq(D)
    BY <1>3, <2>1
  <2>3. t \in Seq(D)
    BY <1>4, <2>2
  <2>4. D = InParam(S)
    BY <1>2, <2>1 DEF InParam
  <2>5. Len(t) = Len(a) + 1 + Len(b) /\ Len(a) \in Nat /\ Len(b) \in Nat
    BY <1>4, <2>2
  <2>6. t # <<>>
    BY <2>5
  <2> QED BY <2>3, <2>4, <2>6
<1>7. Before(t, First(t, eq)) = a /\ After(t, First(t, eq)) = b
  BY <1>3, <1>4, FirstAt
<1>8. ReadParam(ps, t) = Append(ps, <<Decode(a), Decode(b)>>)
  BY <1>2, <1>6, <1>7, Zenon DEF ReadParam
<1> QED BY <1>1, <1>3, <1>5, <1>6, <1>8

\* Splitting at "&".
AmpPiece(acc, q) == IF q = "&" THEN Append(acc, <<>>)
                    ELSE [acc EXCEPT ![Len(acc)] = Append(@, q)]

\* The folds of splitting a query and of reading its parameters.
Parting  == INSTANCE FoldFacts WITH Op <- AmpPiece
Pairing  == INSTANCE FoldFacts WITH Op <- ReadParam

\* Split is this fold.
LEMMA SplitStep == \A s : Split(s, "&") = Parting!Fold(<< <<>> >>, s)
BY Zenon DEF Split, AmpPiece, FoldLeft, MapThenFoldSet, Max, Parting!Fold, Parting!FoldLeft,
             Parting!MapThenFoldSet, Parting!Max

\* What has no "&" in it is put to the last part.
LEMMA PartMore ==
    ASSUME NEW R, "&" \notin R, NEW acc \in Seq(Seq(R)), NEW u \in Seq(R), NEW t \in Seq(R)
    PROVE  Parting!Fold(Append(acc, u), t) = Append(acc, u \o t)
<1> DEFINE T == {r \in Seq(R) : Parting!Fold(Append(acc, u), r) = Append(acc, u \o r)}
<1>1. <<>> \in T
  <2>1. u \o <<>> = u /\ <<>> \in Seq(R)
    OBVIOUS
  <2> QED BY <2>1, Parting!FoldEmpty
<1>2. ASSUME NEW r \in Seq(R), NEW q \in R, r \in T PROVE Append(r, q) \in T
  <2>1. PICK w : w = u \o r
    OBVIOUS
  <2>2. w \in Seq(R) /\ Append(w, q) \in Seq(R) /\ u \o Append(r, q) = Append(w, q)
        /\ Append(r, q) \in Seq(R)
    BY <2>1
  <2>3. Parting!Fold(Append(acc, u), Append(r, q)) = AmpPiece(Append(acc, w), q)
    <3>1. PICK b : b = Append(acc, u)
      OBVIOUS
    <3>2. Parting!Fold(b, r) = Append(acc, w)
      BY <1>2, <2>1, <3>1
    <3>3. Parting!Fold(b, Append(r, q)) = AmpPiece(Parting!Fold(b, r), q)
      BY Parting!FoldAppend
    <3> QED BY <3>1, <3>2, <3>3
  <2>4. PICK Q, new : Q = Seq(R) /\ new = Append(w, q)
    OBVIOUS
  <2>5. acc \in Seq(Q) /\ w \in Q /\ new \in Q
    BY <2>2, <2>4
  <2>6. /\ Append(acc, w)[Len(Append(acc, w))] = w
        /\ [Append(acc, w) EXCEPT ![Len(Append(acc, w))] = new] = Append(acc, new)
    BY <2>5, Parting!LastReplaced
  <2>7. q # "&"
    OBVIOUS
  <2>8. AmpPiece(Append(acc, w), q) = [Append(acc, w) EXCEPT ![Len(Append(acc, w))] = new]
    BY <2>4, <2>6, <2>7, Zenon DEF AmpPiece
  <2> QED BY <2>2, <2>3, <2>4, <2>6, <2>8
<1>3. Seq(R) \subseteq T
  <2> HIDE DEF T
  <2> QED BY <1>1, <1>2, Parting!SeqInd
<1> QED BY <1>3

-----------------------------------------------------------------------------
(* The query. *)

\* The reading of the parameters is the fold of FoldFacts.
LEMMA ParamFold ==
    \A s : FoldLeft(ReadParam, <<>>, s) = Pairing!Fold(<<>>, s)
BY Zenon DEF FoldLeft, MapThenFoldSet, Max, Pairing!Fold, Pairing!FoldLeft,
             Pairing!MapThenFoldSet, Pairing!Max

\* FlattenSeq, one sequence at a time.
LEMMA FlattenParts ==
    /\ FlattenSeq(<<>>) = <<>>
    /\ \A S : \A q \in Seq(Seq(S)), s \in Seq(S) : FlattenSeq(Append(q, s)) = FlattenSeq(q) \o s
<1>1. \A q : FlattenSeq(q) = Pairing!FlattenSeq(q)
  BY Zenon DEF FlattenSeq, Pairing!FlattenSeq
<1>2. FlattenSeq(<<>>) = <<>>
  BY <1>1, Pairing!FlattenEmpty
<1>3. ASSUME NEW S, NEW q \in Seq(Seq(S)), NEW s \in Seq(S)
      PROVE  FlattenSeq(Append(q, s)) = FlattenSeq(q) \o s
  BY <1>1, Pairing!FlattenAppend
<1> QED BY <1>2, <1>3

\* The mark before a parameter, the parameters with their marks, and the query.
Lead(first) == IF first THEN "?" ELSE "&"

ParamParts(params) ==
    [k \in DOMAIN params |->
        <<IF k = 1 THEN "?" ELSE "&">> \o Encode(params[k][1]) \o <<"=">> \o Encode(params[k][2])]

QueryText(params) == FlattenSeq(ParamParts(params))

\* A part is the mark and the parameter.
LEMMA PartIs ==
    ASSUME NEW S, S \cap DOMAIN Plain = {}, NEW x \in Named(S), NEW p \in {"?", "&"}
    PROVE  /\ <<p>> \o Encode(x[1]) \o <<"=">> \o Encode(x[2]) = <<p>> \o ParamText(x)
           /\ <<p>> \o ParamText(x) \in Seq(InQuery(S))
<1>1. PICK key, val : key \in Seq(S) /\ val \in Seq(S) /\ x = <<key, val>>
  BY DEF Named
<1>2. PICK a, b, C, eq : a = Encode(key) /\ b = Encode(val) /\ C = Coded(S) /\ eq = "="
  OBVIOUS
<1>3. a \in Seq(C) /\ b \in Seq(C)
  BY <1>1, <1>2, EncodeCoded
<1>4. PICK D : D = C \cup {eq} \cup {"?", "&"}
  OBVIOUS
<1>5. a \in Seq(D) /\ b \in Seq(D) /\ <<eq>> \in Seq(D) /\ <<p>> \in Seq(D)
  BY <1>3, <1>4
<1>6. <<p>> \o a \o <<eq>> \o b = <<p>> \o (a \o <<eq>> \o b)
      /\ <<p>> \o (a \o <<eq>> \o b) \in Seq(D)
  BY <1>5
<1>7. D = InQuery(S)
  BY <1>2, <1>4 DEF InQuery, InParam
<1> QED BY <1>1, <1>2, <1>6, <1>7 DEF ParamText

\* One parameter more makes the query longer at its end.
LEMMA QueryStep ==
    ASSUME NEW S, S \cap DOMAIN Plain = {}, NEW ps \in Seq(Named(S)), NEW x \in Named(S)
    PROVE  QueryText(Append(ps, x)) = QueryText(ps) \o (<<Lead(ps = <<>>)>> \o ParamText(x))
<1>1. PICK n, d, N : n = Len(ps) /\ d = Append(ps, x) /\ N = Named(S)
  OBVIOUS
<1>2. /\ n \in Nat /\ DOMAIN ps = 1 .. n /\ DOMAIN d = 1 .. n + 1 /\ d[n + 1] = x
      /\ \A k \in 1 .. n : d[k] = ps[k]
      /\ \A k \in 1 .. n + 1 : d[k] \in N
  BY <1>1
<1>3. PICK s, t, R, Q : s = ParamParts(ps) /\ t = ParamParts(d) /\ R = InQuery(S) /\ Q = Seq(R)
  OBVIOUS
<1> DEFINE part(k, y) == <<IF k = 1 THEN "?" ELSE "&">> \o Encode(y[1]) \o <<"=">> \o Encode(y[2])
<1>4. s = [k \in 1 .. n |-> part(k, ps[k])] /\ t = [k \in 1 .. n + 1 |-> part(k, d[k])]
  BY <1>2, <1>3, Zenon DEF ParamParts
<1>5. \A k, y : y \in N => part(k, y) \in Q /\ part(k, y) = <<Lead(k = 1)>> \o ParamText(y)
  <2> SUFFICES ASSUME NEW k, NEW y \in Named(S)
               PROVE  part(k, y) \in Q /\ part(k, y) = <<Lead(k = 1)>> \o ParamText(y)
    BY <1>1
  <2>1. PICK p : p = IF k = 1 THEN "?" ELSE "&"
    OBVIOUS
  <2>2. p \in {"?", "&"} /\ p = Lead(k = 1)
    BY <2>1 DEF Lead
  <2>3. part(k, y) = <<p>> \o Encode(y[1]) \o <<"=">> \o Encode(y[2])
    BY <2>1
  <2>4. <<p>> \o Encode(y[1]) \o <<"=">> \o Encode(y[2]) = <<p>> \o ParamText(y)
        /\ <<p>> \o ParamText(y) \in Seq(InQuery(S))
    BY <2>2, PartIs
  <2> HIDE DEF part
  <2>5. part(k, y) = <<p>> \o ParamText(y) /\ part(k, y) \in Q
    BY <1>3, <2>3, <2>4
  <2>6. <<p>> \o ParamText(y) = <<Lead(k = 1)>> \o ParamText(y)
    BY <2>2
  <2> QED BY <2>5, <2>6
<1> HIDE DEF part
<1>6. Pairing!OneLonger(s, t, n, Q)
  <2>1. \A k \in 1 .. n : k \in 1 .. n + 1
    BY <1>2
  <2>2. \A k \in 1 .. n + 1 : t[k] \in Q
    BY <1>2, <1>4, <1>5
  <2>3. \A k \in 1 .. n : s[k] = t[k]
    BY <1>2, <1>4, <2>1
  <2> QED BY <1>4, <2>2, <2>3 DEF Pairing!OneLonger
<1>7. s \in Seq(Q) /\ t[n + 1] \in Q /\ t = Append(s, t[n + 1])
  <2>1. n \in Nat
    BY <1>2
  <2>2. Pairing!Appended(s, t, n, Q)
    BY <1>6, <2>1, Pairing!AppendMap
  <2> QED BY <2>2 DEF Pairing!Appended
<1>8. n + 1 \in 1 .. n + 1 /\ (n + 1 = 1 <=> ps = <<>>)
  BY <1>1, <1>2
<1>9. t[n + 1] = <<Lead(ps = <<>>)>> \o ParamText(x)
  <2>1. t[n + 1] = part(n + 1, x) /\ x \in N
    BY <1>1, <1>2, <1>4, <1>8
  <2>2. t[n + 1] = <<Lead(n + 1 = 1)>> \o ParamText(x)
    BY <1>5, <2>1
  <2>3. Lead(n + 1 = 1) = Lead(ps = <<>>)
    BY <1>8, Zenon DEF Lead
  <2> QED BY <2>2, <2>3
<1>10. FlattenSeq(Append(s, t[n + 1])) = FlattenSeq(s) \o t[n + 1]
  BY <1>3, <1>7, FlattenParts
<1> QED BY <1>1, <1>3, <1>7, <1>9, <1>10 DEF QueryText

\* The pieces of a query behind its mark; and a query r that is read as ps.
InBody(S) == InParam(S) \cup {"&"}

QueryIs(S, ps, r) ==
    /\ r \in Seq(InBody(S)) /\ QueryText(ps) = <<"?">> \o r
    /\ Split(r, "&") \in Seq(Seq(InParam(S)))
    /\ FoldLeft(ReadParam, <<>>, Split(r, "&")) = ps

\* One parameter alone.
LEMMA OneParam ==
    ASSUME NEW S, S \cap DOMAIN Plain = {}, NEW x \in Named(S)
    PROVE  QueryIs(S, <<x>>, ParamText(x))
<1>1. PICK t, R : t = ParamText(x) /\ R = InParam(S)
  OBVIOUS
<1>2. t \in Seq(R) /\ ReadParam(<<>>, t) = Append(<<>>, x)
  BY <1>1, ParamRead
<1>3. "&" \notin R
  BY <1>1, NotCoded DEF InParam
<1>4. Split(t, "&") = <<t>>
  <2>1. PICK e : e = <<>>
    OBVIOUS
  <2>2. e \in Seq(Seq(R)) /\ e \in Seq(R) /\ e \o t = t /\ Append(e, e) = <<e>> /\ Append(e, t) = <<t>>
    BY <1>2, <2>1
  <2>3. Parting!Fold(Append(e, e), t) = Append(e, e \o t)
    BY <1>2, <1>3, <2>2, PartMore
  <2> QED BY <2>1, <2>2, <2>3, SplitStep
<1>5. FoldLeft(ReadParam, <<>>, <<t>>) = <<x>>
  <2>1. PICK e, Q : e = <<>> /\ Q = Seq(R)
    OBVIOUS
  <2>2. e \in Seq(Q) /\ t \in Q /\ <<t>> = Append(e, t) /\ <<x>> = Append(e, x)
    BY <1>2, <2>1
  <2>3. Pairing!Fold(e, Append(e, t)) = ReadParam(Pairing!Fold(e, e), t)
    BY <2>2, Pairing!FoldAppend
  <2>4. Pairing!Fold(e, e) = e
    BY <2>1, Pairing!FoldEmpty
  <2> QED BY <1>2, <2>1, <2>2, <2>3, <2>4, ParamFold
<1>6. QueryText(<<x>>) = <<"?">> \o t
  <2>1. PICK e : e = <<>>
    OBVIOUS
  <2>2. e \in Seq(Named(S)) /\ Append(e, x) = <<x>>
    BY <2>1
  <2>3. QueryText(Append(e, x)) = QueryText(e) \o (<<Lead(e = <<>>)>> \o ParamText(x))
    BY <2>2, QueryStep
  <2>4. QueryText(e) = <<>>
    <3>1. ParamParts(e) = <<>>
      BY <2>1 DEF ParamParts
    <3> QED BY <3>1, FlattenParts DEF QueryText
  <2>5. Lead(e = <<>>) = "?"
    BY <2>1 DEF Lead
  <2>6. PICK w, q : q = "?" /\ w = <<q>> \o t
    OBVIOUS
  <2>7. <<>> \o w = w
    BY <1>2, <2>6
  <2> QED BY <1>1, <2>2, <2>3, <2>4, <2>5, <2>6, <2>7
<1>7. t \in Seq(InBody(S)) /\ <<t>> \in Seq(Seq(R))
  <2>1. PICK B : B = InBody(S)
    OBVIOUS
  <2>2. R \subseteq B
    BY <1>1, <2>1 DEF InBody
  <2>3. t \in Seq(B) /\ <<t>> \in Seq(Seq(R))
    BY <1>2, <2>2
  <2> QED BY <2>1, <2>3
<1> QED BY <1>1, <1>4, <1>5, <1>6, <1>7 DEF QueryIs

\* A parameter after others.
LEMMA MoreParam ==
    ASSUME NEW S, S \cap DOMAIN Plain = {}, NEW ps \in Seq(Named(S)), ps # <<>>, NEW x \in Named(S),
           NEW r, QueryIs(S, ps, r)
    PROVE  QueryIs(S, Append(ps, x), r \o (<<"&">> \o ParamText(x)))
<1>1. PICK t, R, amp, B, e : t = ParamText(x) /\ R = InParam(S) /\ amp = "&" /\ B = InBody(S) /\ e = <<>>
  OBVIOUS
<1>2. t \in Seq(R) /\ ReadParam(ps, t) = Append(ps, x)
  BY <1>1, ParamRead
<1>3. amp \notin R /\ R \subseteq B /\ amp \in B
  BY <1>1, NotCoded DEF InParam, InBody
<1>4. PICK acc, u, w : acc = Split(r, "&") /\ u = <<amp>> \o t /\ w = r \o u
  OBVIOUS
<1>5. r \in Seq(B) /\ acc \in Seq(Seq(R)) /\ FoldLeft(ReadParam, <<>>, acc) = ps
      /\ QueryText(ps) = <<"?">> \o r
  BY <1>1, <1>4 DEF QueryIs
<1>6. t \in Seq(B) /\ u \in Seq(B) /\ w \in Seq(B) /\ <<amp>> \in Seq(B)
  <2>1. t \in Seq(B) /\ <<amp>> \in Seq(B)
    BY <1>2, <1>3
  <2> QED BY <1>4, <1>5, <2>1
<1>7. Split(w, "&") = Append(acc, t)
  <2>1. PICK b : b = << <<>> >>
    OBVIOUS
  <2>2. Parting!Fold(b, w) = Parting!Fold(Parting!Fold(b, r), u)
    <3>1. r \in Seq(B) /\ u \in Seq(B)
      BY <1>5, <1>6
    <3>2. Parting!Fold(b, r \o u) = Parting!Fold(Parting!Fold(b, r), u)
      BY <3>1, Parting!FoldConcat
    <3> QED BY <1>4, <3>2
  <2>3. Parting!Fold(b, r) = acc
    BY <1>4, <2>1, SplitStep
  <2>4. Parting!Fold(acc, u) = Parting!Fold(Parting!Fold(acc, <<amp>>), t)
    <3>1. PICK one : one = <<amp>>
      OBVIOUS
    <3>2. one \in Seq(B) /\ t \in Seq(B)
      BY <1>6, <3>1
    <3>3. Parting!Fold(acc, one \o t) = Parting!Fold(Parting!Fold(acc, one), t)
      BY <3>2, Parting!FoldConcat
    <3> QED BY <1>4, <3>1, <3>3
  <2>5. Parting!Fold(acc, <<amp>>) = Append(acc, e)
    <3>1. e \in Seq(B) /\ <<amp>> = Append(e, amp)
      BY <1>1
    <3>2. Parting!Fold(acc, Append(e, amp)) = AmpPiece(Parting!Fold(acc, e), amp)
      BY <1>3, <3>1, Parting!FoldAppend
    <3>3. Parting!Fold(acc, e) = acc
      BY <1>1, Parting!FoldEmpty
    <3>4. AmpPiece(acc, amp) = Append(acc, e)
      BY <1>1 DEF AmpPiece
    <3> QED BY <3>1, <3>2, <3>3, <3>4
  <2>6. Parting!Fold(Append(acc, e), t) = Append(acc, t)
    <3>1. e \in Seq(R) /\ e \o t = t
      BY <1>1, <1>2
    <3>2. "&" \notin R /\ acc \in Seq(Seq(R)) /\ t \in Seq(R)
      BY <1>1, <1>2, <1>3, <1>5
    <3>3. Parting!Fold(Append(acc, e), t) = Append(acc, e \o t)
      BY <3>1, <3>2, PartMore
    <3> QED BY <3>1, <3>3
  <2> QED BY <2>1, <2>2, <2>3, <2>4, <2>5, <2>6, SplitStep
<1>8. Append(acc, t) \in Seq(Seq(R)) /\ FoldLeft(ReadParam, <<>>, Append(acc, t)) = Append(ps, x)
  <2>1. PICK Q : Q = Seq(R)
    OBVIOUS
  <2>2. acc \in Seq(Q) /\ t \in Q
    BY <1>2, <1>5, <2>1
  <2>3. Append(acc, t) \in Seq(Q)
    BY <2>2
  <2>4. Pairing!Fold(e, Append(acc, t)) = ReadParam(Pairing!Fold(e, acc), t)
    BY <2>2, Pairing!FoldAppend
  <2>5. Pairing!Fold(e, acc) = ps
    BY <1>1, <1>5, ParamFold
  <2> QED BY <1>1, <1>2, <2>1, <2>3, <2>4, <2>5, ParamFold
<1>9. QueryText(Append(ps, x)) = <<"?">> \o w
  <2>1. Lead(ps = <<>>) = amp
    BY <1>1 DEF Lead
  <2>2. QueryText(Append(ps, x)) = (<<"?">> \o r) \o u
    <3>1. QueryText(Append(ps, x)) = QueryText(ps) \o (<<Lead(ps = <<>>)>> \o ParamText(x))
      BY QueryStep
    <3>2. <<Lead(ps = <<>>)>> \o ParamText(x) = u
      BY <1>1, <1>4, <2>1
    <3> QED BY <1>5, <3>1, <3>2
  <2>3. PICK q : q = "?"
    OBVIOUS
  <2>4. PICK C : C = B \cup {q}
    OBVIOUS
  <2>5. r \in Seq(C) /\ u \in Seq(C) /\ <<q>> \in Seq(C)
    BY <1>5, <1>6, <2>4
  <2>6. (<<q>> \o r) \o u = <<q>> \o (r \o u)
    BY <2>5
  <2> QED BY <1>4, <2>2, <2>3, <2>6
<1> QED BY <1>1, <1>4, <1>6, <1>7, <1>8, <1>9 DEF QueryIs

\* Any parameters are read from their query as they were written.
LEMMA QueryRead ==
    ASSUME NEW S, S \cap DOMAIN Plain = {}, NEW ps \in Seq(Named(S))
    PROVE  \/ ps = <<>> /\ QueryText(ps) = <<>>
           \/ \E r : QueryIs(S, ps, r)
<1> DEFINE N == Named(S)
           T == {qs \in Seq(N) : qs = <<>> \/ \E r : QueryIs(S, qs, r)}
<1>1. <<>> \in T
  OBVIOUS
<1>2. ASSUME NEW qs \in Seq(N), NEW x \in N, qs \in T PROVE Append(qs, x) \in T
  <2>1. Append(qs, x) \in Seq(N)
    <3> HIDE DEF N
    <3> QED OBVIOUS
  <2>2. CASE qs = <<>>
    <3>1. Append(qs, x) = <<x>>
      BY <2>2
    <3> QED BY <2>1, <3>1, OneParam
  <2>3. CASE qs # <<>>
    <3>1. PICK r : QueryIs(S, qs, r)
      BY <1>2, <2>3
    <3>2. QueryIs(S, Append(qs, x), r \o (<<"&">> \o ParamText(x)))
      BY <2>3, <3>1, MoreParam
    <3> QED BY <2>1, <3>2
  <2> QED BY <2>2, <2>3
<1>3. Seq(N) \subseteq T
  <2> HIDE DEF N, T
  <2> QED BY <1>1, <1>2, Pairing!SeqInd
<1>4. ps \in T
  <2> HIDE DEF T
  <2> QED BY <1>3
<1>5. QueryText(<<>>) = <<>>
  <2>1. ParamParts(<<>>) = <<>>
    BY DEF ParamParts
  <2> QED BY <2>1, FlattenParts DEF QueryText
<1> QED BY <1>4, <1>5

-----------------------------------------------------------------------------
(* The steps of parse. *)

\* What of a link is before its query.
AddressText(host, port) == <<"uuid", "@">> \o (HostText(host) \o PortText(port))

\* What a link is read as.
Uri(host, port, name, params) ==
    [ok |-> TRUE, id |-> <<"uuid">>, host |-> host, port |-> port, name |-> name, params |-> params]

\* The name at the end of a link.
NameText(name) == IF name = <<>> THEN <<>> ELSE <<"#">> \o Encode(name)

\* The steps of parse, each from what the one before it found.
ParsedIn(s, rest, link, auth, name, query, at, end) ==
    /\ s # <<>> /\ s[1] = "vless://" /\ rest = Tail(s)
    /\ name = First(rest, "#") /\ link = Before(rest, name)
    /\ query = First(link, "?") /\ auth = Split(Before(link, query), "/")[1]
    /\ at = Final(auth, "@") /\ end = Endpoint(After(auth, at))
    /\ at # 0 /\ Before(auth, at) = <<"uuid">> /\ end.ok

\* parse gives what the steps found.
LEMMA ParseSteps ==
    ASSUME NEW s, NEW rest, NEW link, NEW auth, NEW name, NEW query, NEW at, NEW end,
           ParsedIn(s, rest, link, auth, name, query, at, end)
    PROVE  ParseLink(s) =
             Uri(end.host, end.port, Decode(After(rest, name)),
                 FoldLeft(ReadParam, <<>>, Split(After(link, query), "&")))
<1>1. Before(auth, at) \in Uuids
  BY DEF Uuids, ParsedIn
<1> QED BY <1>1, Zenon DEF ParseLink, Uri, ParsedIn

\* Any address, with its host in brackets or not, is read as its host and port.
LEMMA AddressRead ==
    ASSUME NEW H, H \cap Marks = {}, NEW host \in Seq(H), host # <<>>,
           NEW port \in {<<>>} \cup Ports
    PROVE  /\ IsEndpoint(HostText(host) \o PortText(port), host, PortOf(port))
           /\ HostText(host) \o PortText(port) \in Seq(H \cup {"[", "]", ":", "443", "8443"})
<1>1. "[" \notin H /\ "]" \notin H
  BY DEF Marks
<1>2. PICK C : C = H \cup {"[", "]", ":", "443", "8443"}
  OBVIOUS
<1>3. PortText(port) \in Seq(C)
  <2>1. CASE port = <<>>
    BY <2>1 DEF PortText
  <2>2. CASE port # <<>>
    <3>1. port \in Seq({"443", "8443"})
      BY <2>2, PortSeq
    <3>2. PICK E, colon : E = {"443", "8443"} /\ colon = ":"
      OBVIOUS
    <3>3. E \subseteq C /\ colon \in C
      BY <1>2, <3>2
    <3>4. port \in Seq(C) /\ <<colon>> \in Seq(C)
      BY <3>1, <3>2, <3>3
    <3>5. <<colon>> \o port \in Seq(C)
      BY <3>4
    <3> QED BY <2>2, <3>2, <3>5 DEF PortText
  <2> QED BY <2>1, <2>2
<1>4. CASE Contains(host, ":")
  <2>1. PICK open, shut : open = "[" /\ shut = "]"
    OBVIOUS
  <2>2. HostText(host) = <<open>> \o host \o <<shut>>
    BY <1>4, <2>1 DEF HostText
  <2>3. open \in C /\ shut \in C /\ H \subseteq C
    BY <1>2, <2>1
  <2>4. <<open>> \in Seq(C) /\ host \in Seq(C) /\ <<shut>> \in Seq(C)
    BY <2>3
  <2>5. HostText(host) \o PortText(port) \in Seq(C)
    BY <1>3, <2>2, <2>4
  <2>6. IsEndpoint(<<"[">> \o host \o <<"]">> \o PortText(port), host, PortOf(port))
    BY <1>1, EndpointBracketed
  <2> QED BY <1>2, <2>1, <2>2, <2>5, <2>6
<1>5. CASE ~ Contains(host, ":")
  <2>1. HostText(host) = host
    BY <1>5 DEF HostText
  <2>2. PICK colon, G : colon = ":" /\ G = H \ {colon}
    OBVIOUS
  <2>3. \A k \in 1 .. Len(host) : host[k] # colon
    BY <1>5, <2>2 DEF Contains
  <2>4. host \in Seq(G)
    BY <2>2, <2>3
  <2>5. "[" \notin G /\ ":" \notin G
    BY <1>1, <2>2
  <2>6. IsEndpoint(host \o PortText(port), host, PortOf(port))
    BY <2>4, <2>5, EndpointNamed
  <2>7. host \in Seq(C)
    <3>1. H \subseteq C
      BY <1>2
    <3> QED BY <3>1
  <2>8. host \o PortText(port) \in Seq(C)
    BY <1>3, <2>7
  <2> QED BY <1>2, <2>1, <2>6, <2>8
<1> QED BY <1>4, <1>5

\* The name is cut off first, then the parameters.
LEMMA NameRead ==
    ASSUME NEW S, S \cap DOMAIN Plain = {}, NEW name \in Seq(S), NEW R, "#" \notin R, NEW link \in Seq(R)
    PROVE  LET rest == link \o NameText(name)
               k == First(rest, "#")
           IN Before(rest, k) = link /\ Decode(After(rest, k)) = name
<1>1. PICK e, mark : e = <<>> /\ mark = "#"
  OBVIOUS
<1>2. CASE name = e
  <2>1. link \o NameText(name) = link
    BY <1>1, <1>2 DEF NameText
  <2>2. First(link, "#") = 0 /\ Before(link, 0) = link /\ After(link, 0) = <<>>
    BY FirstNone
  <2>3. Decode(<<>>) = <<>>
    BY DEF Decode
  <2> QED BY <1>1, <1>2, <2>1, <2>2, <2>3
<1>3. CASE name # e
  <2>1. PICK t, C : t = Encode(name) /\ C = Coded(S)
    OBVIOUS
  <2>2. t \in Seq(C) /\ Decode(t) = name
    BY <2>1, EncodeCoded
  <2>3. PICK rest : rest = link \o <<mark>> \o t
    OBVIOUS
  <2>4. mark \notin R
    BY <1>1
  <2>5. Before(rest, First(rest, mark)) = link /\ After(rest, First(rest, mark)) = t
    BY <2>2, <2>3, <2>4, FirstAt
  <2>6. rest = link \o NameText(name)
    <3>1. PICK D : D = R \cup C \cup {mark}
      OBVIOUS
    <3>2. link \in Seq(D) /\ t \in Seq(D) /\ <<mark>> \in Seq(D)
      BY <2>2, <3>1
    <3>3. rest = link \o (<<mark>> \o t)
      BY <2>3, <3>2
    <3>4. NameText(name) = <<mark>> \o t
      BY <1>1, <1>3, <2>1 DEF NameText
    <3> QED BY <3>3, <3>4
  <2> QED BY <1>1, <2>2, <2>5, <2>6
<1> QED BY <1>2, <1>3

\* What is before the query is cut off, and the parameters are read from the rest.
LEMMA ParamsRead ==
    ASSUME NEW S, S \cap DOMAIN Plain = {}, NEW params \in Seq(Named(S)), NEW R, "?" \notin R,
           NEW auth \in Seq(R)
    PROVE  LET link == auth \o QueryText(params)
               k == First(link, "?")
           IN /\ Before(link, k) = auth
              /\ FoldLeft(ReadParam, <<>>, Split(After(link, k), "&")) = params
              /\ link \in Seq(R \cup InQuery(S))
<1>1. PICK e, mark : e = <<>> /\ mark = "?"
  OBVIOUS
<1>2. CASE params = e /\ QueryText(params) = e
  <2>1. auth \o QueryText(params) = auth
    BY <1>1, <1>2
  <2>2. First(auth, "?") = 0 /\ Before(auth, 0) = auth /\ After(auth, 0) = <<>>
    BY FirstNone
  <2>3. FoldLeft(ReadParam, <<>>, Split(<<>>, "&")) = <<>>
    <3>1. PICK b : b = <<e>>
      OBVIOUS
    <3>2. Split(e, "&") = b
      BY <1>1, <3>1, SplitStep, Parting!FoldEmpty
    <3>3. PICK Q : Q = {e}
      OBVIOUS
    <3>4. e \in Seq(Q) /\ e \in Q /\ b = Append(e, e)
      BY <1>1, <3>1, <3>3
    <3>5. Pairing!Fold(e, Append(e, e)) = ReadParam(Pairing!Fold(e, e), e)
      BY <3>4, Pairing!FoldAppend
    <3>6. Pairing!Fold(e, e) = e
      BY <1>1, Pairing!FoldEmpty
    <3>7. ReadParam(e, e) = e
      BY <1>1 DEF ReadParam
    <3> QED BY <1>1, <3>2, <3>4, <3>5, <3>6, <3>7, ParamFold
  <2>4. auth \in Seq(R \cup InQuery(S))
    <3>1. PICK D : D = R \cup InQuery(S)
      OBVIOUS
    <3>2. R \subseteq D
      BY <3>1
    <3>3. auth \in Seq(D)
      BY <3>2
    <3> QED BY <3>1, <3>3
  <2> QED BY <1>1, <1>2, <2>1, <2>2, <2>3, <2>4
<1>3. ASSUME NEW r, QueryIs(S, params, r)
      PROVE  LET link == auth \o QueryText(params)
                 k == First(link, "?")
             IN /\ Before(link, k) = auth
                /\ FoldLeft(ReadParam, <<>>, Split(After(link, k), "&")) = params
                /\ link \in Seq(R \cup InQuery(S))
  <2>1. PICK B : B = InBody(S)
    OBVIOUS
  <2>2. r \in Seq(B) /\ QueryText(params) = <<mark>> \o r
        /\ FoldLeft(ReadParam, <<>>, Split(r, "&")) = params
    BY <1>1, <1>3, <2>1 DEF QueryIs
  <2>3. PICK link : link = auth \o <<mark>> \o r
    OBVIOUS
  <2>4. mark \notin R
    BY <1>1
  <2>5. Before(link, First(link, mark)) = auth /\ After(link, First(link, mark)) = r
    <3>1. r \in Seq(B)
      BY <2>2
    <3> QED BY <2>3, <2>4, <3>1, FirstAt
  <2>6. link = auth \o QueryText(params) /\ link \in Seq(R \cup InQuery(S))
    <3>1. PICK D : D = R \cup InQuery(S)
      OBVIOUS
    <3>2. R \subseteq D /\ B \subseteq D /\ mark \in D
      BY <1>1, <2>1, <3>1 DEF InQuery, InBody
    <3>3. auth \in Seq(D) /\ r \in Seq(D) /\ <<mark>> \in Seq(D)
      <4>1. r \in Seq(B)
        BY <2>2
      <4> QED BY <3>2, <4>1
    <3>4. link = auth \o (<<mark>> \o r) /\ link \in Seq(D)
      BY <2>3, <3>3
    <3> QED BY <2>2, <3>1, <3>4
  <2> QED BY <1>1, <2>2, <2>5, <2>6
<1>4. (params = <<>> /\ QueryText(params) = <<>>) \/ \E r : QueryIs(S, params, r)
  BY QueryRead
<1> QED BY <1>1, <1>2, <1>3, <1>4

-----------------------------------------------------------------------------
(* The link. *)

\* The address that a link is made of.
Address(host, port, name) == [host |-> host, port |-> port, name |-> name]

\* What follows the scheme, with what is cut off it in its turn.
Rest(host, port, name, params) ==
    AddressText(host, port) \o QueryText(params) \o NameText(name)

\* The whole link and what follows its scheme, from the pieces of each.
Whole(v, u, m, h, p, q, n) == <<v, u, m>> \o h \o p \o q \o n

Behind(u, m, h, p, q, n) == <<u, m>> \o (h \o p) \o q \o n

\* The scheme is the first piece of the link, and the rest is in the order of the reading.
LEMMA Regrouped ==
    ASSUME NEW D, NEW v \in D, NEW u \in D, NEW m \in D,
           NEW h \in Seq(D), NEW p \in Seq(D), NEW q \in Seq(D), NEW n \in Seq(D)
    PROVE  /\ Behind(u, m, h, p, q, n) \in Seq(D)
           /\ Whole(v, u, m, h, p, q, n) = <<v>> \o Behind(u, m, h, p, q, n)
<1>1. PICK x, k, l : x = <<v>> /\ k = <<u, m>> /\ l = <<v, u, m>>
  OBVIOUS
<1>2. x \in Seq(D) /\ k \in Seq(D) /\ l = x \o k
  BY <1>1
<1>3. PICK a, b, c, d : a = k \o h /\ b = a \o p /\ c = b \o q /\ d = c \o n
  OBVIOUS
<1>4. a \in Seq(D)
  BY <1>2, <1>3
<1>5. b \in Seq(D)
  BY <1>3, <1>4
<1>6. c \in Seq(D)
  BY <1>3, <1>5
<1>7. d \in Seq(D)
  BY <1>3, <1>6
<1>8. (k \o h) \o p = k \o (h \o p)
  BY <1>2
<1>9. (x \o k) \o h = x \o (k \o h)
  BY <1>2
<1>10. (x \o a) \o p = x \o (a \o p)
  <2>1. x \in Seq(D)
    BY <1>2
  <2> QED BY <1>4, <2>1
<1>11. (x \o b) \o q = x \o (b \o q)
  <2>1. x \in Seq(D)
    BY <1>2
  <2> QED BY <1>5, <2>1
<1>12. (x \o c) \o n = x \o (c \o n)
  <2>1. x \in Seq(D)
    BY <1>2
  <2> QED BY <1>6, <2>1
<1>13. k \o (h \o p) \o q \o n = d
  BY <1>3, <1>8
<1>14. l \o h \o p \o q \o n = x \o d
  BY <1>2, <1>3, <1>9, <1>10, <1>11, <1>12
<1> QED BY <1>1, <1>7, <1>13, <1>14 DEF Whole, Behind

\* What MakeLink writes, as a scheme and a rest.
LEMMA LinkText ==
    ASSUME NEW H, H \cap Marks = {}, NEW host \in Seq(H), host # <<>>,
           NEW port \in {<<>>} \cup Ports,
           NEW S, S \cap DOMAIN Plain = {}, NEW name \in Seq(S), NEW params \in Seq(Named(S))
    PROVE  LET s == MakeLink(Address(host, port, name), params) IN
           s # <<>> /\ s[1] = "vless://" /\ Tail(s) = Rest(host, port, name, params)
<1>1. PICK hp, q, n : hp = HostText(host) \o PortText(port) /\ q = QueryText(params) /\ n = NameText(name)
  OBVIOUS
<1>2. PICK h, p, v, u, m : h = HostText(host) /\ p = PortText(port)
                           /\ v = "vless://" /\ u = "uuid" /\ m = "@"
  OBVIOUS
<1>3. MakeLink(Address(host, port, name), params) = <<v, u, m>> \o h \o p \o q \o n
  <2>1. QueryText(params) = FlattenSeq([k \in DOMAIN params |->
            <<IF k = 1 THEN "?" ELSE "&">> \o Encode(params[k][1]) \o <<"=">> \o Encode(params[k][2])])
    BY Zenon DEF QueryText, ParamParts
  <2>2. Address(host, port, name).host = host /\ Address(host, port, name).port = port
        /\ Address(host, port, name).name = name
    BY DEF Address
  <2>3. h = IF Contains(host, ":") THEN <<"[">> \o host \o <<"]">> ELSE host
    BY <1>2 DEF HostText
  <2>4. p = IF port = <<>> THEN <<>> ELSE <<":">> \o port
    BY <1>2 DEF PortText
  <2>5. n = IF name = <<>> THEN <<>> ELSE <<"#">> \o Encode(name)
    BY <1>1 DEF NameText
  <2> QED BY <1>1, <1>2, <2>1, <2>2, <2>3, <2>4, <2>5, Zenon DEF MakeLink
<1>4. \E D : h \in Seq(D) /\ p \in Seq(D) /\ q \in Seq(D) /\ n \in Seq(D) /\ u \in D /\ m \in D /\ v \in D
  <2>1. PICK A, Q, M : A = H \cup {"[", "]", ":", "443", "8443"} /\ Q = InBody(S) \cup {"?"}
                       /\ M = Coded(S) \cup {"#"}
    OBVIOUS
  <2>2. h \in Seq(A)
    <3>1. PICK open, shut : open = "[" /\ shut = "]"
      OBVIOUS
    <3>2. H \subseteq A /\ open \in A /\ shut \in A
      BY <2>1, <3>1
    <3>3. host \in Seq(A) /\ <<open>> \in Seq(A) /\ <<shut>> \in Seq(A)
      BY <3>2
    <3>4. <<open>> \o host \o <<shut>> \in Seq(A)
      BY <3>3
    <3> QED BY <1>2, <3>1, <3>3, <3>4 DEF HostText
  <2>3. p \in Seq(A)
    <3>1. CASE port = <<>>
      BY <1>2, <3>1 DEF PortText
    <3>2. CASE port # <<>>
      <4>1. PICK E, colon : E = {"443", "8443"} /\ colon = ":"
        OBVIOUS
      <4>2. port \in Seq(E)
        BY <3>2, <4>1, PortSeq
      <4>3. E \subseteq A /\ colon \in A
        BY <2>1, <4>1
      <4>4. port \in Seq(A) /\ <<colon>> \in Seq(A)
        BY <4>2, <4>3
      <4>5. <<colon>> \o port \in Seq(A)
        BY <4>4
      <4> QED BY <1>2, <3>2, <4>1, <4>5 DEF PortText
    <3> QED BY <3>1, <3>2
  <2>4. q \in Seq(Q)
    <3>1. CASE QueryText(params) = <<>>
      BY <1>1, <3>1
    <3>2. ASSUME NEW w, QueryIs(S, params, w) PROVE q \in Seq(Q)
      <4>1. PICK G, mark : G = InBody(S) /\ mark = "?"
        OBVIOUS
      <4>2. w \in Seq(G) /\ q = <<mark>> \o w
        BY <1>1, <3>2, <4>1 DEF QueryIs
      <4>3. G \subseteq Q /\ mark \in Q
        BY <2>1, <4>1
      <4>4. w \in Seq(Q) /\ <<mark>> \in Seq(Q)
        BY <4>2, <4>3
      <4> QED BY <4>2, <4>4
    <3> QED BY <3>1, <3>2, QueryRead
  <2>5. n \in Seq(M)
    <3>1. CASE name = <<>>
      BY <1>1, <3>1 DEF NameText
    <3>2. CASE name # <<>>
      <4>1. PICK C, mark, t : C = Coded(S) /\ mark = "#" /\ t = Encode(name)
        OBVIOUS
      <4>2. t \in Seq(C)
        BY <4>1, EncodeCoded
      <4>3. C \subseteq M /\ mark \in M
        BY <2>1, <4>1
      <4>4. t \in Seq(M) /\ <<mark>> \in Seq(M)
        BY <4>2, <4>3
      <4>5. <<mark>> \o t \in Seq(M)
        BY <4>4
      <4> QED BY <1>1, <3>2, <4>1, <4>5 DEF NameText
    <3> QED BY <3>1, <3>2
  <2>6. PICK D : D = A \cup Q \cup M \cup {u, m, v}
    OBVIOUS
  <2>7. h \in Seq(D) /\ p \in Seq(D) /\ q \in Seq(D) /\ n \in Seq(D)
    BY <2>2, <2>3, <2>4, <2>5, <2>6
  <2>8. u \in D /\ m \in D /\ v \in D
    BY <2>6
  <2> QED BY <2>7, <2>8
<1>5. PICK D : h \in Seq(D) /\ p \in Seq(D) /\ q \in Seq(D) /\ n \in Seq(D) /\ u \in D /\ m \in D /\ v \in D
  BY <1>4
<1>6. PICK s, r : s = <<v, u, m>> \o h \o p \o q \o n /\ r = <<u, m>> \o (h \o p) \o q \o n
  OBVIOUS
<1>7. r \in Seq(D) /\ s = <<v>> \o r
  <2>1. h \in Seq(D) /\ p \in Seq(D) /\ q \in Seq(D) /\ n \in Seq(D) /\ u \in D /\ m \in D /\ v \in D
    BY <1>5
  <2>2. Behind(u, m, h, p, q, n) \in Seq(D)
        /\ Whole(v, u, m, h, p, q, n) = <<v>> \o Behind(u, m, h, p, q, n)
    BY <2>1, Regrouped
  <2>3. s = Whole(v, u, m, h, p, q, n) /\ r = Behind(u, m, h, p, q, n)
    BY <1>6 DEF Whole, Behind
  <2> QED BY <2>2, <2>3
<1>8. s # <<>> /\ s[1] = v /\ Tail(s) = r
  <2>1. Len(s) = Len(r) + 1 /\ Len(r) \in Nat /\ s[1] = v
    BY <1>5, <1>7
  <2>2. s # <<>>
    BY <2>1
  <2>3. Tail(s) = r
    BY <1>5, <1>7
  <2> QED BY <2>1, <2>2, <2>3
<1>9. r = Rest(host, port, name, params)
  BY <1>1, <1>2, <1>6 DEF Rest, AddressText
<1> QED BY <1>2, <1>3, <1>6, <1>8, <1>9

\* A link is read as what it was made of: the address with its host and port, the name,
\* and the parameters in their order, whatever characters are in the names and the values.
THEOREM LinkRead ==
    ASSUME NEW H, H \cap Marks = {}, NEW host \in Seq(H), host # <<>>,
           NEW port \in {<<>>} \cup Ports,
           NEW S, S \cap DOMAIN Plain = {}, NEW name \in Seq(S), NEW params \in Seq(Named(S))
    PROVE  ParseLink(MakeLink(Address(host, port, name), params))
             = Uri(host, PortOf(port), name, params)
<1>1. PICK s, rest : s = MakeLink(Address(host, port, name), params)
                     /\ rest = Rest(host, port, name, params)
  OBVIOUS
<1>2. s # <<>> /\ s[1] = "vless://" /\ rest = Tail(s)
  BY <1>1, LinkText
<1>3. PICK hp, A, auth, m, u : /\ hp = HostText(host) \o PortText(port)
                          /\ A = H \cup {"[", "]", ":", "443", "8443"}
                          /\ m = "@" /\ u = "uuid" /\ auth = <<u, m>> \o hp
  OBVIOUS
<1>4. hp \in Seq(A) /\ IsEndpoint(hp, host, PortOf(port))
  BY <1>3, AddressRead
<1>5. PICK R : R = A \cup {u, m}
  OBVIOUS
<1>6. auth \in Seq(R)
  <2>1. A \subseteq R /\ u \in R /\ m \in R
    BY <1>5
  <2>2. hp \in Seq(R) /\ <<u, m>> \in Seq(R)
    BY <1>4, <2>1
  <2> QED BY <1>3, <2>2
<1>7. "?" \notin R /\ "/" \notin R /\ m \notin A /\ "#" \notin R
  BY <1>3, <1>5 DEF Marks
<1>8. PICK link, Q : link = auth \o QueryText(params) /\ Q = R \cup InQuery(S)
  OBVIOUS
<1>9. /\ Before(link, First(link, "?")) = auth
      /\ FoldLeft(ReadParam, <<>>, Split(After(link, First(link, "?")), "&")) = params
      /\ link \in Seq(Q)
  BY <1>6, <1>7, <1>8, ParamsRead
<1>10. "#" \notin Q
  <2>1. "#" \notin InQuery(S)
    BY NotCoded DEF InQuery, InParam
  <2> QED BY <1>7, <1>8, <2>1
<1>11. rest = link \o NameText(name)
  BY <1>1, <1>3, <1>8 DEF Rest, AddressText
<1>12. Before(rest, First(rest, "#")) = link /\ Decode(After(rest, First(rest, "#"))) = name
  BY <1>9, <1>10, <1>11, NameRead
<1>13. Split(auth, "/")[1] = auth
  BY <1>6, <1>7, SlashMore
<1>14. Final(auth, "@") # 0 /\ Before(auth, Final(auth, "@")) = <<"uuid">>
       /\ After(auth, Final(auth, "@")) = hp
  <2>1. PICK U, one : U = {u} /\ one = <<u>>
    OBVIOUS
  <2>2. one \in Seq(U) /\ Len(one) + 1 # 0
    BY <2>1
  <2>3. PICK w : w = one \o <<m>> \o hp
    OBVIOUS
  <2>4. Final(w, m) = Len(one) + 1 /\ Before(w, Final(w, m)) = one /\ After(w, Final(w, m)) = hp
    BY <1>4, <1>7, <2>2, <2>3, FinalAt
  <2>5. one \o <<m>> = <<u, m>>
    BY <2>1, TwoOnes
  <2> QED BY <1>3, <2>1, <2>2, <2>3, <2>4, <2>5
<1>15. PICK end : end = Endpoint(hp)
  OBVIOUS
<1>16. end.ok /\ end.host = host /\ end.port = PortOf(port)
  BY <1>4, <1>15 DEF IsEndpoint
<1>17. PICK nm, qy, at : nm = First(rest, "#") /\ qy = First(link, "?") /\ at = Final(auth, "@")
  OBVIOUS
<1>18. link = Before(rest, nm) /\ auth = Split(Before(link, qy), "/")[1] /\ end = Endpoint(After(auth, at))
  BY <1>9, <1>12, <1>13, <1>14, <1>15, <1>17
<1>19. at # 0 /\ Before(auth, at) = <<"uuid">> /\ end.ok
  BY <1>14, <1>16, <1>17
<1>20. ParseLink(s) =
         Uri(end.host, end.port, Decode(After(rest, nm)),
             FoldLeft(ReadParam, <<>>, Split(After(link, qy), "&")))
  <2>1. ParsedIn(s, rest, link, auth, nm, qy, at, end)
    BY <1>2, <1>15, <1>17, <1>18, <1>19, Zenon DEF ParsedIn
  <2> QED BY <2>1, ParseSteps
<1>21. Decode(After(rest, nm)) = name
  BY <1>12, <1>17
<1>22. FoldLeft(ReadParam, <<>>, Split(After(link, qy), "&")) = params
  BY <1>9, <1>17
<1> QED BY <1>1, <1>16, <1>20, <1>21, <1>22

-----------------------------------------------------------------------------
(* The parameters that count. *)

\* What Param does with one parameter, by the key that is asked for.
SecurityOf(v, p) == IF p[1] = <<"security">> THEN p[2] ELSE v

SniOf(v, p) == IF p[1] = <<"sni">> THEN p[2] ELSE v

\* The folds of the two.
Securing == INSTANCE FoldFacts WITH Op <- SecurityOf
Naming   == INSTANCE FoldFacts WITH Op <- SniOf

\* The same for either key.
Chosen(v, p, key) == IF p[1] = key THEN p[2] ELSE v

\* Param is these folds.
LEMMA ParamFolds ==
    ASSUME NEW default, NEW ps
    PROVE  /\ Param(ps, <<"security">>, default) = Securing!Fold(default, ps)
           /\ Param(ps, <<"sni">>, default) = Naming!Fold(default, ps)
<1>1. Param(ps, <<"security">>, default) = Securing!Fold(default, ps)
  BY Zenon DEF Param, SecurityOf, FoldLeft, MapThenFoldSet, Max, Securing!Fold, Securing!FoldLeft,
               Securing!MapThenFoldSet, Securing!Max
<1>2. Param(ps, <<"sni">>, default) = Naming!Fold(default, ps)
  BY Zenon DEF Param, SniOf, FoldLeft, MapThenFoldSet, Max, Naming!Fold, Naming!FoldLeft,
               Naming!MapThenFoldSet, Naming!Max
<1> QED BY <1>1, <1>2

\* Without parameters the default counts.
LEMMA ParamNone ==
    ASSUME NEW key \in {<<"security">>, <<"sni">>}, NEW default
    PROVE  Param(<<>>, key, default) = default
<1>1. Securing!Fold(default, <<>>) = default /\ Naming!Fold(default, <<>>) = default
  BY Securing!FoldEmpty, Naming!FoldEmpty
<1> QED BY <1>1, ParamFolds

\* A parameter more counts if it has the key.
LEMMA ParamStep ==
    ASSUME NEW key \in {<<"security">>, <<"sni">>}, NEW default, NEW N, NEW qs \in Seq(N), NEW x \in N
    PROVE  Param(Append(qs, x), key, default) = Chosen(Param(qs, key, default), x, key)
<1>1. PICK d : d = Append(qs, x)
  OBVIOUS
<1>2. Securing!Fold(default, d) = SecurityOf(Securing!Fold(default, qs), x)
  BY <1>1, Securing!FoldAppend
<1>3. Naming!Fold(default, d) = SniOf(Naming!Fold(default, qs), x)
  BY <1>1, Naming!FoldAppend
<1>4. CASE key = <<"security">>
  <2>1. Param(d, <<"security">>, default) = Chosen(Param(qs, <<"security">>, default), x, <<"security">>)
    BY <1>2, ParamFolds DEF Chosen, SecurityOf
  <2> QED BY <1>1, <1>4, <2>1
<1>5. CASE key = <<"sni">>
  <2>1. Param(d, <<"sni">>, default) = Chosen(Param(qs, <<"sni">>, default), x, <<"sni">>)
    BY <1>3, ParamFolds DEF Chosen, SniOf
  <2> QED BY <1>1, <1>5, <2>1
<1> QED BY <1>4, <1>5

\* The places of a key, and the last of them.
Keyed(ps, key) == {k \in DOMAIN ps : ps[k][1] = key}

LastOf(ps, key, k) == k \in Keyed(ps, key) /\ \A j \in Keyed(ps, key) : j <= k

\* The value is that of the last parameter with the key.
ParamIs(ps, key, default) ==
    \/ Keyed(ps, key) = {} /\ Param(ps, key, default) = default
    \/ \E k : LastOf(ps, key, k) /\ Param(ps, key, default) = ps[k][2]

\* Of two parameters with one key the last counts (query_params, a map), in any list.
LEMMA ParamLast ==
    ASSUME NEW key \in {<<"security">>, <<"sni">>}, NEW default, NEW N, NEW ps \in Seq(N)
    PROVE  ParamIs(ps, key, default)
<1> DEFINE T == {qs \in Seq(N) : ParamIs(qs, key, default)}
<1>1. <<>> \in T
  <2>1. Keyed(<<>>, key) = {} /\ <<>> \in Seq(N)
    BY DEF Keyed
  <2>2. Param(<<>>, key, default) = default
    BY ParamNone
  <2> QED BY <2>1, <2>2 DEF ParamIs
<1>2. ASSUME NEW qs \in Seq(N), NEW x \in N, qs \in T PROVE Append(qs, x) \in T
  <2>1. PICK n, d : n = Len(qs) /\ d = Append(qs, x)
    OBVIOUS
  <2>2. /\ n \in Nat /\ DOMAIN qs = 1 .. n /\ DOMAIN d = 1 .. n + 1 /\ d[n + 1] = x
        /\ \A k \in 1 .. n : d[k] = qs[k]
        /\ d \in Seq(N)
    BY <2>1
  <2>3. Param(d, key, default) = IF x[1] = key THEN x[2] ELSE Param(qs, key, default)
    <3>1. Param(Append(qs, x), key, default) = Chosen(Param(qs, key, default), x, key)
      BY ParamStep
    <3> QED BY <2>1, <3>1 DEF Chosen
  <2>4. \A k : k \in Keyed(d, key) <=> (k = n + 1 /\ x[1] = key) \/ k \in Keyed(qs, key)
    <3> SUFFICES ASSUME NEW k
                 PROVE  k \in Keyed(d, key) <=> (k = n + 1 /\ x[1] = key) \/ k \in Keyed(qs, key)
      OBVIOUS
    <3>1. k \in 1 .. n + 1 <=> k = n + 1 \/ k \in 1 .. n
      BY <2>2
    <3>2. n + 1 \notin 1 .. n
      BY <2>2
    <3>3. k \in Keyed(d, key) <=> k \in 1 .. n + 1 /\ d[k][1] = key
      BY <2>2 DEF Keyed
    <3>4. k \in Keyed(qs, key) <=> k \in 1 .. n /\ qs[k][1] = key
      BY <2>2 DEF Keyed
    <3> QED BY <2>2, <3>1, <3>2, <3>3, <3>4
  <2>5. \A k \in Keyed(qs, key) : k \in 1 .. n
    BY <2>2 DEF Keyed
  <2>6. CASE x[1] = key
    <3>1. n + 1 \in Keyed(d, key) /\ \A j \in Keyed(d, key) : j <= n + 1
      BY <2>2, <2>4, <2>5, <2>6
    <3>2. Param(d, key, default) = d[n + 1][2]
      BY <2>2, <2>3, <2>6
    <3>3. LastOf(d, key, n + 1)
      BY <3>1 DEF LastOf
    <3>4. ParamIs(d, key, default)
      BY <3>2, <3>3 DEF ParamIs
    <3> QED BY <2>1, <2>2, <3>4
  <2>7. CASE x[1] # key
    <3>1. Keyed(d, key) = Keyed(qs, key) /\ Param(d, key, default) = Param(qs, key, default)
      BY <2>3, <2>4, <2>7
    <3>2. ParamIs(qs, key, default)
      BY <1>2
    <3>3. ASSUME Keyed(qs, key) = {}, Param(qs, key, default) = default
          PROVE  ParamIs(d, key, default)
      BY <3>1, <3>3 DEF ParamIs
    <3>4. ASSUME NEW k, LastOf(qs, key, k), Param(qs, key, default) = qs[k][2]
          PROVE  ParamIs(d, key, default)
      <4>1. k \in 1 .. n
        BY <2>5, <3>4 DEF LastOf
      <4>2. d[k] = qs[k]
        BY <2>2, <4>1
      <4>3. LastOf(d, key, k)
        BY <3>1, <3>4 DEF LastOf
      <4> QED BY <3>1, <3>4, <4>2, <4>3 DEF ParamIs
    <3>5. ParamIs(d, key, default)
      BY <3>2, <3>3, <3>4 DEF ParamIs
    <3> QED BY <2>1, <2>2, <3>5
  <2> QED BY <2>6, <2>7
<1>3. Seq(N) \subseteq T
  <2> HIDE DEF T
  <2> QED BY <1>1, <1>2, Pairing!SeqInd
<1>4. ps \in T
  <2> HIDE DEF T
  <2> QED BY <1>3
<1> QED BY <1>4

\* How the link that is made is to be secured, as LinkReachesServer says it.
ModeOf(made) ==
    LET secured == {k \in DOMAIN made : made[k][1] = <<"security">>}
    IN IF secured = {} THEN <<"none">>
       ELSE made[CHOOSE k \in secured : \A j \in secured : j <= k][2]

\* The security that build_from_uri asks for is the one the link was made with.
LEMMA ModeRead ==
    ASSUME NEW N, NEW made \in Seq(N)
    PROVE  Param(made, <<"security">>, <<"none">>) = ModeOf(made)
<1> DEFINE K == Keyed(made, <<"security">>)
           c == CHOOSE k \in K : \A j \in K : j <= k
<1>1. ModeOf(made) = IF K = {} THEN <<"none">> ELSE made[c][2]
  BY Zenon DEF ModeOf, Keyed
<1>2. K \subseteq Nat
  BY DEF Keyed
<1>3. (\E k \in K : \A j \in K : j <= k) => c \in K /\ \A j \in K : j <= c
  BY Zenon
<1> HIDE DEF c
<1>4. ParamIs(made, <<"security">>, <<"none">>)
  BY ParamLast
<1>5. CASE K = {}
  BY <1>1, <1>4, <1>5 DEF ParamIs, LastOf
<1>6. CASE K # {}
  <2>1. PICK k : LastOf(made, <<"security">>, k)
                 /\ Param(made, <<"security">>, <<"none">>) = made[k][2]
    BY <1>4, <1>6 DEF ParamIs
  <2>2. k \in K /\ \A j \in K : j <= k
    BY <2>1 DEF LastOf
  <2>3. c \in K /\ \A j \in K : j <= c
    BY <1>3, <2>2
  <2>4. c = k
    <3>1. c <= k /\ k <= c /\ c \in Nat /\ k \in Nat
      BY <1>2, <2>2, <2>3
    <3> QED BY <3>1
  <2> QED BY <1>1, <1>6, <2>1, <2>4
<1> QED BY <1>5, <1>6

-----------------------------------------------------------------------------
(* Where the link leads. *)

\* LinkReachesServer, of one address and its parameters.
ReachesServer(a, made) ==
    LET uri == ParseLink(MakeLink(a, made))
        x == Xray(uri)
        mode == ModeOf(made)
    IN /\ uri.ok /\ uri.name = a.name /\ uri.params = made
       /\ x.address = a.host
       /\ x.port = IF a.port = <<>> THEN <<"443">> ELSE a.port
       /\ mode \in {<<"reality">>, <<"tls">>} <=> x.security # <<"none">>
       /\ x.security # <<"none">> =>
            \A k \in DOMAIN made : made[k][1] = <<"sni">> =>
                \E j \in DOMAIN made : made[j] = <<<<"sni">>, x.serverName>>

\* Of build_from_uri: the address, the security, and the name of the server with it.
LEMMA XrayIs ==
    ASSUME NEW uri, NEW asked, asked = Param(uri.params, <<"security">>, <<"none">>)
    PROVE  /\ Xray(uri).address = uri.host /\ Xray(uri).port = uri.port
           /\ Xray(uri).security = IF asked \in {<<"reality">>, <<"tls">>} THEN asked ELSE <<"none">>
           /\ Xray(uri).security \in {<<"reality">>, <<"tls">>} =>
                Xray(uri).serverName = Param(uri.params, <<"sni">>, <<>>)
BY DEF Xray

\* Any link, of any host, port, name and parameters, leads xray to its server.
THEOREM LinkReaches ==
    ASSUME NEW H, H \cap Marks = {}, NEW host \in Seq(H), host # <<>>,
           NEW port \in {<<>>} \cup Ports,
           NEW S, S \cap DOMAIN Plain = {}, NEW name \in Seq(S), NEW params \in Seq(Named(S))
    PROVE  ReachesServer(Address(host, port, name), params)
<1>1. PICK a, uri, x : a = Address(host, port, name) /\ uri = ParseLink(MakeLink(a, params))
                       /\ x = Xray(uri)
  OBVIOUS
<1>2. uri = Uri(host, PortOf(port), name, params)
  <2>1. ParseLink(MakeLink(Address(host, port, name), params)) = Uri(host, PortOf(port), name, params)
    BY LinkRead
  <2> QED BY <1>1, <2>1
<1>3. a.host = host /\ a.port = port /\ a.name = name
  BY <1>1 DEF Address
<1>4. uri.ok /\ uri.host = host /\ uri.port = PortOf(port) /\ uri.name = name /\ uri.params = params
  BY <1>2 DEF Uri
<1>5. PICK N, mode : N = Named(S) /\ mode = ModeOf(params)
  OBVIOUS
<1>6. params \in Seq(N)
  BY <1>5
<1>7. Param(params, <<"security">>, <<"none">>) = mode
  BY <1>5, <1>6, ModeRead
<1>8. /\ x.address = host /\ x.port = PortOf(port)
      /\ x.security = IF mode \in {<<"reality">>, <<"tls">>} THEN mode ELSE <<"none">>
      /\ x.security \in {<<"reality">>, <<"tls">>} => x.serverName = Param(params, <<"sni">>, <<>>)
  BY <1>1, <1>4, <1>7, XrayIs
<1>9. <<"reality">> # <<"none">> /\ <<"tls">> # <<"none">>
  OBVIOUS
<1>10. mode \in {<<"reality">>, <<"tls">>} <=> x.security # <<"none">>
  BY <1>8, <1>9
<1>11. ASSUME x.security # <<"none">>, NEW k \in DOMAIN params, params[k][1] = <<"sni">>
       PROVE  \E j \in DOMAIN params : params[j] = <<<<"sni">>, x.serverName>>
  <2>1. x.serverName = Param(params, <<"sni">>, <<>>)
    BY <1>8, <1>10, <1>11
  <2>2. ParamIs(params, <<"sni">>, <<>>)
    BY <1>6, ParamLast
  <2>3. k \in Keyed(params, <<"sni">>)
    BY <1>11 DEF Keyed
  <2>4. PICK j : LastOf(params, <<"sni">>, j) /\ Param(params, <<"sni">>, <<>>) = params[j][2]
    BY <2>2, <2>3 DEF ParamIs
  <2>5. j \in DOMAIN params /\ params[j][1] = <<"sni">>
    BY <2>4 DEF LastOf, Keyed
  <2>6. params[j] \in Named(S)
    BY <2>5
  <2>7. params[j] = <<params[j][1], params[j][2]>>
    BY <2>6 DEF Named
  <2> QED BY <2>1, <2>4, <2>5, <2>7
<1>12. /\ uri.ok /\ uri.name = a.name /\ uri.params = params
       /\ x.address = a.host
       /\ x.port = IF a.port = <<>> THEN <<"443">> ELSE a.port
  BY <1>3, <1>4, <1>8 DEF PortOf
<1>13. ReachesServer(a, params)
  BY <1>1, <1>5, <1>10, <1>11, <1>12, Zenon DEF ReachesServer
<1> QED BY <1>1, <1>13

\* What the run's links are made of.
HostPieces == {"host", "a", ":", "b"}

NamePieces == {"my", Blank, "#", "1", "security", "reality", "tls", "xtls", "sni", "fp", "flow",
               "pbk", "x", "&", "=", "y"}

\* The run's addresses are such.
LEMMA AddressesAre ==
    ASSUME NEW a \in Addresses
    PROVE  \E host \in Seq(HostPieces), port \in {<<>>} \cup Ports, name \in Seq(NamePieces) :
               host # <<>> /\ a = Address(host, port, name)
<1>1. a.host \in {<<"host">>, <<"a", ":", "b">>} /\ a.port \in {<<>>, <<"8443">>}
      /\ a.name \in {<<>>, <<"my", Blank, "#", "1">>} /\ a = Address(a.host, a.port, a.name)
  BY DEF Addresses, Address
<1>2. a.host \in Seq(HostPieces) /\ a.host # <<>>
  <2>1. PICK H, h, x, y, z : H = HostPieces /\ h = "host" /\ x = "a" /\ y = ":" /\ z = "b"
    OBVIOUS
  <2>2. h \in H /\ x \in H /\ y \in H /\ z \in H
    BY <2>1 DEF HostPieces
  <2>3. <<h>> \in Seq(H) /\ <<x, y, z>> \in Seq(H) /\ <<h>> # <<>> /\ <<x, y, z>> # <<>>
    BY <2>2
  <2> QED BY <1>1, <2>1, <2>3
<1>3. a.port \in {<<>>} \cup Ports
  BY <1>1 DEF Ports
<1>4. a.name \in Seq(NamePieces)
  <2>1. PICK M, x, y, z, w : M = NamePieces /\ x = "my" /\ y = Blank /\ z = "#" /\ w = "1"
    OBVIOUS
  <2>2. x \in M /\ y \in M /\ z \in M /\ w \in M
    BY <2>1 DEF NamePieces
  <2>3. <<x, y, z, w>> \in Seq(M) /\ <<>> \in Seq(M)
    BY <2>2
  <2> QED BY <1>1, <2>1, <2>3
<1> QED BY <1>1, <1>2, <1>3, <1>4

\* And its parameters.
LEMMA ParamsAre == Params \subseteq Named(NamePieces)
<1>1. PICK M : M = NamePieces
  OBVIOUS
<1>2. \A p \in {"security", "reality", "tls", "xtls", "sni", "fp", "flow", "pbk", "x", "&", "=", "y"} :
         p \in M
  BY <1>1 DEF NamePieces
<1>3. \A p \in M : <<p>> \in Seq(M)
  OBVIOUS
<1>4. <<"security">> \in Seq(M) /\ <<"reality">> \in Seq(M) /\ <<"tls">> \in Seq(M) /\ <<"xtls">> \in Seq(M)
  BY <1>2, <1>3
<1>5. <<"sni">> \in Seq(M) /\ <<"fp">> \in Seq(M) /\ <<"flow">> \in Seq(M) /\ <<"pbk">> \in Seq(M)
  BY <1>2, <1>3
<1>6. <<"x">> \in Seq(M) /\ <<"x", "&", "=", "y">> \in Seq(M) /\ <<>> \in Seq(M)
  <2>1. PICK x, y, z, w : x = "x" /\ y = "&" /\ z = "=" /\ w = "y"
    OBVIOUS
  <2>2. x \in M /\ y \in M /\ z \in M /\ w \in M
    BY <1>2, <2>1
  <2>3. <<x>> \in Seq(M) /\ <<x, y, z, w>> \in Seq(M) /\ <<>> \in Seq(M)
    BY <2>2
  <2> QED BY <2>1, <2>3
<1>7. PICK Q : Q = Seq(M)
  OBVIOUS
<1>8. {<<"security">>, <<"sni">>, <<"fp">>, <<"flow">>, <<"pbk">>, <<"reality">>, <<"tls">>, <<"xtls">>,
       <<"x">>, <<"x", "&", "=", "y">>, <<>>} \subseteq Q
  BY <1>4, <1>5, <1>6, <1>7
<1>9. Params \subseteq Q \X Q
  BY <1>8 DEF Params
<1> QED BY <1>1, <1>7, <1>9 DEF Named

\* None of these is a mark of an address, or a code.
LEMMA PiecesApart == HostPieces \cap Marks = {} /\ NamePieces \cap DOMAIN Plain = {}
BY DEF HostPieces, Marks, NamePieces, Plain, Blank

\* The text of a link's state is an address and parameters.
LinkInv == format = "link" =>
    text = <<>> \/ \E a \in Addresses, made \in Seq(Params) : text = <<a>> \o made

\* An address and one parameter more.
LEMMA LinkGrows ==
    ASSUME NEW A, NEW P, NEW a \in A, NEW made \in Seq(P), NEW x \in P
    PROVE  Append(<<a>> \o made, x) = <<a>> \o Append(made, x) /\ Append(made, x) \in Seq(P)
<1>1. PICK D, one : D = A \cup P /\ one = <<a>>
  OBVIOUS
<1>2. a \in D /\ x \in D
  BY <1>1
<1>3. one \in Seq(D) /\ made \in Seq(D)
  BY <1>1, <1>2
<1>4. Append(one \o made, x) = one \o Append(made, x)
  BY <1>2, <1>3
<1>5. Append(made, x) \in Seq(P)
  OBVIOUS
<1> QED BY <1>1, <1>4, <1>5

\* The address is the first, the parameters are the rest.
LEMMA LinkParts ==
    ASSUME NEW a, NEW P, NEW made \in Seq(P)
    PROVE  (<<a>> \o made)[1] = a /\ Tail(<<a>> \o made) = made /\ <<a>> \o made # <<>>
<1>1. PICK D, one : D = P \cup {a} /\ one = <<a>>
  OBVIOUS
<1>2. a \in D
  BY <1>1
<1>3. one \in Seq(D) /\ made \in Seq(D) /\ Len(one) = 1 /\ one[1] = a
  BY <1>1, <1>2
<1>4. PICK s : s = one \o made
  OBVIOUS
<1>5. s \in Seq(D) /\ Len(s) = 1 + Len(made) /\ s[1] = a /\ Len(made) \in Nat
  <2>1. one \in Seq(D) /\ made \in Seq(D)
    BY <1>3
  <2>2. s \in Seq(D) /\ Len(s) = Len(one) + Len(made) /\ Len(made) \in Nat
    BY <1>4, <2>1
  <2>3. \A i \in 1 .. Len(one) : s[i] = one[i]
    BY <1>4, <2>1
  <2> QED BY <1>3, <2>2, <2>3
<1>6. s # <<>>
  BY <1>5
<1>7. \A i \in 1 .. Len(made) : s[1 + i] = made[i]
  <2>1. one \in Seq(D) /\ made \in Seq(D)
    BY <1>3
  <2>2. \A i \in 1 .. Len(made) : s[Len(one) + i] = made[i]
    BY <1>4, <2>1
  <2> QED BY <1>3, <2>2
<1>8. PICK t : t = Tail(s)
  OBVIOUS
<1>9. t \in Seq(D) /\ Len(t) = Len(made)
  BY <1>5, <1>6, <1>8
<1>10. \A i \in 1 .. Len(made) : t[i] = made[i]
  <2> SUFFICES ASSUME NEW i \in 1 .. Len(made) PROVE t[i] = made[i]
    OBVIOUS
  <2>1. t[i] = s[i + 1]
    BY <1>5, <1>6, <1>8
  <2>2. i + 1 = 1 + i
    OBVIOUS
  <2> QED BY <1>7, <2>1, <2>2
<1>11. t = made
  BY <1>3, <1>9, <1>10
<1> QED BY <1>1, <1>4, <1>5, <1>6, <1>8, <1>11

\* The states of the links are such.
LEMMA LinkInvKept == Spec => []LinkInv
<1>1. Init => LinkInv
  BY DEF Init, LinkInv
<1>2. LinkInv /\ [Next]_vars => LinkInv'
  <2> SUFFICES ASSUME LinkInv, [Next]_vars, format' = "link"
               PROVE  text' = <<>> \/ \E a \in Addresses, made \in Seq(Params) : text' = <<a>> \o made
    BY DEF LinkInv
  <2>1. CASE UNCHANGED vars
    BY <2>1 DEF vars, LinkInv
  <2>2. CASE Next
    <3>1. format = "link"
      BY <2>2 DEF Next, Grow
    <3>2. Parts = IF text = <<>> THEN Addresses ELSE Params
      BY <3>1, Zenon DEF Parts
    <3>3. PICK part \in Parts : text' = Append(text, part)
      BY <2>2 DEF Next, Grow
    <3>4. CASE text = <<>>
      <4>1. PICK none : none = <<>>
        OBVIOUS
      <4>2. part \in Addresses /\ none \in Seq(Params)
        BY <3>2, <3>3, <3>4, <4>1
      <4>3. text' = <<part>> \o none
        <5>1. <<part>> \in Seq({part}) /\ none \in Seq({part})
          BY <4>1
        <5>2. <<part>> \o none = <<part>> /\ Append(none, part) = <<part>>
          BY <4>1, <5>1
        <5> QED BY <3>3, <3>4, <4>1, <5>2
      <4> QED BY <4>2, <4>3
    <3>5. CASE text # <<>>
      <4>1. PICK a \in Addresses, made \in Seq(Params) : text = <<a>> \o made
        BY <3>1, <3>5 DEF LinkInv
      <4>2. part \in Params
        BY <3>2, <3>3, <3>5
      <4>3. Append(text, part) = <<a>> \o Append(made, part) /\ Append(made, part) \in Seq(Params)
        BY <4>1, <4>2, LinkGrows
      <4> QED BY <3>3, <4>3
    <3> QED BY <3>4, <3>5
  <2> QED BY <2>1, <2>2
<1> QED BY <1>1, <1>2, PTL DEF Spec

\* The checked property (parse and build_from_uri), for links of any number of parameters.
THEOREM ServerReached == Spec => []LinkReachesServer
<1>1. LinkInv => LinkReachesServer
  <2> SUFFICES ASSUME LinkInv, format = "link", text # <<>>
               PROVE  ReachesServer(text[1], Tail(text))
    BY Zenon DEF LinkReachesServer, ReachesServer, ModeOf
  <2>1. PICK a \in Addresses, made \in Seq(Params) : text = <<a>> \o made
    BY DEF LinkInv
  <2>2. text[1] = a /\ Tail(text) = made
    BY <2>1, LinkParts
  <2>3. PICK host \in Seq(HostPieces), port \in {<<>>} \cup Ports, name \in Seq(NamePieces) :
               host # <<>> /\ a = Address(host, port, name)
    BY AddressesAre
  <2>4. made \in Seq(Named(NamePieces))
    BY ParamsAre
  <2>5. ReachesServer(Address(host, port, name), made)
    BY <2>3, <2>4, PiecesApart, LinkReaches
  <2> QED BY <2>2, <2>3, <2>5
<1> QED BY <1>1, LinkInvKept, PTL

=============================================================================
