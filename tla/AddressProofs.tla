---------------------------- MODULE AddressProofs ----------------------------
(***************************************************************************)
(* Theorems about Address::From for every text: what it accepts a          *)
(* connection can use, and an address that was written from its parts is   *)
(* read back as these.                                                     *)
(***************************************************************************)
EXTENDS Address, WellFoundedInduction, SequenceTheorems, TLAPS

-----------------------------------------------------------------------------
(* Runs of tokens                                                          *)

(* The least number of a set: the one induction that is needed.            *)
LEMMA LeastNatural ==
  ASSUME NEW T, T \subseteq Nat, T # {}
  PROVE  \E x \in T : \A y \in T : x <= y
<1> DEFINE less == {p \in Nat \X Nat : p[1] < p[2]}
<1>1. IsWellFoundedOn(less, Nat)
  BY NatLessThanWellFounded DEF OpToRel
<1>2. \A x, y \in Nat : <<y, x>> \in less <=> y < x
  OBVIOUS
<1> HIDE DEF less
<1>3. PICK x \in T : \A y \in T : ~(<<y, x>> \in less)
  BY <1>1, WFMin
<1>4. ASSUME NEW y \in T PROVE x <= y
  <2>1. x \in Nat /\ y \in Nat
    OBVIOUS
  <2>2. ~(y < x)
    BY <1>2, <1>3, <2>1
  <2> QED
    BY <2>1, <2>2
<1> QED
  BY <1>4

(* A run ends at the first position that does not belong to it.            *)
LEMMA EndFacts ==
  ASSUME NEW s \in Seq(Token), NEW i \in 1..(Len(s) + 1), NEW class
  PROVE  /\ EndOfRun(s, i, class) \in i..(Len(s) + 1)
         /\ \A x \in i..(EndOfRun(s, i, class) - 1) : s[x] \in class
         /\ EndOfRun(s, i, class) <= Len(s) => s[EndOfRun(s, i, class)] \notin class
<1> DEFINE ends == {Len(s) + 1} \cup {j \in i..Len(s) : s[j] \notin class}
           e == EndOfRun(s, i, class)
<1>1. Len(s) \in Nat
  BY LenProperties
<1>2. ends \subseteq i..(Len(s) + 1) /\ ends \subseteq Nat /\ ends # {}
  BY <1>1
<1>3. \E x \in ends : \A y \in ends : x <= y
  BY <1>2, LeastNatural
<1>4. e \in ends /\ \A y \in ends : e <= y
  BY <1>3 DEF EndOfRun, Min
<1> HIDE DEF e
<1>5. e \in i..(Len(s) + 1) /\ (e <= Len(s) => s[e] \notin class)
  BY <1>1, <1>2, <1>4
<1>6. ASSUME NEW x \in i..(e - 1) PROVE s[x] \in class
  <2>1. x \in i..Len(s) /\ ~(e <= x)
    BY <1>1, <1>5
  <2> QED
    BY <1>4, <2>1
<1> QED
  BY <1>5, <1>6 DEF e

(* There is only one such position.                                        *)
LEMMA EndUnique ==
  ASSUME NEW s \in Seq(Token), NEW i \in 1..(Len(s) + 1), NEW class,
         NEW e \in i..(Len(s) + 1),
         \A x \in i..(e - 1) : s[x] \in class,
         e <= Len(s) => s[e] \notin class
  PROVE  EndOfRun(s, i, class) = e
<1> DEFINE f == EndOfRun(s, i, class)
<1>1. Len(s) \in Nat
  BY LenProperties
<1>2. /\ f \in i..(Len(s) + 1)
      /\ \A x \in i..(f - 1) : s[x] \in class
      /\ f <= Len(s) => s[f] \notin class
  BY EndFacts
<1> HIDE DEF f
<1>3. ~(e < f)
  <2> SUFFICES ASSUME e < f PROVE FALSE
    OBVIOUS
  <2>1. e \in i..(f - 1) /\ e <= Len(s)
    BY <1>1, <1>2
  <2> QED
    BY <1>2, <2>1
<1>4. ~(f < e)
  <2> SUFFICES ASSUME f < e PROVE FALSE
    OBVIOUS
  <2>1. f \in i..(e - 1) /\ f <= Len(s)
    BY <1>1, <1>2
  <2> QED
    BY <1>2, <2>1
<1>5. f = e
  BY <1>1, <1>2, <1>3, <1>4
<1> QED
  BY <1>5 DEF f

-----------------------------------------------------------------------------
(* The parts of a match                                                    *)

HostClass == Token \ {"/", "blank", ":"}
PortClass == Token \ {"/", "blank"}
PathClass == Token \ {"blank", "#", "?"}

(* Where the host, the port and the path behind a login of k tokens begin  *)
(* and end.                                                                *)
HostEnd(s, k)  == EndOfRun(s, k + 1, HostClass)
PortFrom(s, k) == IF At(s, HostEnd(s, k), ":") THEN HostEnd(s, k) + 1 ELSE HostEnd(s, k)
PortEnd(s, k)  == EndOfRun(s, PortFrom(s, k), PortClass)
PathFrom(s, k) == IF At(s, PortEnd(s, k), "/") THEN PortEnd(s, k) + 1 ELSE PortEnd(s, k)
PathEnd(s, k)  == EndOfRun(s, PathFrom(s, k), PathClass)

LEMMA MatchParts ==
  ASSUME NEW s, NEW k
  PROVE  MatchAfter(s, k) =
           IF HostEnd(s, k) = k + 1 \/ "blank" \in Range(s) THEN NoMatch
           ELSE [state |-> "match", login |-> SubSeq(s, 1, k),
                 host |-> SubSeq(s, k + 1, HostEnd(s, k) - 1),
                 port |-> SubSeq(s, PortFrom(s, k), PortEnd(s, k) - 1),
                 path |-> SubSeq(s, PortEnd(s, k), PathEnd(s, k) - 1)]
BY DEF MatchAfter, HostEnd, PortFrom, PortEnd, PathFrom, PathEnd,
       HostClass, PortClass, PathClass

(* Every token of a text without a space is a token other than a space.    *)
LEMMA NoSpace ==
  ASSUME NEW s \in Seq(Token), "blank" \notin Range(s)
  PROVE  \A x \in 1..Len(s) : s[x] \in Token \ {"blank"}
<1>1. \A x \in 1..Len(s) : s[x] \in Token /\ x \in DOMAIN s
  BY ElementOfSeq, LenProperties
<1> QED
  BY <1>1 DEF Range

LEMMA HostFacts ==
  ASSUME NEW s \in Seq(Token), "blank" \notin Range(s), NEW k \in 0..Len(s)
  PROVE  /\ HostEnd(s, k) \in (k + 1)..(Len(s) + 1)
         /\ \A x \in (k + 1)..(HostEnd(s, k) - 1) : s[x] \in HostClass
         /\ HostEnd(s, k) <= Len(s) => s[HostEnd(s, k)] \in {"/", ":"}
<1>1. Len(s) \in Nat
  BY LenProperties
<1>2. k + 1 \in 1..(Len(s) + 1)
  BY <1>1
<1>3. /\ HostEnd(s, k) \in (k + 1)..(Len(s) + 1)
      /\ \A x \in (k + 1)..(HostEnd(s, k) - 1) : s[x] \in HostClass
      /\ HostEnd(s, k) <= Len(s) => s[HostEnd(s, k)] \notin HostClass
  BY <1>2, EndFacts DEF HostEnd
<1>4. HostEnd(s, k) <= Len(s) => HostEnd(s, k) \in 1..Len(s)
  BY <1>1, <1>3
<1> QED
  BY <1>3, <1>4, NoSpace DEF HostClass

LEMMA PortFacts ==
  ASSUME NEW s \in Seq(Token), "blank" \notin Range(s), NEW k \in 0..Len(s)
  PROVE  /\ PortFrom(s, k) \in HostEnd(s, k)..(Len(s) + 1)
         /\ \/ HostEnd(s, k) <= Len(s) /\ s[HostEnd(s, k)] = ":" /\ PortFrom(s, k) = HostEnd(s, k) + 1
            \/ ~At(s, HostEnd(s, k), ":") /\ PortFrom(s, k) = HostEnd(s, k)
         /\ PortEnd(s, k) \in PortFrom(s, k)..(Len(s) + 1)
         /\ \A x \in PortFrom(s, k)..(PortEnd(s, k) - 1) : s[x] \in PortClass
         /\ PortEnd(s, k) <= Len(s) => s[PortEnd(s, k)] = "/"
<1>1. Len(s) \in Nat
  BY LenProperties
<1>2. HostEnd(s, k) \in (k + 1)..(Len(s) + 1) /\ HostEnd(s, k) \in 1..(Len(s) + 1)
  BY <1>1, HostFacts
<1>3. /\ PortFrom(s, k) \in HostEnd(s, k)..(Len(s) + 1)
      /\ \/ HostEnd(s, k) <= Len(s) /\ s[HostEnd(s, k)] = ":" /\ PortFrom(s, k) = HostEnd(s, k) + 1
         \/ ~At(s, HostEnd(s, k), ":") /\ PortFrom(s, k) = HostEnd(s, k)
  BY <1>1, <1>2 DEF PortFrom, At
<1>4. PortFrom(s, k) \in 1..(Len(s) + 1)
  BY <1>1, <1>2, <1>3
<1>5. /\ PortEnd(s, k) \in PortFrom(s, k)..(Len(s) + 1)
      /\ \A x \in PortFrom(s, k)..(PortEnd(s, k) - 1) : s[x] \in PortClass
      /\ PortEnd(s, k) <= Len(s) => s[PortEnd(s, k)] \notin PortClass
  BY <1>4, EndFacts DEF PortEnd
<1>6. PortEnd(s, k) <= Len(s) => PortEnd(s, k) \in 1..Len(s)
  BY <1>1, <1>4, <1>5
<1>7. PortEnd(s, k) <= Len(s) => s[PortEnd(s, k)] = "/"
  BY <1>5, <1>6, NoSpace DEF PortClass
<1> QED
  BY <1>3, <1>5, <1>7

LEMMA PathFacts ==
  ASSUME NEW s \in Seq(Token), "blank" \notin Range(s), NEW k \in 0..Len(s)
  PROVE  /\ PathEnd(s, k) \in PortEnd(s, k)..(Len(s) + 1)
         /\ \A x \in PortEnd(s, k)..(PathEnd(s, k) - 1) : s[x] \in PathClass
         /\ PathEnd(s, k) <= Len(s) => s[PathEnd(s, k)] \in {"#", "?"}
         /\ PortEnd(s, k) <= Len(s) => PathEnd(s, k) > PortEnd(s, k)
<1>1. Len(s) \in Nat
  BY LenProperties
<1>2. PortEnd(s, k) \in 1..(Len(s) + 1) /\ (PortEnd(s, k) <= Len(s) => s[PortEnd(s, k)] = "/")
  BY <1>1, HostFacts, PortFacts
<1>3. \/ PortEnd(s, k) <= Len(s) /\ PathFrom(s, k) = PortEnd(s, k) + 1
      \/ PortEnd(s, k) = Len(s) + 1 /\ PathFrom(s, k) = PortEnd(s, k)
  BY <1>1, <1>2 DEF PathFrom, At
<1>4. PathFrom(s, k) \in 1..(Len(s) + 1)
  BY <1>1, <1>2, <1>3
<1>5. /\ PathEnd(s, k) \in PathFrom(s, k)..(Len(s) + 1)
      /\ \A x \in PathFrom(s, k)..(PathEnd(s, k) - 1) : s[x] \in PathClass
      /\ PathEnd(s, k) <= Len(s) => s[PathEnd(s, k)] \notin PathClass
  BY <1>4, EndFacts DEF PathEnd
<1>6. ASSUME PathEnd(s, k) <= Len(s) PROVE s[PathEnd(s, k)] \in {"#", "?"}
  <2>1. PathEnd(s, k) \in 1..Len(s)
    BY <1>1, <1>4, <1>5, <1>6
  <2> QED
    BY <1>5, <1>6, <2>1, NoSpace DEF PathClass
<1>7. ASSUME NEW x \in PortEnd(s, k)..(PathEnd(s, k) - 1) PROVE s[x] \in PathClass
  <2>1. CASE x \in PathFrom(s, k)..(PathEnd(s, k) - 1)
    BY <1>5, <2>1
  <2>2. CASE x \notin PathFrom(s, k)..(PathEnd(s, k) - 1)
    <3>1. x = PortEnd(s, k) /\ PortEnd(s, k) <= Len(s)
      BY <1>1, <1>2, <1>3, <1>5, <2>2
    <3>2. "/" \in PathClass
      BY DEF PathClass, Token
    <3> QED
      BY <1>2, <3>1, <3>2
  <2> QED
    BY <2>1, <2>2
<1> QED
  BY <1>1, <1>2, <1>3, <1>5, <1>6, <1>7

(* What the login group matches.                                           *)
LEMMA LoginFacts ==
  ASSUME NEW s \in Seq(Token)
  PROVE  LET n == LoginLength(s)
             user == EndOfRun(s, 1, Word)
         IN  /\ n \in 0..Len(s)
             /\ n # 0 =>
                  /\ n >= 2 /\ s[n] = "@" /\ s[1] \in Word
                  /\ user \in 2..n
                  /\ \A x \in 1..(user - 1) : s[x] \in Word
                  /\ \/ user = n
                     \/ /\ user < n /\ s[user] = ":"
                        /\ \A x \in (user + 1)..(n - 1) : s[x] \in Word
<1> DEFINE n == LoginLength(s)
           user == EndOfRun(s, 1, Word)
           pass == IF At(s, user, ":") THEN EndOfRun(s, user + 1, Word) ELSE user
<1>1. Len(s) \in Nat /\ 1 \in 1..(Len(s) + 1)
  BY LenProperties
<1>2. /\ user \in 1..(Len(s) + 1)
      /\ \A x \in 1..(user - 1) : s[x] \in Word
  BY <1>1, EndFacts
<1>3. n = IF user > 1 /\ At(s, pass, "@") THEN pass ELSE 0
  BY DEF LoginLength
<1> HIDE DEF n, user
<1>4. ASSUME At(s, user, ":")
      PROVE  /\ pass \in (user + 1)..(Len(s) + 1)
             /\ \A x \in (user + 1)..(pass - 1) : s[x] \in Word
             /\ user <= Len(s) /\ s[user] = ":"
  <2>1. user <= Len(s) /\ s[user] = ":" /\ user + 1 \in 1..(Len(s) + 1)
    BY <1>1, <1>2, <1>4 DEF At
  <2>2. pass = EndOfRun(s, user + 1, Word)
    BY <1>4
  <2> HIDE DEF pass
  <2> QED
    BY <2>1, <2>2, EndFacts
<1>5. ASSUME ~At(s, user, ":") PROVE pass = user
  BY <1>5
<1> HIDE DEF pass
<1>6. n \in 0..Len(s)
  BY <1>1, <1>2, <1>3, <1>4, <1>5 DEF At
<1>7. ASSUME n # 0
      PROVE  /\ n >= 2 /\ s[n] = "@" /\ s[1] \in Word
             /\ user \in 2..n
             /\ \A x \in 1..(user - 1) : s[x] \in Word
             /\ \/ user = n
                \/ /\ user < n /\ s[user] = ":"
                   /\ \A x \in (user + 1)..(n - 1) : s[x] \in Word
  <2>1. n = pass /\ user > 1 /\ pass <= Len(s) /\ s[pass] = "@"
    BY <1>3, <1>7 DEF At
  <2>2. 1 \in 1..(user - 1)
    BY <1>1, <1>2, <2>1
  <2>3. s[1] \in Word
    BY <1>2, <2>2
  <2>4. CASE At(s, user, ":")
    BY <1>1, <1>2, <1>4, <2>1, <2>3, <2>4
  <2>5. CASE ~At(s, user, ":")
    BY <1>1, <1>2, <1>5, <2>1, <2>3, <2>5
  <2> QED
    BY <2>4, <2>5
<1> QED
  BY <1>6, <1>7 DEF n, user

LEMMA PartOfText ==
  ASSUME NEW s \in Seq(Token), NEW a \in 1..(Len(s) + 1), NEW b \in (a - 1)..Len(s)
  PROVE  /\ SubSeq(s, a, b) \in Seq(Token)
         /\ Len(SubSeq(s, a, b)) = b - a + 1
         /\ \A i \in 1..(b - a + 1) : SubSeq(s, a, b)[i] = s[a + i - 1]
<1>1. Len(s) \in Nat
  BY LenProperties
<1>2. a \in Int /\ b \in Int /\ \A i \in a..b : i \in 1..Len(s)
  BY <1>1
<1>3. \A i \in a..b : s[i] \in Token
  BY <1>2, ElementOfSeq
<1>4. /\ SubSeq(s, a, b) \in Seq(Token)
      /\ Len(SubSeq(s, a, b)) = IF a <= b THEN b - a + 1 ELSE 0
      /\ \A i \in 1..(b - a + 1) : SubSeq(s, a, b)[i] = s[a + i - 1]
  BY <1>2, <1>3, SubSeqProperties
<1>5. (IF a <= b THEN b - a + 1 ELSE 0) = b - a + 1
  BY <1>1
<1> QED
  BY <1>4, <1>5

(* The tokens of a part are of the class its positions are of.             *)
LEMMA PartClass ==
  ASSUME NEW s \in Seq(Token), NEW a \in 1..(Len(s) + 1), NEW b \in (a - 1)..Len(s), NEW class,
         \A x \in a..b : s[x] \in class
  PROVE  Range(SubSeq(s, a, b)) \subseteq class
<1> DEFINE q == SubSeq(s, a, b)
<1>1. /\ q \in Seq(Token) /\ Len(q) = b - a + 1
      /\ \A i \in 1..(b - a + 1) : q[i] = s[a + i - 1]
  BY PartOfText
<1>2. Len(s) \in Nat
  BY LenProperties
<1> HIDE DEF q
<1>3. DOMAIN q = 1..(b - a + 1)
  BY <1>1, LenProperties
<1>4. \A i \in 1..(b - a + 1) : a + i - 1 \in a..b
  BY <1>2
<1>5. \A i \in DOMAIN q : q[i] \in class
  BY <1>1, <1>3, <1>4
<1>6. Range(q) \subseteq class
  BY <1>5 DEF Range
<1> QED
  BY <1>6 DEF q

(* A match is taken with the login the group matches, or with none.        *)
LEMMA RegexFacts ==
  ASSUME NEW s \in Seq(Token), RegexMatch(s) # NoMatch
  PROVE  \E k \in {0, LoginLength(s)} :
           /\ k \in 0..Len(s) /\ "blank" \notin Range(s)
           /\ HostEnd(s, k) # k + 1
           /\ RegexMatch(s) =
                [state |-> "match", login |-> SubSeq(s, 1, k),
                 host |-> SubSeq(s, k + 1, HostEnd(s, k) - 1),
                 port |-> SubSeq(s, PortFrom(s, k), PortEnd(s, k) - 1),
                 path |-> SubSeq(s, PortEnd(s, k), PathEnd(s, k) - 1)]
<1>1. PICK k \in {0, LoginLength(s)} : RegexMatch(s) = MatchAfter(s, k)
  BY DEF RegexMatch
<1>2. k \in 0..Len(s)
  BY <1>1, LoginFacts, LenProperties
<1> QED
  BY <1>1, <1>2, MatchParts

LEMMA HostUsable ==
  ASSUME NEW s \in Seq(Token), RegexMatch(s) # NoMatch
  PROVE  LET m == RegexMatch(s)
         IN  /\ m.host # <<>> /\ Range(m.host) \cap {"/", ":", "blank"} = {}
             /\ \/ m.path = <<>>
                \/ m.path[1] = "/" /\ Range(m.path) \cap {"?", "#", "blank"} = {}
<1>1. PICK k \in {0, LoginLength(s)} :
        /\ k \in 0..Len(s) /\ "blank" \notin Range(s)
        /\ HostEnd(s, k) # k + 1
        /\ RegexMatch(s).host = SubSeq(s, k + 1, HostEnd(s, k) - 1)
        /\ RegexMatch(s).path = SubSeq(s, PortEnd(s, k), PathEnd(s, k) - 1)
  BY RegexFacts
<1>2. Len(s) \in Nat
  BY LenProperties
<1> DEFINE h == HostEnd(s, k)
           p == PortEnd(s, k)
           e == PathEnd(s, k)
<1>3. h \in (k + 1)..(Len(s) + 1) /\ \A x \in (k + 1)..(h - 1) : s[x] \in HostClass
  BY <1>1, HostFacts
<1>4. /\ p \in PortFrom(s, k)..(Len(s) + 1) /\ PortFrom(s, k) \in h..(Len(s) + 1)
      /\ p <= Len(s) => s[p] = "/"
  BY <1>1, PortFacts
<1>5. /\ e \in p..(Len(s) + 1) /\ \A x \in p..(e - 1) : s[x] \in PathClass
      /\ p <= Len(s) => e > p
  BY <1>1, PathFacts
<1> HIDE DEF h, p, e
<1>6. k + 1 \in 1..(Len(s) + 1) /\ h - 1 \in ((k + 1) - 1)..Len(s)
  BY <1>1, <1>2, <1>3
<1>7. /\ RegexMatch(s).host # <<>> /\ Range(RegexMatch(s).host) \cap {"/", ":", "blank"} = {}
  <2>1. RegexMatch(s).host = SubSeq(s, k + 1, h - 1)
    BY <1>1 DEF h
  <2>2. Len(SubSeq(s, k + 1, h - 1)) = (h - 1) - (k + 1) + 1
    BY <1>6, PartOfText
  <2>3. Range(SubSeq(s, k + 1, h - 1)) \subseteq HostClass
    BY <1>3, <1>6, PartClass
  <2>4. Len(SubSeq(s, k + 1, h - 1)) # 0
    BY <1>1, <1>2, <1>3, <2>2 DEF h
  <2>5. SubSeq(s, k + 1, h - 1) # <<>>
    BY <2>4, EmptySeq
  <2> QED
    BY <2>1, <2>3, <2>5 DEF HostClass
<1>8. p \in 1..(Len(s) + 1) /\ e - 1 \in (p - 1)..Len(s)
  BY <1>1, <1>2, <1>3, <1>4, <1>5
<1>9. \/ RegexMatch(s).path = <<>>
      \/ RegexMatch(s).path[1] = "/" /\ Range(RegexMatch(s).path) \cap {"?", "#", "blank"} = {}
  <2> DEFINE q == SubSeq(s, p, e - 1)
  <2>1. RegexMatch(s).path = q
    BY <1>1 DEF p, e
  <2>2. /\ q \in Seq(Token) /\ Len(q) = (e - 1) - p + 1
        /\ \A i \in 1..((e - 1) - p + 1) : q[i] = s[p + i - 1]
    BY <1>8, PartOfText
  <2>3. Range(q) \subseteq PathClass
    BY <1>5, <1>8, PartClass
  <2> HIDE DEF q
  <2>4. CASE p <= Len(s)
    <3>1. 1 \in 1..((e - 1) - p + 1) /\ p + 1 - 1 = p
      BY <1>2, <1>5, <1>8, <2>4
    <3>2. q[1] = "/"
      BY <1>4, <2>2, <2>4, <3>1
    <3> QED
      BY <2>1, <2>3, <3>2 DEF PathClass
  <2>5. CASE ~(p <= Len(s))
    <3>1. Len(q) = 0
      BY <1>2, <1>5, <1>8, <2>2, <2>5
    <3> QED
      BY <2>1, <2>2, <3>1, EmptySeq
  <2> QED
    BY <2>4, <2>5
<1> QED
  BY <1>7, <1>9

(* A login that splits in two has a user and a password.                   *)
LEMMA LoginUsable ==
  ASSUME NEW s \in Seq(Token), RegexMatch(s) # NoMatch,
         ~(Len(LoginOf(RegexMatch(s))) < 2)
  PROVE  LoginOf(RegexMatch(s))[1] # <<>> /\ LoginOf(RegexMatch(s))[2] # <<>>
<1> DEFINE m == RegexMatch(s)
<1>1. PICK k \in {0, LoginLength(s)} : k \in 0..Len(s) /\ m.login = SubSeq(s, 1, k)
  BY RegexFacts
<1>2. Len(s) \in Nat /\ k \in (1 - 1)..Len(s) /\ 1 \in 1..(Len(s) + 1)
  BY <1>1, LenProperties
<1>3. /\ m.login \in Seq(Token) /\ Len(m.login) = k - 1 + 1
      /\ \A i \in 1..(k - 1 + 1) : m.login[i] = s[1 + i - 1]
  BY <1>1, <1>2, PartOfText
<1>4. ~(Len(LoginOf(m)) < 2)
  OBVIOUS
<1> HIDE DEF m
<1>5. CASE k = 0
  <2>1. m.login = <<>>
    <3>1. Len(m.login) = 0
      BY <1>3, <1>5
    <3> QED
      BY <1>3, <3>1, EmptySeq
  <2> QED
    BY <2>1 DEF LoginOf, Guest, m
<1>6. CASE k # 0
  <2> DEFINE q == SubSeq(m.login, 1, Len(m.login) - 1)
             colon == EndOfRun(q, 1, Word)
  <2>1. k >= 2 /\ s[1] \in Word
    BY <1>1, <1>6, LoginFacts
  <2>2. Len(m.login) = k /\ m.login[1] = s[1]
    <3>1. k - 1 + 1 = k /\ 1 \in 1..(k - 1 + 1) /\ 1 + 1 - 1 = 1
      BY <1>2, <2>1
    <3> QED
      BY <1>3, <3>1
  <2>3. 1 \in 1..(Len(m.login) + 1) /\ Len(m.login) - 1 \in (1 - 1)..Len(m.login)
    BY <1>2, <2>1, <2>2
  <2>4. /\ q \in Seq(Token) /\ Len(q) = (Len(m.login) - 1) - 1 + 1
        /\ \A i \in 1..((Len(m.login) - 1) - 1 + 1) : q[i] = m.login[1 + i - 1]
    BY <1>3, <2>3, PartOfText
  <2>5. m.login # <<>>
    BY <2>1, <2>2, EmptySeq
  <2>6. LoginOf(m) = Split(q)
    BY <2>5 DEF LoginOf
  <2> HIDE DEF q
  <2>7. Len(q) = k - 1 /\ q[1] \in Word /\ 1 \in 1..(Len(q) + 1)
    <3>1. (Len(m.login) - 1) - 1 + 1 = k - 1 /\ 1 \in 1..(k - 1) /\ 1 + 1 - 1 = 1
      BY <1>2, <2>1, <2>2
    <3>2. Len(q) = k - 1 /\ q[1] = m.login[1]
      BY <2>4, <3>1
    <3> QED
      BY <1>2, <2>1, <2>2, <3>2
  <2>8. colon \in 1..(Len(q) + 1) /\ (colon <= Len(q) => q[colon] \notin Word)
    BY <2>4, <2>7, EndFacts
  <2>9. Split(q) = IF colon >= Len(q) THEN <<SubSeq(q, 1, colon - 1)>>
                   ELSE <<SubSeq(q, 1, colon - 1), SubSeq(q, colon + 1, Len(q))>>
    BY DEF Split
  <2> HIDE DEF colon
  <2>10. colon >= 2
    <3> SUFFICES ASSUME colon = 1 PROVE FALSE
      BY <2>8, <2>7, <1>2
    <3> QED
      BY <1>2, <2>1, <2>7, <2>8
  <2>11. ~(colon >= Len(q))
    <3> SUFFICES ASSUME colon >= Len(q) PROVE FALSE
      OBVIOUS
    <3>1. LoginOf(m) = <<SubSeq(q, 1, colon - 1)>>
      BY <2>6, <2>9
    <3>2. Len(LoginOf(m)) = 1
      BY <3>1
    <3> QED
      BY <1>4, <3>2
  <2>12. LoginOf(m)[1] = SubSeq(q, 1, colon - 1) /\ LoginOf(m)[2] = SubSeq(q, colon + 1, Len(q))
    <3> DEFINE u == SubSeq(q, 1, colon - 1)
               w == SubSeq(q, colon + 1, Len(q))
    <3>1. LoginOf(m) = <<u, w>>
      BY <2>6, <2>9, <2>11
    <3> HIDE DEF u, w
    <3>2. LoginOf(m)[1] = u /\ LoginOf(m)[2] = w
      BY <3>1
    <3> QED
      BY <3>2 DEF u, w
  <2>13. Len(SubSeq(q, 1, colon - 1)) = (colon - 1) - 1 + 1
    <3>1. colon - 1 \in (1 - 1)..Len(q)
      BY <1>2, <2>7, <2>8
    <3> QED
      BY <2>4, <2>7, <3>1, PartOfText
  <2>14. Len(SubSeq(q, colon + 1, Len(q))) = Len(q) - (colon + 1) + 1
    <3>1. colon + 1 \in 1..(Len(q) + 1) /\ Len(q) \in ((colon + 1) - 1)..Len(q)
      BY <1>2, <2>7, <2>8, <2>11
    <3> QED
      BY <2>4, <3>1, PartOfText
  <2>15. (colon - 1) - 1 + 1 # 0 /\ Len(q) - (colon + 1) + 1 # 0
    BY <1>2, <2>7, <2>8, <2>10, <2>11
  <2>16. SubSeq(q, 1, colon - 1) # <<>> /\ SubSeq(q, colon + 1, Len(q)) # <<>>
    <3>1. Len(SubSeq(q, 1, colon - 1)) # 0 /\ Len(SubSeq(q, colon + 1, Len(q))) # 0
      BY <2>13, <2>14, <2>15
    <3>2. Len(<<>>) = 0
      BY EmptySeq
    <3> QED
      BY <3>1, <3>2
  <2> QED
    BY <2>12, <2>16 DEF m
<1> QED
  BY <1>5, <1>6

-----------------------------------------------------------------------------
(* The result of From and what it is opened with                           *)

AddressInv ==
  /\ text \in Texts
  /\ address = Unset \/ address = FromText(text)
  /\ wire # Unset => /\ address = FromText(text) /\ address.state = "value"
                     /\ wire = ToAddress(address)

LEMMA AddressInvariant == Spec => []AddressInv
<1>1. Init => AddressInv
  BY DEF Init, AddressInv
<1>2. AddressInv /\ [Next]_vars => AddressInv'
  BY DEF AddressInv, Next, From, Connect, vars
<1> QED
  BY <1>1, <1>2, PTL DEF Spec

(* An address is built only from a match with a port in range and a whole  *)
(* login.                                                                  *)
LEMMA FromFacts ==
  ASSUME NEW t \in Texts
  PROVE  LET m == RegexMatch(t.rest)
         IN  \/ FromText(t) = Failure("EMPTY")
             \/ FromText(t) = Failure("PARSE")
             \/ /\ m # NoMatch /\ PortInRange(PortOf(m)) /\ ~(Len(LoginOf(m)) < 2)
                /\ FromText(t) =
                     [state |-> "value", protocol |-> t.scheme, hostname |-> m.host,
                      port |-> PortOf(m), vhost |-> m.path,
                      user |-> LoginOf(m)[1], password |-> LoginOf(m)[2]]
BY DEF FromText

LEMMA PortType ==
  ASSUME NEW m, PortInRange(PortOf(m))
  PROVE  PortOf(m) \in 0..MaxPort
<1>1. Stoi(m.port) \in Int
  <2>1. \A n \in Numbers : ValueOf[n] \in Int /\ -ValueOf[n] \in Int
    BY AddressAssumption
  <2> QED
    BY <2>1 DEF Stoi
<1>2. PortOf(m) \in Int
  BY <1>1 DEF PortOf, DefaultPort
<1>3. PortOf(m) >= 0 /\ PortOf(m) <= MaxPort
  BY DEF PortInRange
<1>4. MaxPort \in Int
  BY DEF MaxPort
<1> QED
  BY <1>2, <1>3, <1>4

(* Whatever the text, From returns an error code or an address whose port  *)
(* fits in 16 bits, and so does the port a connection is opened with.      *)
THEOREM TypeCorrect == Spec => []TypeOK
<1>1. AddressInv => TypeOK
  <2> SUFFICES ASSUME AddressInv PROVE TypeOK
    OBVIOUS
  <2>1. text \in Texts
    BY DEF AddressInv
  <2>2. \/ FromText(text).state = "error" /\ FromText(text).code \in {"PARSE", "EMPTY"}
        \/ FromText(text).state = "value" /\ FromText(text).port \in 0..MaxPort
    BY <2>1, FromFacts, PortType DEF Failure
  <2>3. wire # Unset => wire.port \in 0..MaxPort
    BY <2>2 DEF AddressInv, ToAddress
  <2> QED
    BY <2>1, <2>2, <2>3 DEF AddressInv, TypeOK
<1> QED
  BY AddressInvariant, <1>1, PTL

(* Whatever text was accepted, of any length and over any words, the host  *)
(* has no delimiter in it, user and password are not empty, and the        *)
(* virtual host is empty or a path.                                        *)
THEOREM AcceptedUsable == Spec => []Usable
<1>1. AddressInv => Usable
  <2> SUFFICES ASSUME AddressInv, wire # Unset
               PROVE  /\ wire.hostname # <<>> /\ Range(wire.hostname) \cap {"/", ":", "blank"} = {}
                      /\ wire.user # <<>> /\ wire.password # <<>>
                      /\ \/ wire.vhost = <<>>
                         \/ /\ wire.vhost[1] = "/"
                            /\ Range(wire.vhost) \cap {"?", "#", "blank"} = {}
    BY DEF Usable
  <2> DEFINE m == RegexMatch(text.rest)
  <2>1. text \in Texts /\ text.rest \in Seq(Token)
    BY AddressAssumption DEF AddressInv
  <2>2. FromText(text).state = "value" /\ wire = ToAddress(FromText(text))
    BY DEF AddressInv
  <2>3. /\ m # NoMatch /\ ~(Len(LoginOf(m)) < 2)
        /\ FromText(text) =
             [state |-> "value", protocol |-> text.scheme, hostname |-> m.host,
              port |-> PortOf(m), vhost |-> m.path,
              user |-> LoginOf(m)[1], password |-> LoginOf(m)[2]]
    BY <2>1, <2>2, FromFacts DEF Failure
  <2>4. /\ m.host # <<>> /\ Range(m.host) \cap {"/", ":", "blank"} = {}
        /\ \/ m.path = <<>>
           \/ m.path[1] = "/" /\ Range(m.path) \cap {"?", "#", "blank"} = {}
    BY <2>1, <2>3, HostUsable
  <2>5. LoginOf(m)[1] # <<>> /\ LoginOf(m)[2] # <<>>
    BY <2>1, <2>3, LoginUsable
  <2> HIDE DEF m
  <2>6. /\ wire.hostname = m.host /\ wire.vhost = m.path
        /\ wire.user = LoginOf(m)[1] /\ wire.password = LoginOf(m)[2]
    BY <2>2, <2>3 DEF ToAddress
  <2> QED
    BY <2>4, <2>5, <2>6
<1> QED
  BY AddressInvariant, <1>1, PTL

-----------------------------------------------------------------------------
(* An address that was written from its components is read back            *)

LEMMA NotEmpty ==
  ASSUME NEW q \in Seq(Token), Len(q) # 0
  PROVE  q # <<>>
<1>1. Len(<<>>) = 0
  BY EmptySeq
<1> QED
  BY <1>1, Zenon

LEMMA TwoParts ==
  ASSUME NEW X \in Seq(Token), NEW Y \in Seq(Token)
  PROVE  /\ X \o Y \in Seq(Token)
         /\ Len(X \o Y) = Len(X) + Len(Y)
         /\ \A i \in 1..(Len(X) + Len(Y)) : (X \o Y)[i] = IF i <= Len(X) THEN X[i] ELSE Y[i - Len(X)]
BY ConcatProperties

(* s is made of A up to a, B up to b, C up to c and D.                     *)
Joined(s, A, B, C, D, a, b, c) ==
  /\ s \in Seq(Token) /\ Len(s) = c + Len(D)
  /\ \A i \in 1..a : s[i] = A[i]
  /\ \A i \in (a + 1)..b : s[i] = B[i - a]
  /\ \A i \in (b + 1)..c : s[i] = C[i - b]
  /\ \A i \in (c + 1)..(c + Len(D)) : s[i] = D[i - c]

(* Four texts one behind the other.                                        *)
LEMMA FourParts ==
  ASSUME NEW A \in Seq(Token), NEW B \in Seq(Token), NEW C \in Seq(Token), NEW D \in Seq(Token),
         NEW a, NEW b, NEW c, a = Len(A), b = a + Len(B), c = b + Len(C)
  PROVE  Joined(A \o B \o C \o D, A, B, C, D, a, b, c)
<1> DEFINE AB == A \o B
           ABC == AB \o C
           s == ABC \o D
<1>0. Len(A) \in Nat /\ Len(B) \in Nat /\ Len(C) \in Nat /\ Len(D) \in Nat
  BY LenProperties
<1>1. /\ AB \in Seq(Token) /\ Len(AB) = Len(A) + Len(B)
      /\ \A i \in 1..(Len(A) + Len(B)) : AB[i] = IF i <= Len(A) THEN A[i] ELSE B[i - Len(A)]
  BY ConcatProperties
<1> HIDE DEF AB
<1>2. /\ ABC \in Seq(Token) /\ Len(ABC) = Len(AB) + Len(C)
      /\ \A i \in 1..(Len(AB) + Len(C)) : ABC[i] = IF i <= Len(AB) THEN AB[i] ELSE C[i - Len(AB)]
  <2>1. AB \in Seq(Token)
    BY <1>1
  <2> QED
    BY <2>1, TwoParts
<1> HIDE DEF ABC
<1>3. /\ s \in Seq(Token) /\ Len(s) = Len(ABC) + Len(D)
      /\ \A i \in 1..(Len(ABC) + Len(D)) : s[i] = IF i <= Len(ABC) THEN ABC[i] ELSE D[i - Len(ABC)]
  <2>1. ABC \in Seq(Token)
    BY <1>2
  <2> QED
    BY <2>1, TwoParts
<1> HIDE DEF s
<1>4. Len(s) = c + Len(D) /\ Len(ABC) = c /\ Len(AB) = b
  BY <1>0, <1>1, <1>2, <1>3
<1>5. ASSUME NEW i \in 1..a PROVE s[i] = A[i]
  <2>1. i \in 1..(Len(A) + Len(B)) /\ i \in 1..(Len(AB) + Len(C)) /\ i \in 1..(Len(ABC) + Len(D))
    BY <1>0, <1>4
  <2>2. i <= Len(A) /\ i <= Len(AB) /\ i <= Len(ABC)
    BY <1>0, <1>4
  <2> QED
    BY <1>1, <1>2, <1>3, <2>1, <2>2
<1>6. ASSUME NEW i \in (a + 1)..b PROVE s[i] = B[i - a]
  <2>1. i \in 1..(Len(A) + Len(B)) /\ i \in 1..(Len(AB) + Len(C)) /\ i \in 1..(Len(ABC) + Len(D))
    BY <1>0, <1>4
  <2>2. ~(i <= Len(A)) /\ i <= Len(AB) /\ i <= Len(ABC)
    BY <1>0, <1>4
  <2> QED
    BY <1>1, <1>2, <1>3, <2>1, <2>2
<1>7. ASSUME NEW i \in (b + 1)..c PROVE s[i] = C[i - b]
  <2>1. i \in 1..(Len(AB) + Len(C)) /\ i \in 1..(Len(ABC) + Len(D))
    BY <1>0, <1>4
  <2>2. ~(i <= Len(AB)) /\ i <= Len(ABC)
    BY <1>0, <1>4
  <2> QED
    BY <1>2, <1>3, <1>4, <2>1, <2>2
<1>8. ASSUME NEW i \in (c + 1)..(c + Len(D)) PROVE s[i] = D[i - c]
  <2>1. i \in 1..(Len(ABC) + Len(D)) /\ ~(i <= Len(ABC))
    BY <1>0, <1>4
  <2> QED
    BY <1>3, <1>4, <2>1
<1> QED
  <2>1. Joined(s, A, B, C, D, a, b, c)
    BY <1>3, <1>4, <1>5, <1>6, <1>7, <1>8 DEF Joined
  <2> QED
    BY <2>1 DEF s, ABC, AB

(* What stands in a text from a to b is the part of it from a to b.        *)
LEMMA PartIs ==
  ASSUME NEW s \in Seq(Token), NEW q \in Seq(Token), NEW a \in 1..(Len(s) + 1),
         NEW b \in (a - 1)..Len(s), Len(q) = b - a + 1,
         \A x \in a..b : s[x] = q[x - a + 1]
  PROVE  SubSeq(s, a, b) = q
<1> DEFINE r == SubSeq(s, a, b)
<1>1. /\ r \in Seq(Token) /\ Len(r) = b - a + 1
      /\ \A i \in 1..(b - a + 1) : r[i] = s[a + i - 1]
  BY PartOfText
<1> HIDE DEF r
<1>2. Len(s) \in Nat
  BY LenProperties
<1>3. ASSUME NEW i \in 1..Len(r) PROVE r[i] = q[i]
  <2>1. i \in 1..(b - a + 1) /\ a + i - 1 \in a..b /\ (a + i - 1) - a + 1 = i
    BY <1>1, <1>2
  <2>2. s[a + i - 1] = q[(a + i - 1) - a + 1]
    BY <2>1
  <2> QED
    BY <1>1, <2>1, <2>2
<1>4. r = q
  BY <1>1, <1>3, SeqEqual
<1> QED
  BY <1>4 DEF r

(* s has a login of a tokens, a host up to b, a port from f to c, with the *)
(* colon before it if there is one, and a path to its end.                 *)
Parted(s, a, b, f, c) ==
  /\ a < b /\ c <= Len(s)
  /\ \/ f = b + 1 /\ c = b
     \/ f = b + 2 /\ b + 1 <= c /\ s[b + 1] = ":"
  /\ c + 1 <= Len(s) => s[c + 1] = "/"
  /\ \A x \in (a + 1)..b : s[x] \in HostClass
  /\ \A x \in f..c : s[x] \in PortClass
  /\ \A x \in (c + 1)..Len(s) : s[x] \in PathClass

PartsOf(s, a, b, f, c) ==
  [state |-> "match", login |-> SubSeq(s, 1, a), host |-> SubSeq(s, a + 1, b),
   port |-> SubSeq(s, f, c), path |-> SubSeq(s, c + 1, Len(s))]

(* Behind the login, the parts are matched as they stand there.            *)
LEMMA MatchPositions ==
  ASSUME NEW s \in Seq(Token), "blank" \notin Range(s),
         NEW a \in Nat, NEW b \in Nat, NEW f \in Nat, NEW c \in Nat, Parted(s, a, b, f, c)
  PROVE  MatchAfter(s, a) = PartsOf(s, a, b, f, c)
<1> DEFINE d == Len(s)
<1> USE DEF Parted, PartsOf
<1>1. d \in Nat
  BY LenProperties
<1>2. HostEnd(s, a) = b + 1
  <2>1. a + 1 \in 1..(d + 1) /\ b + 1 \in (a + 1)..(d + 1)
    BY <1>1
  <2>2. \A x \in (a + 1)..((b + 1) - 1) : s[x] \in HostClass
    OBVIOUS
  <2>3. ASSUME b + 1 <= d PROVE s[b + 1] \notin HostClass
    <3>1. s[b + 1] \in {":", "/"}
      BY <1>1, <2>3
    <3> QED
      BY <3>1 DEF HostClass
  <2>4. EndOfRun(s, a + 1, HostClass) = b + 1
    BY <2>1, <2>2, <2>3, EndUnique
  <2> QED
    BY <2>4 DEF HostEnd
<1>3. PortFrom(s, a) = f
  <2>1. CASE f = b + 1 /\ c = b
    <3>1. ~At(s, b + 1, ":")
      BY <1>1, <2>1 DEF At
    <3> QED
      BY <1>2, <2>1, <3>1 DEF PortFrom
  <2>2. CASE f = b + 2 /\ b + 1 <= c /\ s[b + 1] = ":"
    <3>1. At(s, b + 1, ":")
      BY <1>1, <2>2 DEF At
    <3>2. (b + 1) + 1 = b + 2
      OBVIOUS
    <3> QED
      BY <1>2, <2>2, <3>1, <3>2 DEF PortFrom
  <2> QED
    BY <2>1, <2>2
<1>4. PortEnd(s, a) = c + 1
  <2>1. f \in 1..(d + 1) /\ c + 1 \in f..(d + 1)
    BY <1>1
  <2>2. \A x \in f..((c + 1) - 1) : s[x] \in PortClass
    OBVIOUS
  <2>3. c + 1 <= d => s[c + 1] \notin PortClass
    BY DEF PortClass
  <2>4. EndOfRun(s, f, PortClass) = c + 1
    BY <2>1, <2>2, <2>3, EndUnique
  <2> QED
    BY <1>3, <2>4 DEF PortEnd
<1> DEFINE g == PathFrom(s, a)
<1>5. g \in (c + 1)..(d + 1)
  <2>1. CASE At(s, c + 1, "/")
    <3>1. c + 1 <= d /\ g = (c + 1) + 1
      BY <1>4, <2>1 DEF At, PathFrom
    <3> QED
      BY <1>1, <3>1
  <2>2. CASE ~At(s, c + 1, "/")
    <3>1. g = c + 1
      BY <1>4, <2>2 DEF PathFrom
    <3> QED
      BY <1>1, <3>1
  <2> QED
    BY <2>1, <2>2
<1> HIDE DEF g
<1>6. PathEnd(s, a) = d + 1
  <2>1. g \in 1..(d + 1) /\ d + 1 \in g..(d + 1) /\ ~(d + 1 <= d)
    BY <1>1, <1>5
  <2>2. ASSUME NEW x \in g..((d + 1) - 1) PROVE s[x] \in PathClass
    <3>1. x \in (c + 1)..d
      BY <1>1, <1>5
    <3> QED
      BY <3>1
  <2>3. EndOfRun(s, g, PathClass) = d + 1
    BY <2>1, <2>2, EndUnique
  <2> QED
    BY <2>3 DEF PathEnd, g
<1>7. HostEnd(s, a) # a + 1 /\ (b + 1) - 1 = b /\ (c + 1) - 1 = c /\ (d + 1) - 1 = d
  BY <1>1, <1>2
<1>8. MatchAfter(s, a) =
        [state |-> "match", login |-> SubSeq(s, 1, a),
         host |-> SubSeq(s, a + 1, HostEnd(s, a) - 1),
         port |-> SubSeq(s, PortFrom(s, a), PortEnd(s, a) - 1),
         path |-> SubSeq(s, PortEnd(s, a), PathEnd(s, a) - 1)]
  BY <1>7, MatchParts
<1> HIDE DEF d
<1> QED
  BY <1>2, <1>3, <1>4, <1>6, <1>7, <1>8 DEF d

(* A is a login, B a host, C a colon and the port N, or nothing, and D a   *)
(* path, of tokens that may stand there.                                   *)
Writable(A, B, C, D, N) ==
  /\ \/ Len(C) = 0 /\ Len(N) = 0
     \/ /\ Len(C) = Len(N) + 1 /\ C[1] = ":"
        /\ \A i \in 2..Len(C) : C[i] = N[i - 1]
  /\ Len(B) # 0
  /\ \A i \in 1..Len(A) : A[i] # "blank"
  /\ \A i \in 1..Len(B) : B[i] \in HostClass
  /\ \A i \in 1..Len(N) : N[i] \in PortClass
  /\ Len(D) # 0 => D[1] = "/"
  /\ \A i \in 1..Len(D) : D[i] \in PathClass

MatchOf(A, B, N, D) ==
  [state |-> "match", login |-> A, host |-> B, port |-> N, path |-> D]

(* A text put together from these parts is taken apart into them.          *)
LEMMA MatchWritten ==
  ASSUME NEW A \in Seq(Token), NEW B \in Seq(Token), NEW C \in Seq(Token), NEW D \in Seq(Token),
         NEW N \in Seq(Token), Writable(A, B, C, D, N)
  PROVE  MatchAfter(A \o B \o C \o D, Len(A)) = MatchOf(A, B, N, D)
<1> USE DEF Writable
<1> DEFINE s == A \o B \o C \o D
<1>0. Len(A) \in Nat /\ Len(B) \in Nat /\ Len(C) \in Nat /\ Len(D) \in Nat /\ Len(N) \in Nat
  BY LenProperties
<1>1. PICK a, b, f, c \in Nat :
        /\ a = Len(A) /\ b = a + Len(B) /\ c = b + Len(C)
        /\ f = IF Len(C) = 0 THEN b + 1 ELSE b + 2
  <2> DEFINE aa == Len(A)
             bb == aa + Len(B)
             cc == bb + Len(C)
             ff == IF Len(C) = 0 THEN bb + 1 ELSE bb + 2
  <2>1. aa \in Nat /\ bb \in Nat /\ cc \in Nat /\ ff \in Nat
    BY <1>0
  <2> QED
    BY <2>1
<1>2. /\ s \in Seq(Token) /\ Len(s) = c + Len(D)
      /\ \A i \in 1..a : s[i] = A[i]
      /\ \A i \in (a + 1)..b : s[i] = B[i - a]
      /\ \A i \in (b + 1)..c : s[i] = C[i - b]
      /\ \A i \in (c + 1)..(c + Len(D)) : s[i] = D[i - c]
  <2>1. a = Len(A) /\ b = a + Len(B) /\ c = b + Len(C)
    BY <1>1
  <2>2. Joined(s, A, B, C, D, a, b, c)
    BY <2>1, FourParts
  <2> HIDE DEF s
  <2> QED
    BY <2>2 DEF Joined
<1> HIDE DEF s
<1>3. a < b /\ b <= c /\ c <= Len(s)
  BY <1>0, <1>1, <1>2, SMTT(30)
<1>4. ASSUME NEW x \in (a + 1)..b PROVE s[x] = B[x - a] /\ x - a \in 1..Len(B)
  BY <1>0, <1>1, <1>2
<1>5. ASSUME Len(C) # 0
      PROVE  f = b + 2 /\ b + 1 <= c /\ s[b + 1] = ":" /\ Len(C) = Len(N) + 1
  <2>1. f = b + 2 /\ b + 1 \in (b + 1)..c /\ (b + 1) - b = 1 /\ b + 1 <= c
    BY <1>0, <1>1, <1>5
  <2>2. s[b + 1] = C[(b + 1) - b]
    BY <1>2, <2>1
  <2>3. C[1] = ":" /\ Len(C) = Len(N) + 1
    BY <1>5
  <2> QED
    BY <2>1, <2>2, <2>3
<1>6. ASSUME Len(C) = 0 PROVE f = b + 1 /\ c = b /\ Len(N) = 0
  BY <1>0, <1>1, <1>6
<1>7. ASSUME NEW x \in f..c PROVE s[x] = N[x - f + 1] /\ x - f + 1 \in 1..Len(N)
  <2>1. CASE Len(C) = 0
    BY <1>6, <2>1
  <2>2. CASE Len(C) # 0
    <3>1. /\ x \in (b + 1)..c /\ x - b \in 2..Len(C) /\ x - f + 1 = (x - b) - 1
          /\ x - f + 1 \in 1..Len(N)
      <4>1. /\ f = b + 2 /\ b + 1 <= c /\ Len(C) = Len(N) + 1
            /\ c = b + (Len(N) + 1)
        BY <1>1, <1>5, <2>2
      <4> QED
        BY <1>0, <4>1
    <3>2. C[x - b] = N[(x - b) - 1]
      BY <1>0, <2>2, <3>1
    <3> QED
      BY <1>2, <3>1, <3>2
  <2> QED
    BY <2>1, <2>2
<1>8. ASSUME NEW x \in (c + 1)..Len(s) PROVE s[x] = D[x - c] /\ x - c \in 1..Len(D)
  BY <1>0, <1>2
<1>9. ASSUME c + 1 <= Len(s) PROVE s[c + 1] = "/"
  <2>1. c + 1 \in (c + 1)..Len(s) /\ (c + 1) - c = 1 /\ Len(D) # 0
    BY <1>0, <1>2, <1>9
  <2> QED
    BY <1>8, <2>1
<1>10. "blank" \notin Range(s)
  <2>1. DOMAIN s = 1..Len(s)
    BY <1>2, LenProperties
  <2> SUFFICES ASSUME NEW x \in 1..Len(s) PROVE s[x] # "blank"
    BY <2>1 DEF Range
  <2>2. CASE x \in 1..a
    BY <1>1, <1>2, <2>2
  <2>3. CASE x \in (a + 1)..b
    BY <1>4, <2>3 DEF HostClass
  <2>4. CASE x \in f..c
    BY <1>7, <2>4 DEF PortClass
  <2>5. CASE x \in (c + 1)..Len(s)
    BY <1>8, <2>5 DEF PathClass
  <2>6. CASE Len(C) # 0 /\ x = b + 1
    BY <1>5, <2>6
  <2>7. Len(s) \in Nat
    BY <1>2, LenProperties
  <2>8. f = b + 1 \/ (Len(C) # 0 /\ f = b + 2)
    BY <1>5, <1>6
  <2>9. x \in 1..a \/ x \in (a + 1)..b \/ x \in f..c \/ x \in (c + 1)..Len(s)
          \/ (Len(C) # 0 /\ x = b + 1)
    BY <1>3, <2>7, <2>8
  <2> QED
    BY <2>2, <2>3, <2>4, <2>5, <2>6, <2>9
<1>11. Len(s) \in Nat
  BY <1>2, LenProperties
<1>12. SubSeq(s, 1, a) = A
  <2>1. 1 \in 1..(Len(s) + 1) /\ a \in (1 - 1)..Len(s) /\ Len(A) = a - 1 + 1
    BY <1>1, <1>3, <1>11
  <2>2. \A x \in 1..a : s[x] = A[x - 1 + 1]
    BY <1>2
  <2> QED
    BY <1>2, <2>1, <2>2, PartIs
<1>13. SubSeq(s, a + 1, b) = B
  <2>1. /\ a + 1 \in 1..(Len(s) + 1) /\ b \in ((a + 1) - 1)..Len(s)
        /\ Len(B) = b - (a + 1) + 1
    BY <1>0, <1>1, <1>3, <1>11
  <2>2. ASSUME NEW x \in (a + 1)..b PROVE s[x] = B[x - (a + 1) + 1]
    <3>1. x - (a + 1) + 1 = x - a
      OBVIOUS
    <3> QED
      BY <1>4, <3>1
  <2> QED
    BY <1>2, <2>1, <2>2, PartIs
<1>14. SubSeq(s, f, c) = N
  <2>1. f \in 1..(Len(s) + 1) /\ c \in (f - 1)..Len(s) /\ Len(N) = c - f + 1
    <3>1. CASE Len(C) = 0
      BY <1>3, <1>6, <1>11, <3>1
    <3>2. CASE Len(C) # 0
      <4>1. /\ f = b + 2 /\ b + 1 <= c /\ Len(C) = Len(N) + 1
            /\ c = b + Len(C) /\ c <= Len(s)
        BY <1>1, <1>3, <1>5, <3>2
      <4>2. c = b + (Len(N) + 1)
        BY <4>1
      <4> QED
        BY <1>0, <1>11, <4>1, <4>2
    <3> QED
      BY <3>1, <3>2
  <2> QED
    BY <1>2, <1>7, <2>1, PartIs
<1>15. SubSeq(s, c + 1, Len(s)) = D
  <2>1. /\ c + 1 \in 1..(Len(s) + 1) /\ Len(s) \in ((c + 1) - 1)..Len(s)
        /\ Len(D) = Len(s) - (c + 1) + 1
    BY <1>0, <1>2, <1>3, <1>11
  <2>2. ASSUME NEW x \in (c + 1)..Len(s) PROVE s[x] = D[x - (c + 1) + 1]
    <3>1. x - (c + 1) + 1 = x - c
      BY <1>11
    <3> QED
      BY <1>8, <3>1
  <2> QED
    BY <1>2, <2>1, <2>2, PartIs
<1>16. /\ \A x \in (a + 1)..b : s[x] \in HostClass
       /\ \A x \in f..c : s[x] \in PortClass
       /\ \A x \in (c + 1)..Len(s) : s[x] \in PathClass
  BY <1>4, <1>7, <1>8
<1>17. \/ f = b + 1 /\ c = b
       \/ f = b + 2 /\ b + 1 <= c /\ s[b + 1] = ":"
  BY <1>5, <1>6
<1>18. MatchAfter(s, a) = PartsOf(s, a, b, f, c)
  <2>1. s \in Seq(Token) /\ a < b /\ c <= Len(s) /\ (c + 1 <= Len(s) => s[c + 1] = "/")
    BY <1>2, <1>3, <1>9
  <2>2. Parted(s, a, b, f, c)
    BY <1>16, <1>17, <2>1 DEF Parted
  <2> QED
    <3>1. s \in Seq(Token) /\ "blank" \notin Range(s)
      BY <1>10, <2>1
    <3> QED
      BY <2>2, <3>1, MatchPositions
<1>19. MatchAfter(s, a) = MatchOf(A, B, N, D)
  BY <1>12, <1>13, <1>14, <1>15, <1>18 DEF PartsOf, MatchOf
<1> QED
  BY <1>1, <1>19 DEF s

LoginPart(c) ==
  IF c.user = Guest THEN <<>> ELSE c.user \o <<":">> \o c.password \o <<"@">>

PortPart(c) == IF c.number = <<>> THEN <<>> ELSE <<":">> \o c.number

LEMMA WordApart ==
  ASSUME NEW w \in Word
  PROVE  /\ w \in Token /\ w \notin {":", "@", "/", "?", "#", "-", "blank"}
         /\ w \in HostClass /\ w \in PortClass /\ w \in PathClass
BY AddressAssumption DEF Token, HostClass, PortClass, PathClass

LEMMA Single ==
  ASSUME NEW w \in Token
  PROVE  <<w>> \in Seq(Token) /\ Len(<<w>>) = 1 /\ <<w>>[1] = w
OBVIOUS

(* What the components of an address may be.                               *)
LEMMA ComponentFacts ==
  ASSUME NEW c \in Components
  PROVE  /\ c.user = Guest \/ \E u \in Word : c.user = <<u>>
         /\ \E p \in Word : c.password = <<p>>
         /\ c.hostname \in Seq(Token) /\ Len(c.hostname) # 0
         /\ \A i \in 1..Len(c.hostname) : c.hostname[i] \in Word \cup {"-"}
         /\ c.number = <<>> \/ \E n \in Numbers : c.number = <<n>> /\ ValueOf[n] <= MaxPort
         /\ c.vhost \in Seq(Token) /\ (Len(c.vhost) # 0 => c.vhost[1] = "/")
         /\ \A i \in 1..Len(c.vhost) : c.vhost[i] \in Word \cup {"/"}
<1>1. /\ c.user \in {Guest} \cup {<<x>> : x \in Names}
      /\ c.password \in {<<x>> : x \in Word}
      /\ c.hostname \in {<<x>> : x \in Word} \cup {<<x, "-", y>> : x \in Names, y \in Names}
      /\ c.number \in {<<>>} \cup {<<x>> : x \in {n \in Numbers : ValueOf[n] <= MaxPort}}
      /\ c.vhost \in {<<>>, <<"/">>} \cup {<<"/", x>> : x \in Names}
  BY DEF Components
<1>2. Names \subseteq Word /\ Word \subseteq Token /\ "-" \in Token /\ "/" \in Token
  BY DEF Word, Token
<1>3. (c.user = Guest \/ \E u \in Word : c.user = <<u>>) /\ \E p \in Word : c.password = <<p>>
  BY <1>1, <1>2
<1>4. c.number = <<>> \/ \E n \in Numbers : c.number = <<n>> /\ ValueOf[n] <= MaxPort
  BY <1>1
<1>5. /\ c.hostname \in Seq(Token) /\ Len(c.hostname) # 0
      /\ \A i \in 1..Len(c.hostname) : c.hostname[i] \in Word \cup {"-"}
  <2>1. CASE \E x \in Word : c.hostname = <<x>>
    BY <1>2, <2>1
  <2>2. CASE \E x, y \in Names : c.hostname = <<x, "-", y>>
    <3>1. PICK x \in Names, y \in Names : c.hostname = <<x, "-", y>>
      BY <2>2
    <3>2. x \in Word /\ y \in Word /\ x \in Token /\ y \in Token
      BY <1>2
    <3>3. Len(<<x, "-", y>>) = 3
      OBVIOUS
    <3>4. \A i \in 1..3 : <<x, "-", y>>[i] \in Word \cup {"-"}
      BY <3>2
    <3>5. <<x, "-", y>> \in Seq(Token)
      BY <1>2, <3>2
    <3> QED
      BY <3>1, <3>3, <3>4, <3>5
  <2> QED
    BY <1>1, <2>1, <2>2
<1>6. /\ c.vhost \in Seq(Token) /\ (Len(c.vhost) # 0 => c.vhost[1] = "/")
      /\ \A i \in 1..Len(c.vhost) : c.vhost[i] \in Word \cup {"/"}
  <2>1. CASE c.vhost = <<>>
    BY <2>1, EmptySeq
  <2>2. CASE c.vhost = <<"/">>
    BY <1>2, <2>2
  <2>3. CASE \E x \in Names : c.vhost = <<"/", x>>
    <3>1. PICK x \in Names : c.vhost = <<"/", x>>
      BY <2>3
    <3>2. x \in Word /\ x \in Token
      BY <1>2
    <3>3. Len(<<"/", x>>) = 2 /\ <<"/", x>>[1] = "/" /\ <<"/", x>>[2] = x
      OBVIOUS
    <3>4. <<"/", x>> \in Seq(Token)
      BY <1>2, <3>2
    <3>5. \A i \in 1..2 : <<"/", x>>[i] \in Word \cup {"/"}
      BY <3>2
    <3> QED
      BY <3>1, <3>3, <3>4, <3>5
  <2> QED
    BY <1>1, <2>1, <2>2, <2>3
<1> QED
  BY <1>3, <1>4, <1>5, <1>6

(* The login as it is written: a user, a colon, a password, an "@".        *)
LEMMA LoginPartFacts ==
  ASSUME NEW u \in Word, NEW p \in Word
  PROVE  LET A == <<u>> \o <<":">> \o <<p>> \o <<"@">>
         IN  /\ A \in Seq(Token) /\ Len(A) = 4
             /\ A[1] = u /\ A[2] = ":" /\ A[3] = p /\ A[4] = "@"
<1> DEFINE A == <<u>> \o <<":">> \o <<p>> \o <<"@">>
<1>1. u \in Token /\ p \in Token /\ ":" \in Token /\ "@" \in Token
  BY DEF Token
<1>2. Joined(A, <<u>>, <<":">>, <<p>>, <<"@">>, 1, 2, 3)
  <2> DEFINE U == <<u>>
             C == <<":">>
             P == <<p>>
             T == <<"@">>
  <2>1. /\ U \in Seq(Token) /\ C \in Seq(Token) /\ P \in Seq(Token) /\ T \in Seq(Token)
        /\ Len(U) = 1 /\ Len(C) = 1 /\ Len(P) = 1
    BY <1>1, Single
  <2> HIDE DEF U, C, P, T
  <2>2. 1 = Len(U) /\ 2 = 1 + Len(C) /\ 3 = 2 + Len(P)
    BY <2>1
  <2>3. Joined(U \o C \o P \o T, U, C, P, T, 1, 2, 3)
    BY <2>1, <2>2, FourParts
  <2> QED
    BY <2>3 DEF U, C, P, T
<1> HIDE DEF A
<1>3. /\ A \in Seq(Token) /\ Len(A) = 3 + Len(<<"@">>)
      /\ \A i \in 1..1 : A[i] = <<u>>[i]
      /\ \A i \in (1 + 1)..2 : A[i] = <<":">>[i - 1]
      /\ \A i \in (2 + 1)..3 : A[i] = <<p>>[i - 2]
      /\ \A i \in (3 + 1)..(3 + Len(<<"@">>)) : A[i] = <<"@">>[i - 3]
  BY <1>2 DEF Joined
<1>4. Len(A) = 4
  BY <1>3
<1>5. A[1] = u
  <2>1. A[1] = <<u>>[1]
    BY <1>3
  <2> QED
    BY <2>1
<1>6. A[2] = ":"
  <2>1. 2 \in (1 + 1)..2 /\ 2 - 1 = 1
    OBVIOUS
  <2>2. A[2] = <<":">>[2 - 1]
    BY <1>3, <2>1
  <2> QED
    BY <2>1, <2>2
<1>7. A[3] = p
  <2>1. 3 \in (2 + 1)..3 /\ 3 - 2 = 1
    OBVIOUS
  <2>2. A[3] = <<p>>[3 - 2]
    BY <1>3, <2>1
  <2> QED
    BY <2>1, <2>2
<1>8. A[4] = "@"
  <2>1. 4 \in (3 + 1)..(3 + Len(<<"@">>)) /\ 4 - 3 = 1
    OBVIOUS
  <2>2. A[4] = <<"@">>[4 - 3]
    BY <1>3, <2>1
  <2> QED
    BY <2>1, <2>2
<1>9. A \in Seq(Token)
  BY <1>3
<1> QED
  BY <1>4, <1>5, <1>6, <1>7, <1>8, <1>9 DEF A

(* A text that begins with a user, a colon, a password and an "@" has a    *)
(* login of these four tokens.                                             *)
LEMMA LoginFound ==
  ASSUME NEW s \in Seq(Token), Len(s) >= 4,
         s[1] \in Word, s[2] = ":", s[3] \in Word, s[4] = "@"
  PROVE  LoginLength(s) = 4
<1>1. Len(s) \in Nat
  BY LenProperties
<1>2. ":" \notin Word /\ "@" \notin Word
  BY AddressAssumption
<1>3. EndOfRun(s, 1, Word) = 2
  <2>1. 1 \in 1..(Len(s) + 1) /\ 2 \in 1..(Len(s) + 1) /\ (2 <= Len(s) => s[2] \notin Word)
    BY <1>1, <1>2
  <2>2. \A x \in 1..(2 - 1) : s[x] \in Word
    OBVIOUS
  <2> QED
    BY <2>1, <2>2, EndUnique
<1>4. EndOfRun(s, 2 + 1, Word) = 4
  <2>1. 2 + 1 \in 1..(Len(s) + 1) /\ 4 \in (2 + 1)..(Len(s) + 1) /\ (4 <= Len(s) => s[4] \notin Word)
    BY <1>1, <1>2
  <2>2. \A x \in (2 + 1)..(4 - 1) : s[x] \in Word
    <3>1. \A x \in (2 + 1)..(4 - 1) : x = 3
      OBVIOUS
    <3> QED
      BY <3>1
  <2> QED
    BY <2>1, <2>2, EndUnique
<1>5. At(s, 2, ":") /\ At(s, 4, "@")
  BY <1>1 DEF At
<1>6. LoginLength(s) =
        LET pass == IF At(s, 2, ":") THEN EndOfRun(s, 2 + 1, Word) ELSE 2
        IN IF 2 > 1 /\ At(s, pass, "@") THEN pass ELSE 0
  BY <1>3 DEF LoginLength
<1> QED
  BY <1>4, <1>5, <1>6

(* Such a login splits into its user and its password.                     *)
LEMMA LoginSplit ==
  ASSUME NEW A \in Seq(Token), Len(A) = 4,
         NEW u \in Word, NEW p \in Word, A[1] = u, A[2] = ":", A[3] = p,
         NEW m, m.login = A
  PROVE  LoginOf(m) = <<<<u>>, <<p>>>>
<1> DEFINE q == SubSeq(A, 1, 3)
<1>1. /\ q \in Seq(Token) /\ Len(q) = 3
      /\ \A i \in 1..3 : q[i] = A[1 + i - 1]
  <2>1. 1 \in 1..(Len(A) + 1) /\ 3 \in (1 - 1)..Len(A) /\ 3 - 1 + 1 = 3
    OBVIOUS
  <2>2. /\ q \in Seq(Token) /\ Len(q) = 3 - 1 + 1
        /\ \A i \in 1..(3 - 1 + 1) : q[i] = A[1 + i - 1]
    BY <2>1, PartOfText
  <2> HIDE DEF q
  <2> QED
    BY <2>1, <2>2
<1>2. LoginOf(m) = Split(q)
  <2>1. Len(A) # 0 /\ Len(A) - 1 = 3
    OBVIOUS
  <2>2. A # <<>>
    BY <2>1, NotEmpty
  <2> QED
    BY <2>1, <2>2 DEF LoginOf
<1> HIDE DEF q
<1>3. q[1] = u /\ q[2] = ":" /\ q[3] = p
  BY <1>1
<1>4. EndOfRun(q, 1, Word) = 2
  <2>1. ":" \notin Word
    BY AddressAssumption
  <2>2. 1 \in 1..(Len(q) + 1) /\ 2 \in 1..(Len(q) + 1) /\ (2 <= Len(q) => q[2] \notin Word)
    BY <1>1, <1>3, <2>1
  <2>3. \A x \in 1..(2 - 1) : q[x] \in Word
    BY <1>3
  <2> QED
    BY <1>1, <2>2, <2>3, EndUnique
<1>5. SubSeq(q, 1, 2 - 1) = <<u>>
  <2>1. <<u>> \in Seq(Token) /\ Len(<<u>>) = (2 - 1) - 1 + 1
    BY WordApart, Single
  <2>2. \A x \in 1..(2 - 1) : q[x] = <<u>>[x - 1 + 1]
    BY <1>3
  <2>3. 1 \in 1..(Len(q) + 1) /\ 2 - 1 \in (1 - 1)..Len(q)
    BY <1>1
  <2> QED
    BY <1>1, <2>1, <2>2, <2>3, PartIs
<1>6. SubSeq(q, 2 + 1, Len(q)) = <<p>>
  <2>1. <<p>> \in Seq(Token) /\ Len(<<p>>) = Len(q) - (2 + 1) + 1
    BY <1>1, WordApart, Single
  <2>2. \A x \in (2 + 1)..Len(q) : q[x] = <<p>>[x - (2 + 1) + 1]
    <3>1. \A x \in (2 + 1)..Len(q) : x = 3 /\ x - (2 + 1) + 1 = 1
      BY <1>1
    <3> QED
      BY <1>3, <3>1
  <2>3. 2 + 1 \in 1..(Len(q) + 1) /\ Len(q) \in ((2 + 1) - 1)..Len(q)
    BY <1>1
  <2> QED
    BY <1>1, <2>1, <2>2, <2>3, PartIs
<1>7. Split(q) = <<SubSeq(q, 1, 2 - 1), SubSeq(q, 2 + 1, Len(q))>>
  <2>1. ~(2 >= Len(q))
    BY <1>1
  <2> QED
    BY <1>4, <2>1 DEF Split
<1> QED
  BY <1>2, <1>5, <1>6, <1>7

(* A text that is written from components is matched to them.              *)
LEMMA WrittenMatch ==
  ASSUME NEW c \in Components
  PROVE  /\ Written(c) \in Seq(Token)
         /\ RegexMatch(Written(c)) = MatchOf(LoginPart(c), c.hostname, c.number, c.vhost)
<1> DEFINE A == LoginPart(c)
           B == c.hostname
           C == PortPart(c)
           N == c.number
           D == c.vhost
           s == A \o B \o C \o D
<1>1. s = Written(c)
  BY DEF Written, LoginPart, PortPart
<1>2. /\ B \in Seq(Token) /\ Len(B) # 0 /\ \A i \in 1..Len(B) : B[i] \in Word \cup {"-"}
      /\ D \in Seq(Token) /\ (Len(D) # 0 => D[1] = "/")
      /\ \A i \in 1..Len(D) : D[i] \in Word \cup {"/"}
  BY ComponentFacts
<1>3. \/ A = <<>>
      \/ /\ Len(A) = 4
         /\ A[1] \in Word /\ A[2] = ":" /\ A[3] \in Word /\ A[4] = "@"
  <2>1. CASE c.user = Guest
    BY <2>1 DEF LoginPart
  <2>2. CASE c.user # Guest
    <3>1. PICK u \in Word, p \in Word : c.user = <<u>> /\ c.password = <<p>>
      BY <2>2, ComponentFacts
    <3>2. A = <<u>> \o <<":">> \o <<p>> \o <<"@">>
      BY <2>2, <3>1 DEF LoginPart
    <3> QED
      BY <3>2, LoginPartFacts
  <2> QED
    BY <2>1, <2>2
<1>4. A \in Seq(Token) /\ \A i \in 1..Len(A) : A[i] # "blank"
  <2>1. CASE c.user = Guest
    <3>1. A = <<>>
      BY <2>1 DEF LoginPart
    <3> HIDE DEF A
    <3> QED
      BY <3>1, EmptySeq
  <2>2. CASE c.user # Guest
    <3>1. PICK u \in Word, p \in Word : c.user = <<u>> /\ c.password = <<p>>
      BY <2>2, ComponentFacts
    <3>2. A = <<u>> \o <<":">> \o <<p>> \o <<"@">>
      BY <2>2, <3>1 DEF LoginPart
    <3>3. /\ A \in Seq(Token) /\ Len(A) = 4
          /\ A[1] = u /\ A[2] = ":" /\ A[3] = p /\ A[4] = "@"
      BY <3>2, LoginPartFacts
    <3> HIDE DEF A
    <3>4. u # "blank" /\ p # "blank"
      BY WordApart
    <3>5. \A i \in 1..4 : i = 1 \/ i = 2 \/ i = 3 \/ i = 4
      OBVIOUS
    <3> QED
      BY <3>3, <3>4, <3>5
  <2> QED
    BY <2>1, <2>2
<1>5. /\ C \in Seq(Token) /\ N \in Seq(Token)
      /\ \A i \in 1..Len(N) : N[i] \in Word
      /\ \/ C = <<>> /\ Len(C) = 0 /\ Len(N) = 0
         \/ /\ Len(C) = 2 /\ Len(N) = 1 /\ C[1] = ":" /\ C[2] = N[1]
  <2>1. CASE N = <<>>
    <3>1. C = <<>>
      BY <2>1 DEF PortPart
    <3> HIDE DEF C, N
    <3> QED
      BY <2>1, <3>1, EmptySeq
  <2>2. CASE N # <<>>
    <3>1. PICK n \in Numbers : N = <<n>>
      BY <2>2, ComponentFacts
    <3>2. C = <<":">> \o <<n>>
      BY <2>2, <3>1 DEF PortPart
    <3>3. n \in Word /\ n \in Token /\ ":" \in Token
      BY DEF Word, Token
    <3> HIDE DEF C, N
    <3>4. /\ <<":">> \in Seq(Token) /\ <<n>> \in Seq(Token)
          /\ Len(<<":">>) = 1 /\ Len(<<n>>) = 1
      BY <3>3
    <3>5. /\ C \in Seq(Token) /\ Len(C) = 1 + 1
          /\ \A i \in 1..(1 + 1) : C[i] = IF i <= 1 THEN <<":">>[i] ELSE <<n>>[i - 1]
      BY <3>2, <3>4, TwoParts
    <3>6. C[1] = ":" /\ C[2] = n
      BY <3>5
    <3> QED
      BY <3>1, <3>3, <3>4, <3>5, <3>6
  <2> QED
    BY <2>1, <2>2
<1> HIDE DEF A, B, C, D, N
<1>6. \/ Len(C) = 0 /\ Len(N) = 0
      \/ /\ Len(C) = Len(N) + 1 /\ C[1] = ":"
         /\ \A i \in 2..Len(C) : C[i] = N[i - 1]
  <2>1. CASE Len(C) = 0
    BY <1>5, <2>1
  <2>2. CASE Len(C) # 0
    <3>1. \A i \in 2..2 : i = 2 /\ i - 1 = 1
      OBVIOUS
    <3>2. Len(C) = 2 /\ Len(N) = 1 /\ C[1] = ":" /\ C[2] = N[1]
      BY <1>5, <2>2
    <3>3. ASSUME NEW i \in 2..Len(C) PROVE C[i] = N[i - 1]
      <4>1. i = 2 /\ i - 1 = 1
        BY <3>1, <3>2
      <4> QED
        BY <3>2, <4>1
    <3> QED
      BY <3>2, <3>3
  <2> QED
    BY <2>1, <2>2
<1>7. /\ \A i \in 1..Len(B) : B[i] \in HostClass
      /\ \A i \in 1..Len(N) : N[i] \in PortClass
      /\ \A i \in 1..Len(D) : D[i] \in PathClass
  <2>1. "-" \in HostClass /\ "/" \in PathClass
    BY DEF HostClass, PathClass, Token
  <2> QED
    BY <1>2, <1>5, <2>1, WordApart
<1>8. MatchAfter(s, Len(A)) = MatchOf(A, B, N, D)
  <2>1. Writable(A, B, C, D, N)
    BY <1>2, <1>4, <1>6, <1>7 DEF Writable
  <2> QED
    BY <1>2, <1>4, <1>5, <2>1, MatchWritten
<1>9. PICK a, b, f \in Nat : a = Len(A) /\ b = a + Len(B) /\ f = b + Len(C)
  <2> DEFINE aa == Len(A)
             bb == aa + Len(B)
             ff == bb + Len(C)
  <2>1. aa \in Nat /\ bb \in Nat /\ ff \in Nat
    BY <1>2, <1>4, <1>5, LenProperties
  <2> QED
    BY <2>1
<1>10. Joined(s, A, B, C, D, a, b, f)
  BY <1>2, <1>4, <1>5, <1>9, FourParts
<1> HIDE DEF s
<1>11. /\ s \in Seq(Token) /\ Len(s) = f + Len(D)
       /\ \A i \in 1..a : s[i] = A[i]
       /\ \A i \in (a + 1)..b : s[i] = B[i - a]
       /\ \A i \in (b + 1)..f : s[i] = C[i - b]
       /\ \A i \in (f + 1)..(f + Len(D)) : s[i] = D[i - f]
  BY <1>10 DEF Joined
<1>12. Len(A) \in Nat /\ Len(B) \in Nat /\ Len(C) \in Nat /\ Len(D) \in Nat /\ Len(s) \in Nat
  BY <1>2, <1>4, <1>5, <1>11, LenProperties
<1>13. CASE A = <<>>
  <2>1. a = 0
    BY <1>9, <1>13, EmptySeq
  <2>2. ASSUME NEW x \in 1..Len(s) PROVE s[x] # "@"
    <3>1. \A w \in Word \cup {"-", "/", ":"} : w # "@"
      BY WordApart
    <3>2. CASE x \in (a + 1)..b
      <4>1. x - a \in 1..Len(B)
        BY <1>9, <1>12, <3>2
      <4>2. s[x] = B[x - a] /\ B[x - a] \in Word \cup {"-"}
        BY <1>2, <1>11, <3>2, <4>1
      <4> QED
        BY <3>1, <4>2
    <3>3. CASE x \in (b + 1)..f
      <4>1. x - b \in 1..Len(C)
        BY <1>9, <1>12, <3>3
      <4>2. C[x - b] \in Word \cup {":"}
        <5>1. Len(C) = 2 /\ Len(N) = 1 /\ C[1] = ":" /\ C[2] = N[1]
          BY <1>5, <4>1
        <5>2. N[1] \in Word
          BY <1>5, <5>1
        <5>3. x - b = 1 \/ x - b = 2
          BY <4>1, <5>1
        <5> QED
          BY <5>1, <5>2, <5>3
      <4>3. s[x] = C[x - b]
        BY <1>11, <3>3
      <4> QED
        BY <3>1, <4>2, <4>3
    <3>4. CASE x \in (f + 1)..(f + Len(D))
      <4>1. x - f \in 1..Len(D)
        BY <1>9, <1>12, <3>4
      <4>2. s[x] = D[x - f] /\ D[x - f] \in Word \cup {"/"}
        BY <1>2, <1>11, <3>4, <4>1
      <4> QED
        BY <3>1, <4>2
    <3>5. x \in (a + 1)..b \/ x \in (b + 1)..f \/ x \in (f + 1)..(f + Len(D))
      BY <1>11, <1>12, <2>1
    <3> QED
      BY <3>2, <3>3, <3>4, <3>5
  <2>3. LoginLength(s) = 0
    <3>1. /\ LoginLength(s) \in 0..Len(s)
          /\ LoginLength(s) # 0 => s[LoginLength(s)] = "@"
      BY <1>11, LoginFacts
    <3> QED
      BY <1>12, <2>2, <3>1
  <2>4. RegexMatch(s) = MatchAfter(s, 0)
    BY <2>3 DEF RegexMatch
  <2> QED
    BY <1>1, <1>8, <1>9, <1>11, <2>1, <2>4 DEF A, B, C, D, N
<1>14. CASE A # <<>>
  <2>1. /\ Len(A) = 4 /\ a = 4
        /\ A[1] \in Word /\ A[2] = ":" /\ A[3] \in Word /\ A[4] = "@"
    BY <1>3, <1>9, <1>14
  <2>2. Len(s) >= 4
    BY <1>9, <1>11, <1>12, <2>1
  <2>3. s[1] = A[1] /\ s[2] = A[2] /\ s[3] = A[3] /\ s[4] = A[4]
    BY <1>11, <2>1
  <2>4. LoginLength(s) = 4
    BY <1>11, <2>1, <2>2, <2>3, LoginFound
  <2>5. MatchAfter(s, 4) # NoMatch
    <3>1. MatchOf(A, B, N, D) # NoMatch
      BY DEF MatchOf, NoMatch
    <3> QED
      BY <1>8, <2>1, <3>1
  <2>6. RegexMatch(s) = MatchAfter(s, 4)
    BY <2>4, <2>5 DEF RegexMatch
  <2> QED
    BY <1>1, <1>8, <1>11, <2>1, <2>6 DEF A, B, C, D, N
<1> QED
  BY <1>13, <1>14

(* From makes of such a text what it was written from.                     *)
LEMMA WrittenRead ==
  ASSUME NEW c \in Components, NEW t \in Texts,
         t.scheme \in {"amqp", "amqps"}, t.rest = Written(c)
  PROVE  /\ FromText(t).state = "value"
         /\ ToAddress(FromText(t)) =
              [hostname |-> c.hostname,
               port |-> IF c.number = <<>> THEN DefaultPort ELSE ValueOf[c.number[1]],
               user |-> c.user,
               password |-> IF c.user = Guest THEN Guest ELSE c.password,
               vhost |-> c.vhost]
<1> DEFINE m == RegexMatch(t.rest)
<1>1. m = MatchOf(LoginPart(c), c.hostname, c.number, c.vhost)
  BY WrittenMatch
<1> HIDE DEF m
<1>2. /\ m # NoMatch /\ m.login = LoginPart(c) /\ m.host = c.hostname
      /\ m.port = c.number /\ m.path = c.vhost
  BY <1>1 DEF MatchOf, NoMatch
<1> DEFINE password == IF c.user = Guest THEN Guest ELSE c.password
<1>3. LoginOf(m) = <<c.user, password>>
  <2>1. CASE c.user = Guest
    BY <1>2, <2>1 DEF LoginOf, LoginPart
  <2>2. CASE c.user # Guest
    <3>1. PICK u \in Word, p \in Word : c.user = <<u>> /\ c.password = <<p>>
      BY <2>2, ComponentFacts
    <3>2. m.login = <<u>> \o <<":">> \o <<p>> \o <<"@">>
      BY <1>2, <2>2, <3>1 DEF LoginPart
    <3>3. /\ m.login \in Seq(Token) /\ Len(m.login) = 4
          /\ m.login[1] = u /\ m.login[2] = ":" /\ m.login[3] = p
      BY <3>2, LoginPartFacts
    <3>4. LoginOf(m) = <<<<u>>, <<p>>>>
      BY <3>3, LoginSplit
    <3> QED
      BY <2>2, <3>1, <3>4
  <2> QED
    BY <2>1, <2>2
<1> DEFINE port == IF c.number = <<>> THEN DefaultPort ELSE ValueOf[c.number[1]]
<1>4. PortOf(m) = port /\ PortInRange(port)
  <2>1. CASE c.number = <<>>
    BY <1>2, <2>1 DEF PortOf, PortInRange, DefaultPort, MaxPort
  <2>2. CASE c.number # <<>>
    <3>1. PICK n \in Numbers : c.number = <<n>> /\ ValueOf[n] <= MaxPort
      BY <2>2, ComponentFacts
    <3>2. ValueOf[n] \in Nat
      BY AddressAssumption
    <3>3. PortOf(m) = ValueOf[n] /\ port = ValueOf[n]
      BY <1>2, <2>2, <3>1 DEF PortOf, Stoi
    <3> QED
      BY <3>1, <3>2, <3>3 DEF PortInRange
  <2> QED
    BY <2>1, <2>2
<1> HIDE DEF password, port
<1>5. /\ Len(LoginOf(m)) = 2 /\ LoginOf(m)[1] = c.user /\ LoginOf(m)[2] = password
  <2> DEFINE user == c.user
  <2>1. LoginOf(m) = <<user, password>>
    BY <1>3
  <2> HIDE DEF user
  <2>2. Len(<<user, password>>) = 2
    OBVIOUS
  <2>3. <<user, password>>[1] = user /\ <<user, password>>[2] = password
    OBVIOUS
  <2>4. Len(LoginOf(m)) = 2 /\ LoginOf(m)[1] = user /\ LoginOf(m)[2] = password
    BY <2>1, <2>2, <2>3
  <2> QED
    BY <2>4 DEF user
<1>6. t # Empty
  <2>1. Empty.scheme \notin {"amqp", "amqps"}
    BY DEF Empty
  <2> QED
    BY <2>1
<1>7. FromText(t) =
        [state |-> "value", protocol |-> t.scheme, hostname |-> m.host,
         port |-> PortOf(m), vhost |-> m.path,
         user |-> LoginOf(m)[1], password |-> LoginOf(m)[2]]
  BY <1>2, <1>4, <1>5, <1>6 DEF FromText, m
<1> QED
  BY <1>2, <1>4, <1>5, <1>7 DEF ToAddress, password, port

(* Whatever the names, the numbers and the host, the text of an address    *)
(* gives back the components it was written from, and guest and 5672 for   *)
(* those that were left out: they are what the connection is opened with.  *)
THEOREM ComponentsKept == Spec => []RoundTrip
<1>1. AddressInv => RoundTrip
  <2> SUFFICES ASSUME AddressInv, NEW c \in Components,
                      text.scheme \in {"amqp", "amqps"}, text.rest = Written(c), address # Unset
               PROVE  /\ address.state = "value"
                      /\ wire # Unset =>
                           wire = [hostname |-> c.hostname,
                                   port |-> IF c.number = <<>> THEN DefaultPort
                                            ELSE ValueOf[c.number[1]],
                                   user |-> c.user,
                                   password |-> IF c.user = Guest THEN Guest ELSE c.password,
                                   vhost |-> c.vhost]
    BY DEF RoundTrip
  <2>1. /\ text \in Texts /\ address = FromText(text)
        /\ wire # Unset => wire = ToAddress(FromText(text))
    BY DEF AddressInv
  <2> QED
    BY <2>1, WrittenRead
<1> QED
  BY AddressInvariant, <1>1, PTL
=============================================================================
