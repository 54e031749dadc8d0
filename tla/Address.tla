------------------------------- MODULE Address -------------------------------
(***************************************************************************)
(* Address::From (src/amqp_address.cc) and what a connection is told of    *)
(* the address it returns (to_address, src/broker_impl/broker.h).          *)
(*                                                                         *)
(* A text is its scheme and the tokens behind "://".  A token is a run of  *)
(* letters, a number, or one of the characters the regular expression      *)
(* tells apart, of which "blank" is the space; "-" is one of those that it *)
(* does not name.  The expression is matched as the library does it: every *)
(* part takes as much as it can, and gives up something only when the rest *)
(* cannot match.                                                           *)
(***************************************************************************)
EXTENDS Integers, Sequences, FiniteSetsExt, Functions

CONSTANTS
  Names,    \* tokens of letters
  Numbers,  \* tokens of digits
  ValueOf,  \* what std::stoi with base 0 makes of a number
  Texts     \* the texts From is called with

MaxPort == 65535
DefaultPort == 5672
Guest == <<"guest">>

Word == Names \cup Numbers
Token == Word \cup {":", "@", "/", "?", "#", "-", "blank"}

Empty == [scheme |-> "", rest |-> <<>>]

ASSUME AddressAssumption ==
  /\ ValueOf \in [Numbers -> Nat]
  /\ \A t \in Texts : t.rest \in Seq(Token)
  /\ Word \cap {":", "@", "/", "?", "#", "-", "blank"} = {}

VARIABLES
  text,     \* the argument of From
  address,  \* its Result<Address>
  wire      \* the AMQP::Address a connection is opened with

vars == <<text, address, wire>>

Unset == [state |-> "unset"]
Failure(code) == [state |-> "error", code |-> code]

TypeOK ==
  /\ text \in Texts
  /\ \/ address = Unset
     \/ address.state = "error" /\ address.code \in {"PARSE", "EMPTY"}
     \/ address.state = "value" /\ address.port \in 0..MaxPort
  /\ wire = Unset \/ wire.port \in 0..MaxPort

-----------------------------------------------------------------------------
(* The regular expression                                                  *)

(* The first position from i on that does not hold one of class.           *)
EndOfRun(s, i, class) ==
  Min({Len(s) + 1} \cup {j \in i..Len(s) : s[j] \notin class})

At(s, i, t) == i <= Len(s) /\ s[i] = t

(* Mutant of LoginLength: the password is forgotten.                       *)
LoginLengthUserOnly(s) ==
  LET user == EndOfRun(s, 1, Word)
  IN IF user > 1 /\ At(s, user, "@") THEN user ELSE 0

(* How many tokens the group of the login, words around an optional colon  *)
(* and an "@", matches at the beginning of s.                              *)
LoginLength(s) ==
  LET user == EndOfRun(s, 1, Word)
      pass == IF At(s, user, ":") THEN EndOfRun(s, user + 1, Word) ELSE user
  IN IF user > 1 /\ At(s, pass, "@") THEN pass ELSE 0

NoMatch == [state |-> "no match"]

(* The expression behind the login, which has k tokens: a host of other    *)
(* than "/ :", a colon, a port of other than "/ ", and a path up to "?" or *)
(* "#".  The rest matches whatever it is but a space.                      *)
MatchAfter(s, k) ==
  LET host == EndOfRun(s, k + 1, Token \ {"/", "blank", ":"})
      from == IF At(s, host, ":") THEN host + 1 ELSE host
      port == EndOfRun(s, from, Token \ {"/", "blank"})
      path == EndOfRun(s, IF At(s, port, "/") THEN port + 1 ELSE port,
                       Token \ {"blank", "#", "?"})
  IN IF host = k + 1 \/ "blank" \in Range(s) THEN NoMatch
     ELSE [state |-> "match", login |-> SubSeq(s, 1, k),
           host |-> SubSeq(s, k + 1, host - 1), port |-> SubSeq(s, from, port - 1),
           path |-> SubSeq(s, port, path - 1)]

(* The login is optional: it is given up when no host is left behind it.   *)
RegexMatch(s) ==
  IF MatchAfter(s, LoginLength(s)) # NoMatch
  THEN MatchAfter(s, LoginLength(s))
  ELSE MatchAfter(s, 0)

-----------------------------------------------------------------------------
(* Mutant of Split: an empty last part is kept.                            *)
SplitKeepsEmpty(s) ==
  LET colon == EndOfRun(s, 1, Word)
  IN IF colon > Len(s) THEN <<s>>
     ELSE <<SubSeq(s, 1, colon - 1), SubSeq(s, colon + 1, Len(s))>>

(* split( s, ':' ) of a login, which has at most one colon: getline        *)
(* returns no empty last part.                                             *)
Split(s) ==
  LET colon == EndOfRun(s, 1, Word)
  IN IF colon >= Len(s) THEN <<SubSeq(s, 1, colon - 1)>>
     ELSE <<SubSeq(s, 1, colon - 1), SubSeq(s, colon + 1, Len(s))>>

(* std::stoi: a sign, a number, and anything behind it; -1 stands for an   *)
(* exception, which ends in PARSE as a negative number does.               *)
Stoi(s) ==
  IF s[1] \in Numbers THEN ValueOf[s[1]]
  ELSE IF s[1] = "-" /\ Len(s) > 1 /\ s[2] \in Numbers THEN -ValueOf[s[2]]
  ELSE -1

(* Mutant of PortInRange: only negative numbers are refused.               *)
PortInRangeBelow(n) == n >= 0

PortInRange(n) == n >= 0 /\ n <= MaxPort

PortOf(m) == IF m.port = <<>> THEN DefaultPort ELSE Stoi(m.port)

LoginOf(m) ==
  IF m.login = <<>> THEN <<Guest, Guest>>
  ELSE Split(SubSeq(m.login, 1, Len(m.login) - 1))

(* Address::From                                                           *)
FromText(t) ==
  LET m == RegexMatch(t.rest)
  IN IF t = Empty THEN Failure("EMPTY")
     ELSE IF \/ t.scheme \notin {"amqp", "amqps"} \/ m = NoMatch
             \/ ~PortInRange(PortOf(m)) \/ Len(LoginOf(m)) < 2
     THEN Failure("PARSE")
     ELSE [state |-> "value", protocol |-> t.scheme, hostname |-> m.host,
           port |-> PortOf(m), vhost |-> m.path,
           user |-> LoginOf(m)[1], password |-> LoginOf(m)[2]]

(* get_protocol does not look at the protocol that From stored.            *)
get_protocol(a) == "amqp"

(* The caller tests the result before it uses it.  to_address and to_login *)
(* pass on everything but the protocol: an amqps address is connected to   *)
(* as the amqp one.                                                        *)
ToAddress(a) ==
  [hostname |-> a.hostname, port |-> a.port, user |-> a.user,
   password |-> a.password, vhost |-> a.vhost]

-----------------------------------------------------------------------------
Init ==
  /\ text \in Texts
  /\ address = Unset
  /\ wire = Unset

From ==
  /\ address = Unset
  /\ address' = FromText(text)
  /\ UNCHANGED <<text, wire>>

Connect ==
  /\ address # Unset /\ address.state = "value"
  /\ wire = Unset
  /\ wire' = ToAddress(address)
  /\ UNCHANGED <<text, address>>

Next == From \/ Connect

Spec == Init /\ [][Next]_vars
-----------------------------------------------------------------------------
(* Properties                                                              *)

(* A text written from a user, a password, a host, a port and a virtual    *)
(* host gives them back, under both schemes: they are what the connection  *)
(* is opened with, and where login or port are left out, guest and 5672.   *)
Written(c) ==
  (IF c.user = Guest THEN <<>> ELSE c.user \o <<":">> \o c.password \o <<"@">>)
    \o c.hostname
    \o (IF c.number = <<>> THEN <<>> ELSE <<":">> \o c.number)
    \o c.vhost

Components ==
  [user : {Guest} \cup {<<x>> : x \in Names},
   password : {<<x>> : x \in Word},
   hostname : {<<x>> : x \in Word}
                \cup {<<x, "-", y>> : x \in Names, y \in Names},
   number : {<<>>} \cup {<<x>> : x \in {n \in Numbers : ValueOf[n] <= MaxPort}},
   vhost : {<<>>, <<"/">>} \cup {<<"/", x>> : x \in Names}]

RoundTrip ==
  (text.scheme \in {"amqp", "amqps"} /\ address # Unset) =>
    \A c \in Components : text.rest = Written(c) =>
      /\ address.state = "value"
      /\ wire # Unset =>
           wire = [hostname |-> c.hostname,
                   port |-> IF c.number = <<>> THEN DefaultPort
                            ELSE ValueOf[c.number[1]],
                   user |-> c.user,
                   password |-> IF c.user = Guest THEN Guest ELSE c.password,
                   vhost |-> c.vhost]

(* Whatever text was accepted, the connection is opened with a host that   *)
(* no delimiter is left in, a user and a password that are not empty, and  *)
(* a virtual host that is empty or a path.                                 *)
Usable ==
  wire # Unset =>
    /\ wire.hostname # <<>> /\ Range(wire.hostname) \cap {"/", ":", "blank"} = {}
    /\ wire.user # <<>> /\ wire.password # <<>>
    /\ wire.vhost = <<>>
         \/ (wire.vhost[1] = "/" /\ Range(wire.vhost) \cap {"?", "#", "blank"} = {})

(* get_protocol gives the protocol of the url, as amqp_address.h says: the *)
(* scheme the accepted text began with.                                    *)
ProtocolOfUrl ==
  (address # Unset /\ address.state = "value") => get_protocol(address) = text.scheme
=============================================================================
