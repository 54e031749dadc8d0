------------------------------ MODULE MCAddress ------------------------------
(* All short texts over the tokens, and longer ones put together from the  *)
(* parts an address may have, some of them missing or malformed.           *)
EXTENDS Address, SequencesExt

Letters == {"u", "h"}
Digits == {"5671", "010", "70000"}
Values == [n \in Digits |-> CASE n = "5671" -> 5671
                              [] n = "010" -> 8
                              [] n = "70000" -> 70000]

(* Two numbers in a row are one number. *)
Proper(s) == \A i \in 1..(Len(s) - 1) : ~(s[i] \in Digits /\ s[i + 1] \in Digits)

Short ==
  {s \in BoundedSeq(Letters \cup {"5671", "70000", ":", "@", "/", "?", "-"}, 4) :
     Proper(s)}

Logins == {<<>>, <<"u", "@">>, <<"u", ":", "@">>, <<"u", ":", "h", "@">>,
           <<"u", ":", "5671", "@">>, <<"u", ":", "5671", "-", "@">>}
Hosts == {<<>>, <<"h">>, <<"h", "-", "u">>, <<"5671">>}
Ports == {<<>>, <<":">>, <<":", "5671">>, <<":", "010">>, <<":", "70000">>,
          <<":", "-", "5671">>, <<":", "5671", "u">>, <<":", "u">>}
Paths == {<<>>, <<"/">>, <<"/", "h">>, <<"/", "h", "/", "u">>, <<"blank">>}
Queries == {<<>>, <<"?", "u">>, <<"#", "h">>, <<"?", "u", "#", "h">>}

Long == {l \o h \o p \o v \o q : l \in Logins, h \in Hosts, p \in Ports,
                                 v \in Paths, q \in Queries}

AllTexts ==
  {Empty}
    \cup [scheme : {"amqp"}, rest : Short \cup Long]
    \cup [scheme : {"amqps"}, rest : Long]
    \cup [scheme : {"amq", "http"}, rest : {l \o <<"h">> : l \in Logins}]
=============================================================================
