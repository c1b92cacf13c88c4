--------------------------- MODULE DistccRpcProofs --------------------------
(***************************************************************************)
(* The proof that DistccRpc implements DistccRemote, for any protocol, any *)
(* files and any number of failures: nothing that breaks, is missing or    *)
(* comes short makes the client report what the compiler has not done, or  *)
(* take for an object what is not a whole one.  Then that the scripts of   *)
(* the two ends agree, and the same of a request within a session, after   *)
(* the checks and the handshake of DistccSession.                          *)
(***************************************************************************)
EXTENDS DistccSession, SequenceTheorems, TLAPS

----------------------------------------------------------------------------
(* The inductive invariant.                                                *)

Tokens == {"DIST", "CDIR", "ARGV", "NFIL", "FILE", "LINK", "DOTI",
           "DONE", "STAT", "SERR", "SOUT", "DOTO", "DOTD", "?", "*", "TLEN", "NOTE"}

\* What the two ends exchange before a request.
Greetings == {"*", "TLEN", "NOTE", "?"}

Element == [tok : Tokens, body : Tokens \cup {"short", "zero", "ok", "fail", "y", "n"}]

\* The token of the answer the client waits for.
Place == IF cpc = "recv" THEN cat ELSE 1

TypeInv ==
    /\ ver \in {1, 2, 3} /\ c2s \in Seq(Element) /\ s2c \in Seq(Element)
    /\ cpc \in {"send", "recv", "done"} /\ cstatus \in {"ok", "fail", "cpp"}
    /\ cret \in {"none", "ok", "error"} /\ (cpc = "done" => cret # "none")
    /\ Place \in 1..6 /\ (cpc = "send" => cat \in 1..Len(Sends))
    /\ spc \in {"recv", "check", "cc", "reply", "done"}
    /\ spc = "recv" => sat \in 1..Len(Expects)
    /\ spc \in {"check", "cc"} => sat = 1
    /\ spc = "reply" => sat \in 1..6
    /\ compiled \in {"no", "ok", "fail"} /\ sret \in {"ok", "error"}

\* The client waits for a token, or for one before it, that will not come.
Missing(p) ==
    /\ Place <= p
    /\ \A i \in 1..Len(s2c) : s2c[i].tok # Reply[p]
    /\ spc = "reply" => p < sat

\* The answer is sent in order, once the compiler has ended, and the object
\* stands in for what failed only if the client will not get as far as that.
ReplyInv ==
    /\ spc \in {"recv", "check", "cc"} => compiled = "no"
    /\ compiled = "no" => spc # "reply" /\ s2c = <<>> /\ Place = 1 /\ sret = "ok"
    /\ sret = "error" => \E p \in 1..4 : Missing(p)
    /\ spc = "reply" =>
          /\ Place <= sat
          /\ \A i \in 1..Len(s2c), p \in 1..6 : s2c[i].tok = Reply[p] => p < sat

\* What is under way.
ContentInv ==
    \A i \in 1..Len(s2c) :
        /\ s2c[i].tok = "STAT" => s2c[i].body = compiled
        /\ s2c[i].tok = "DOTO" =>
              /\ compiled = "ok" /\ sret = "ok" => s2c[i].body \in {"DOTO", "short"}
              /\ ~CppOnServer => i = Len(s2c) /\ spc = "done"

\* What the client has of the answer.
ClientInv ==
    /\ cpc = "send" => output = "old"
    /\ cpc = "recv" =>
          /\ cat > 2 => cstatus = compiled
          /\ cat < 6 => output = "old"
          /\ cat = 6 => output = "object" /\ compiled = "ok"

\* The source has not been sent, so that the compiler cannot be started.
Unasked ==
    /\ ~CppOnServer /\ spc \in {"recv", "done"} /\ compiled = "no"
    /\ \A i \in 1..Len(c2s) : c2s[i].tok # "DOTI"

RequestInv ==
    /\ cpc = "send" /\ ~CppOnServer => Unasked
    /\ cpc = "done" /\ cret = "ok" => IF cstatus = "cpp" THEN Unasked ELSE compiled # "no"

RpcInv == TypeInv /\ ReplyInv /\ ContentInv /\ ClientInv /\ RequestInv

----------------------------------------------------------------------------
(* Channels.                                                               *)

LEMMA ReplyTokens ==
    /\ Reply[1] = "DONE" /\ Reply[2] = "STAT" /\ Reply[3] = "SERR"
    /\ Reply[4] = "SOUT" /\ Reply[5] = "DOTO" /\ Reply[6] = "DOTD"
BY DEF Reply

LEMMA ReplyOnce ==
    ASSUME NEW p \in 1..6, NEW q \in 1..6, Reply[p] = Reply[q]
    PROVE  p = q
BY ReplyTokens

LEMMA ReplyPlaces ==
    ASSUME NEW p \in 1..6
    PROVE  (Reply[p] = "STAT" => p = 2) /\ (Reply[p] = "DOTO" => p = 5)
BY ReplyTokens

LEMMA Appended ==
    ASSUME NEW ch \in Seq(Element), NEW e \in Element
    PROVE  /\ Append(ch, e) \in Seq(Element)
           /\ Len(Append(ch, e)) = Len(ch) + 1 /\ Len(ch) \in Nat
           /\ \A i \in 1..Len(ch) : Append(ch, e)[i] = ch[i]
           /\ Append(ch, e)[Len(ch) + 1] = e
OBVIOUS

\* What is left of a channel: its end, after a part of one element at most.
RestOf(ch, rest) ==
    /\ rest \in Seq(Element) /\ Len(rest) <= Len(ch)
    /\ \A i \in 1..Len(rest) :
          \/ rest[i].tok = "?"
          \/ \E j \in 1..Len(ch) : rest[i] = ch[j] /\ Len(ch) - j = Len(rest) - i

LEMMA GarbledIs == Garbled \in Element /\ Garbled.tok = "?"
BY DEF Garbled, Element, Tokens

LEMMA SuffixRest ==
    ASSUME NEW ch \in Seq(Element), NEW n \in 1..Len(ch)
    PROVE  /\ RestOf(ch, SubSeq(ch, n + 1, Len(ch)))
           /\ RestOf(ch, <<Garbled>> \o SubSeq(ch, n + 1, Len(ch)))
<1> DEFINE s == SubSeq(ch, n + 1, Len(ch))
           g == <<Garbled>> \o s
<1>1. Len(ch) \in Nat /\ n \in Nat /\ n <= Len(ch)
  OBVIOUS
<1>2. s \in Seq(Element) /\ Len(s) = Len(ch) - n
      /\ \A i \in 1..Len(s) : s[i] = ch[n + i]
  BY <1>1
<1>3. RestOf(ch, s)
  <2> SUFFICES ASSUME NEW i \in 1..Len(s)
               PROVE  \E j \in 1..Len(ch) : s[i] = ch[j] /\ Len(ch) - j = Len(s) - i
    BY <1>2 DEF RestOf
  <2>1. n + i \in 1..Len(ch) /\ s[i] = ch[n + i] /\ Len(ch) - (n + i) = Len(s) - i
    <3> HIDE DEF s
    <3> QED BY <1>1, <1>2
  <2> QED BY <2>1
<1>4. g \in Seq(Element) /\ Len(g) = Len(s) + 1 /\ g[1] = Garbled
      /\ \A i \in 1..Len(g) : i > 1 => g[i] = s[i - 1]
  <2> HIDE DEF s
  <2>1. <<Garbled>> \in Seq(Element) /\ Len(<<Garbled>>) = 1 /\ <<Garbled>>[1] = Garbled
    BY GarbledIs
  <2>2. /\ g \in Seq(Element) /\ Len(g) = 1 + Len(s)
        /\ \A i \in 1..1 + Len(s) : g[i] = IF i <= 1 THEN <<Garbled>>[i] ELSE s[i - 1]
    BY <1>2, <2>1, ConcatProperties, ZenonT(60)
  <2>3. Len(s) \in Nat
    BY <1>1, <1>2
  <2> HIDE DEF g
  <2> QED BY <2>1, <2>2, <2>3
<1>5. RestOf(ch, g)
  <2> SUFFICES ASSUME NEW i \in 1..Len(g), i # 1
               PROVE  \E j \in 1..Len(ch) : g[i] = ch[j] /\ Len(ch) - j = Len(g) - i
    BY <1>4, GarbledIs, SMTT(30) DEF RestOf
  <2> HIDE DEF s, g
  <2>1. i - 1 \in 1..Len(s) /\ g[i] = s[i - 1] /\ Len(s) - (i - 1) = Len(g) - i
    BY <1>2, <1>4
  <2>2. PICK j \in 1..Len(ch) : s[i - 1] = ch[j] /\ Len(ch) - j = Len(s) - (i - 1)
    <3>1. n + (i - 1) \in 1..Len(ch) /\ s[i - 1] = ch[n + (i - 1)]
          /\ Len(ch) - (n + (i - 1)) = Len(s) - (i - 1)
      BY <1>1, <1>2, <2>1, SMTT(30)
    <3> QED BY <3>1
  <2> QED BY <2>1, <2>2
<1> QED BY <1>3, <1>5

\* The outcomes of reading an element.
LEMMA TakeOutcome ==
    ASSUME NEW ch \in Seq(Element), NEW closed, NEW want, NEW compr,
           NEW r \in Take(ch, closed, want, compr)
    PROVE  /\ RestOf(ch, r.chan)
           /\ r.tok \in BOOLEAN
           /\ r.tok => /\ 1 \in 1..Len(ch) /\ ch[1].tok = want
                       /\ \/ r.body = ch[1].body /\ ch[1].body # "short"
                          \/ ch[1].body = "short" /\ r.body = "none"
                          \/ /\ ch[1].body = "short" /\ r.body = "mixed"
                             /\ ~compr /\ Len(ch) >= 2
<1>1. CASE ch = <<>>
  <2>1. r = Got(FALSE, "none", ch)
    BY <1>1 DEF Take
  <2> QED BY <1>1, <2>1 DEF Got, RestOf
<1>2. CASE ch # <<>>
  <2>1. Len(ch) \in Nat \ {0} /\ 1 \in 1..Len(ch) /\ Head(ch) = ch[1]
    BY <1>2
  <2>2. CASE ch[1].tok # want
    <3>1. r = Got(FALSE, "none", ch)
      BY <1>2, <2>1, <2>2 DEF Take
    <3>2. RestOf(ch, ch)
      BY DEF RestOf
    <3> QED BY <3>1, <3>2 DEF Got
  <2>3. CASE ch[1].tok = want /\ ch[1].body # "short"
    <3>1. r = Got(TRUE, ch[1].body, Tail(ch))
      BY <1>2, <2>1, <2>3 DEF Take
    <3>2. Tail(ch) = SubSeq(ch, 1 + 1, Len(ch))
      BY <1>2
    <3>3. RestOf(ch, Tail(ch))
      BY <2>1, <3>2, SuffixRest
    <3> QED BY <2>1, <2>3, <3>1, <3>3 DEF Got
  <2>4. CASE ch[1].tok = want /\ ch[1].body = "short"
    <3> DEFINE filled == IF compr THEN "none" ELSE "mixed"
    <3>1. \/ \E n \in 2..Len(ch) : r = Got(TRUE, filled, SubSeq(ch, n + 1, Len(ch)))
          \/ \E n \in 2..Len(ch) :
                r = Got(TRUE, filled, <<Garbled>> \o SubSeq(ch, n + 1, Len(ch)))
          \/ r = Got(TRUE, "none", <<>>)
      BY <1>2, <2>1, <2>4 DEF Take
    <3>2. RestOf(ch, <<>>)
      BY DEF RestOf
    <3>3. CASE r = Got(TRUE, "none", <<>>)
      BY <2>1, <2>4, <3>2, <3>3 DEF Got
    <3>4. ASSUME NEW n \in 2..Len(ch), NEW rest,
                 r = Got(TRUE, filled, rest),
                 rest \in {SubSeq(ch, n + 1, Len(ch)),
                          <<Garbled>> \o SubSeq(ch, n + 1, Len(ch))}
          PROVE  /\ RestOf(ch, r.chan) /\ r.tok = TRUE /\ Len(ch) >= 2
                 /\ r.body = filled
      <4>1. n \in 1..Len(ch) /\ Len(ch) >= 2
        BY <2>1, <3>4
      <4>2. RestOf(ch, rest)
        BY <3>4, <4>1, SuffixRest
      <4> QED BY <3>4, <4>1, <4>2 DEF Got
    <3> QED BY <2>1, <2>4, <3>1, <3>3, <3>4
  <2> QED BY <2>2, <2>3, <2>4
<1> QED BY <1>1, <1>2

\* The outcomes of sending one: it is in the channel or it is not.
LEMMA PutOutcome ==
    ASSUME NEW ch, NEW open, NEW tok, NEW body, NEW r \in Put(ch, open, tok, body)
    PROVE  /\ r.ok \in BOOLEAN /\ r.fault = 0
           /\ r.chan = ch \/ r.chan = Append(ch, [tok |-> tok, body |-> body])
           /\ ~r.ok => r.chan = ch
<1>1. \/ r = Sent(TRUE, Append(ch, [tok |-> tok, body |-> body]), 0)
      \/ \E ok \in BOOLEAN : r = Sent(ok, ch, 0)
  BY DEF Put
<1>2. CASE r = Sent(TRUE, Append(ch, [tok |-> tok, body |-> body]), 0)
  BY <1>2 DEF Sent
<1>3. ASSUME NEW ok \in BOOLEAN, r = Sent(ok, ch, 0)
      PROVE  r.ok \in BOOLEAN /\ r.fault = 0 /\ r.chan = ch
  BY <1>3 DEF Sent
<1> QED BY <1>1, <1>2, <1>3

LEMMA PutFileOutcome ==
    ASSUME NEW ch, NEW open, NEW tok, NEW compr, NEW r \in PutFile(ch, open, tok, compr)
    PROVE  /\ r.ok \in BOOLEAN
           /\ \/ r.chan = ch
              \/ r.chan = Append(ch, [tok |-> tok, body |-> tok])
              \/ r.chan = Append(ch, [tok |-> tok, body |-> "short"])
           /\ ~r.ok => r.chan = ch
<1>1. \/ r \in Put(ch, open, tok, tok)
      \/ r = Sent(FALSE, ch, 1) \/ r = Sent(TRUE, ch, 1)
      \/ \E q \in Put(ch, open, tok, "short") : r = Sent(TRUE, q.chan, 1)
  BY DEF PutFile
<1>2. CASE r \in Put(ch, open, tok, tok)
  BY <1>2, PutOutcome
<1>3. ASSUME NEW q \in Put(ch, open, tok, "short"), r = Sent(TRUE, q.chan, 1)
      PROVE  /\ r.ok = TRUE
             /\ r.chan = ch \/ r.chan = Append(ch, [tok |-> tok, body |-> "short"])
  BY <1>3, PutOutcome DEF Sent
<1>4. CASE r = Sent(FALSE, ch, 1)
  BY <1>4 DEF Sent
<1>5. CASE r = Sent(TRUE, ch, 1)
  BY <1>5 DEF Sent
<1> QED BY <1>1, <1>2, <1>3, <1>4, <1>5

\* What a broken connection still delivers.
LEMMA PartOutcome ==
    ASSUME NEW ch \in Seq(Element), NEW part \in PartsOf(ch)
    PROVE  /\ part \in Seq(Element)
           /\ Len(part) <= Len(ch)
           /\ \A i \in 1..Len(part) :
                 /\ part[i].tok = ch[i].tok
                 /\ \/ part[i].body = ch[i].body
                    \/ part[i].body = "short" /\ ch[i].tok # "STAT"
<1>1. PICK n \in 0..Len(ch) :
        \/ part = SubSeq(ch, 1, n)
        \/ /\ n \in 1..Len(ch) /\ ch[n].tok \notin NoBody
           /\ part = [SubSeq(ch, 1, n) EXCEPT ![n].body = "short"]
  BY DEF PartsOf
<1> DEFINE s == SubSeq(ch, 1, n)
<1>2. Len(ch) \in Nat /\ n \in Nat /\ n <= Len(ch)
  OBVIOUS
<1>3. s \in Seq(Element) /\ Len(s) = n /\ \A i \in 1..n : s[i] = ch[i]
  BY <1>2
<1>4. CASE part = s
  <2> HIDE DEF s
  <2> QED BY <1>2, <1>3, <1>4
<1>5. CASE /\ n \in 1..Len(ch) /\ ch[n].tok \notin NoBody
           /\ part = [s EXCEPT ![n].body = "short"]
  <2> HIDE DEF s
  <2> DEFINE e == [s[n] EXCEPT !.body = "short"]
  <2>1. s[n] \in Element /\ s[n] = ch[n]
    BY <1>3, <1>5
  <2>2. e \in Element /\ e.tok = ch[n].tok /\ e.body = "short"
    BY <2>1 DEF Element, Tokens
  <2>3. part = [s EXCEPT ![n] = e]
    BY <1>5
  <2>4. ch[n].tok # "STAT"
    BY <1>5 DEF NoBody
  <2> HIDE DEF e
  <2>5. part \in Seq(Element) /\ Len(part) = n /\ part[n] = e
        /\ \A i \in 1..n : i # n => part[i] = s[i]
    <3>1. n \in 1..Len(s)
      BY <1>3, <1>5
    <3>2. /\ [s EXCEPT ![n] = e] \in Seq(Element)
          /\ Len([s EXCEPT ![n] = e]) = Len(s)
          /\ \A j \in 1..Len(s) : [s EXCEPT ![n] = e][j] = IF j = n THEN e ELSE s[j]
      BY <1>3, <2>2, <3>1, ExceptSeq
    <3> QED BY <1>3, <2>3, <3>1, <3>2
  <2> QED BY <1>2, <1>3, <2>2, <2>4, <2>5
<1> QED BY <1>1, <1>4, <1>5

----------------------------------------------------------------------------
(* The scripts.                                                            *)

LEMMA PumpScript ==
    LET s == <<"DIST", "CDIR", "ARGV", "NFIL">> \o Files
    IN  /\ Len(s) \in Nat /\ Len(s) >= 3
        /\ \A i \in 1..Len(s) : s[i] \in Tokens \ Greetings /\ s[i] # "DOTI"
<1> DEFINE S == {"DIST", "CDIR", "ARGV", "NFIL", "FILE", "LINK"}
           h == <<"DIST", "CDIR", "ARGV", "NFIL">>
           s == h \o Files
<1>1. h \in Seq(S) /\ Len(h) = 4
  OBVIOUS
<1>2. Files \in Seq(S) /\ Len(Files) \in Nat
  <2>1. {"FILE", "LINK"} \subseteq S
    OBVIOUS
  <2> HIDE DEF S
  <2>2. Files \in Seq(S)
    BY <2>1, FilesAssumption, SeqMonotonic
  <2> QED BY <2>2, LenProperties
<1>3. s \in Seq(S) /\ Len(s) = 4 + Len(Files)
  <2> HIDE DEF S, h
  <2>1. h \o Files \in Seq(S) /\ Len(h \o Files) = Len(h) + Len(Files)
    BY <1>1, <1>2, ConcatProperties
  <2> QED BY <1>1, <1>2, <2>1
<1>4. \A i \in 1..Len(s) : s[i] \in S
  <2> HIDE DEF S, s
  <2> QED BY <1>3, ElementOfSeq
<1>5. \A x \in S : x \in Tokens \ Greetings /\ x # "DOTI"
  BY DEF Tokens, Greetings
<1> HIDE DEF S
<1>6. Len(s) \in Nat /\ Len(s) >= 3
  BY <1>2, <1>3
<1> QED BY <1>4, <1>5, <1>6

LEMMA Scripts ==
    /\ Expects = Sends
    /\ Len(Sends) \in Nat /\ Len(Sends) >= 3
    /\ \A i \in 1..Len(Sends) : Sends[i] \in Tokens /\ Sends[i] \notin Greetings
    /\ ~CppOnServer => /\ Len(Sends) = 3
                       /\ Sends[1] # "DOTI" /\ Sends[2] # "DOTI" /\ Sends[3] = "DOTI"
    /\ CppOnServer => \A i \in 1..Len(Sends) : Sends[i] # "DOTI"
<1>1. Expects = Sends
  BY DEF Expects, Sends
<1>2. CASE CppOnServer
  <2>1. Sends = <<"DIST", "CDIR", "ARGV", "NFIL">> \o Files
    BY <1>2 DEF Sends
  <2> QED BY <1>1, <1>2, <2>1, PumpScript
<1>3. CASE ~CppOnServer
  <2>1. Sends = <<"DIST", "ARGV", "DOTI">>
    BY <1>3 DEF Sends
  <2>2. /\ Len(Sends) = 3 /\ Sends[1] = "DIST" /\ Sends[2] = "ARGV" /\ Sends[3] = "DOTI"
    BY <2>1
  <2>3. \A i \in 1..3 : i = 1 \/ i = 2 \/ i = 3
    OBVIOUS
  <2> QED BY <1>1, <1>3, <2>2, <2>3 DEF Tokens, Greetings
<1> QED BY <1>2, <1>3

LEMMA NewElement ==
    ASSUME NEW t \in Tokens, NEW b \in Tokens \cup {"short", "zero", "ok", "fail", "y", "n"}
    PROVE  LET e == [tok |-> t, body |-> b]
           IN  e \in Element /\ e.tok = t /\ e.body = b
BY DEF Element

----------------------------------------------------------------------------
(* What the steps of each part amount to.                                  *)

\* The client sends an element, or gives up sending.
ClientSends ==
    /\ cpc = "send"
    /\ UNCHANGED <<ver, s2c, up, output, spc, sat, compiled, sret>>
    /\ \/ c2s' = c2s
       \/ \E e \in Element : c2s' = Append(c2s, e) /\ e.tok = Sends[cat]
    /\ \/ cpc' = "send" /\ cat < Len(Sends) /\ cat' = cat + 1 /\ UNCHANGED <<cret, cstatus>>
       \/ cpc' = "recv" /\ cat' = 1 /\ UNCHANGED <<cret, cstatus>>
       \/ cpc' = "done" /\ cret' = "error" /\ UNCHANGED cstatus
       \/ /\ cpc' = "done" /\ cret' = "ok" /\ cstatus' = "cpp"
          /\ Sends[cat] = "DOTI" /\ c2s' = c2s

LEMMA SentOne ==
    ASSUME TypeInv, cpc = "send",
           NEW r, r.chan = c2s \/ \E b \in Tokens \cup {"short"} :
                      r.chan = Append(c2s, [tok |-> Sends[cat], body |-> b]),
           UNCHANGED <<ver, s2c, up, output, spc, sat, compiled, sret, cstatus>>,
           ClientSent(r) \/ ClientFails(r)
    PROVE  ClientSends
<1>1. cat \in 1..Len(Sends) /\ Sends[cat] \in Tokens
  BY Scripts DEF TypeInv
<1>2. \/ c2s' = c2s
      \/ \E e \in Element : c2s' = Append(c2s, e) /\ e.tok = Sends[cat]
  <2>1. c2s' = r.chan
    BY DEF ClientSent, ClientFails
  <2>2. ASSUME NEW b \in Tokens \cup {"short"},
               r.chan = Append(c2s, [tok |-> Sends[cat], body |-> b])
        PROVE  \E e \in Element : c2s' = Append(c2s, e) /\ e.tok = Sends[cat]
    BY <1>1, <2>1, <2>2, NewElement
  <2> QED BY <2>1, <2>2
<1>3. \/ cpc' = "send" /\ cat < Len(Sends) /\ cat' = cat + 1 /\ cret' = cret
      \/ cpc' = "recv" /\ cat' = 1 /\ cret' = cret
      \/ cpc' = "done" /\ cret' = "error"
  BY DEF ClientSent, ClientFails, ClientEnds
<1> QED BY <1>2, <1>3 DEF ClientSends

LEMMA SendingSteps ==
    ASSUME TypeInv, SendToken \/ SendSource \/ NoWorkingDirectory \/ LocalFailure \/ CppFails
    PROVE  ClientSends
<1>1. ASSUME cpc = "send" PROVE Sends[cat] \in Tokens
  BY <1>1, Scripts DEF TypeInv
<1>2. CASE SendToken
  <2>1. PICK r \in Put(c2s, ServerOpen, Sends[cat], Sends[cat]) :
            ClientSent(r) \/ ClientFails(r)
    BY <1>2 DEF SendToken
  <2>2. r.chan = c2s \/ r.chan = Append(c2s, [tok |-> Sends[cat], body |-> Sends[cat]])
    BY PutOutcome
  <2> QED BY <1>1, <1>2, <2>1, <2>2, SentOne DEF SendToken, request, server
<1>3. CASE SendSource
  <2> DEFINE compr == Sends[cat] = "DOTI" /\ Compressed
  <2>1. PICK r \in PutFile(c2s, ServerOpen, Sends[cat], compr) :
            ClientSent(r) \/ ClientFails(r)
    BY <1>3 DEF SendSource
  <2> HIDE DEF compr
  <2>2. \/ r.chan = c2s
        \/ r.chan = Append(c2s, [tok |-> Sends[cat], body |-> Sends[cat]])
        \/ r.chan = Append(c2s, [tok |-> Sends[cat], body |-> "short"])
    BY PutFileOutcome
  <2> QED BY <1>1, <1>3, <2>1, <2>2, SentOne DEF SendSource, request, server
<1>4. CASE NoWorkingDirectory
  <2> DEFINE r == Sent(TRUE, c2s, 1)
  <2>1. r.chan = c2s
    BY DEF Sent
  <2>2. ClientSent(r)
    BY <1>4 DEF NoWorkingDirectory
  <2> HIDE DEF r
  <2> QED BY <1>4, <2>1, <2>2, SentOne DEF NoWorkingDirectory, request, server
<1>5. CASE LocalFailure
  <2> DEFINE r == Sent(FALSE, c2s, 1)
  <2>1. r.chan = c2s
    BY DEF Sent
  <2>2. ClientFails(r)
    BY <1>5 DEF LocalFailure
  <2> HIDE DEF r
  <2> QED BY <1>5, <2>1, <2>2, SentOne DEF LocalFailure, request, server
<1>6. CASE CppFails
  BY <1>6 DEF CppFails, ClientEnds, ClientSends, request, server
<1> QED BY <1>2, <1>3, <1>4, <1>5, <1>6

\* The client reads an element it has waited for, or the exchange ends for it.
ClientReads ==
    /\ cpc = "recv"
    /\ UNCHANGED <<ver, c2s, spc, sat, compiled, sret>>
    /\ RestOf(s2c, s2c')
    /\ \/ /\ cpc' = "recv" /\ cat < 6 /\ cat' = cat + 1 /\ UNCHANGED cret
          /\ Len(s2c) >= 1 /\ s2c[1].tok = Reply[cat]
          /\ IF cat = 1 THEN UNCHANGED cstatus ELSE cstatus' = compiled /\ compiled # "no"
          /\ IF cat = 5 THEN output' = "object" /\ compiled = "ok" ELSE output' = "old"
       \/ /\ cpc' = "done" /\ cret' = "error" /\ UNCHANGED cstatus
          /\ output' \in {"old", "gone"} \/ (compiled = "ok" /\ output' = "object")
       \/ /\ cpc' = "done" /\ cret' = "ok" /\ cstatus' = compiled
          /\ \/ compiled = "ok" /\ output' = "object" /\ cat' \in 5..6
             \/ compiled = "fail" /\ output' = "old"
             \/ LogsErrors /\ cat' = 3 /\ compiled = "ok" /\ output' = "old"

\* A token that has come, with what the server knows of it.
LEMMA ReplyTaken ==
    ASSUME RpcInv, cpc = "recv", NEW r \in TakeReply
    PROVE  /\ RestOf(s2c, r.chan)
           /\ r.tok \in BOOLEAN
           /\ r.tok => /\ Len(s2c) >= 1 /\ s2c[1].tok = Reply[cat]
                       /\ compiled \in {"ok", "fail"}
                       /\ cat = 2 => r.body = compiled
                       /\ cat = 5 /\ compiled = "ok" => r.body \in {"DOTO", "none"}
<1> USE DEF RpcInv
<1>1. s2c \in Seq(Element) /\ cat \in 1..6
  BY DEF TypeInv, Place
<1> DEFINE closed == ~ServerOpen \/ ~up
<1>2. r \in Take(s2c, closed, Reply[cat], Compressed)
  BY DEF TakeReply
<1> HIDE DEF closed
<1>3. /\ RestOf(s2c, r.chan) /\ r.tok \in BOOLEAN
      /\ r.tok => /\ 1 \in 1..Len(s2c) /\ s2c[1].tok = Reply[cat]
                  /\ \/ r.body = s2c[1].body /\ s2c[1].body # "short"
                     \/ s2c[1].body = "short" /\ r.body = "none"
                     \/ /\ s2c[1].body = "short" /\ r.body = "mixed"
                        /\ ~Compressed /\ Len(s2c) >= 2
  BY <1>1, <1>2, TakeOutcome
<1>4. ASSUME r.tok
      PROVE  /\ compiled \in {"ok", "fail"}
             /\ cat = 2 => r.body = compiled
             /\ cat = 5 /\ compiled = "ok" => r.body \in {"DOTO", "none"}
  <2>1. s2c # <<>> /\ Len(s2c) \in Nat /\ Len(s2c) >= 1
    BY <1>1, <1>3, <1>4
  <2>2. compiled \in {"ok", "fail"}
    BY <2>1 DEF ReplyInv, TypeInv
  <2>3. CASE cat = 2
    <3>1. s2c[1].body = compiled
      BY <1>3, <1>4, <2>3, ReplyTokens DEF ContentInv
    <3> QED BY <1>3, <1>4, <2>2, <2>3, <3>1
  <2>4. CASE cat = 5 /\ compiled = "ok"
    <3>1. sret = "ok"
      <4>1. ASSUME NEW p \in 1..4, Missing(p) PROVE FALSE
        BY <2>4, <4>1 DEF Missing, Place
      <4> QED BY <4>1 DEF ReplyInv, TypeInv
    <3>2. s2c[1].body \in {"DOTO", "short"} /\ (~CppOnServer => 1 = Len(s2c))
      BY <1>3, <1>4, <2>4, <3>1, ReplyTokens DEF ContentInv
    <3>3. CppOnServer => Compressed
      BY DEF CppOnServer, Compressed, TypeInv
    <3>4. ~(~Compressed /\ Len(s2c) >= 2)
      <4>1. CASE CppOnServer
        BY <3>3, <4>1
      <4>2. CASE ~CppOnServer
        <5>1. Len(s2c) = 1
          BY <3>2, <4>2
        <5> QED BY <5>1
      <4> QED BY <4>1, <4>2
    <3> QED BY <1>3, <1>4, <2>4, <3>2, <3>4
  <2> QED BY <2>2, <2>3, <2>4
<1> QED BY <1>1, <1>3, <1>4

LEMMA SameRest ==
    ASSUME NEW ch \in Seq(Element)
    PROVE  RestOf(ch, ch)
BY DEF RestOf

LEMMA ReadingSteps ==
    ASSUME RpcInv,
           \/ ReadDone \/ ReadStatus \/ ReadMessages \/ ReadObject \/ ReadDeps
           \/ ClientTimesOut \/ LogFails \/ StoreFails
    PROVE  ClientReads
<1>1. ASSUME cpc = "recv"
      PROVE  /\ cat \in 1..6 /\ RestOf(s2c, s2c) /\ compiled \in {"no", "ok", "fail"}
             /\ cat > 2 => cstatus = compiled
             /\ cat < 6 => output = "old"
             /\ cat = 6 => output = "object" /\ compiled = "ok"
  BY <1>1, SameRest DEF RpcInv, TypeInv, Place, ClientInv
<1> DEFINE Stays == UNCHANGED <<ver, c2s, spc, sat, compiled, sret>>
<1>2. CASE ReadDone
  <2>1. cpc = "recv" /\ cat = 1 /\ Stays /\ UNCHANGED <<cstatus, output>>
    BY <1>1, <1>2, ReplyTokens, ReplyOnce DEF ReadDone, Reading, request, server
  <2>2. PICK r \in TakeReply :
          /\ s2c' = r.chan
          /\ IF r.tok THEN NextToken ELSE ClientEnds("error")
    BY <1>2 DEF ReadDone
  <2> QED BY <1>1, <2>1, <2>2, ReplyTaken DEF ClientReads, NextToken, ClientEnds
<1>3. CASE ReadStatus
  <2>1. cpc = "recv" /\ cat = 2 /\ Stays /\ UNCHANGED output
    BY <1>1, <1>3, ReplyTokens, ReplyOnce DEF ReadStatus, Reading, request, server
  <2>2. PICK r \in TakeReply :
          /\ s2c' = r.chan
          /\ IF r.tok THEN NextToken /\ cstatus' = r.body
                      ELSE ClientEnds("error") /\ UNCHANGED cstatus
    BY <1>3 DEF ReadStatus
  <2> QED BY <1>1, <2>1, <2>2, ReplyTaken DEF ClientReads, NextToken, ClientEnds
<1>4. CASE ReadMessages
  <2>1. cpc = "recv" /\ cat \in 3..4 /\ Stays /\ UNCHANGED <<cstatus, output>>
    BY <1>1, <1>4, ReplyTokens, ReplyOnce DEF ReadMessages, Reading, request, server
  <2>2. PICK r \in TakeReply :
          /\ s2c' = r.chan
          /\ IF r.tok /\ r.body # "none" THEN NextToken ELSE ClientEnds("error")
    BY <1>4 DEF ReadMessages
  <2> QED BY <1>1, <2>1, <2>2, ReplyTaken DEF ClientReads, NextToken, ClientEnds
<1>5. CASE ReadObject
  <2>1. cpc = "recv" /\ cat = 5 /\ Stays /\ UNCHANGED cstatus
    BY <1>1, <1>5, ReplyTokens, ReplyOnce DEF ReadObject, Reading, request, server
  <2>2. PICK r \in TakeReply :
          /\ s2c' = r.chan
          /\ \/ ~r.tok /\ ClientEnds("error") /\ UNCHANGED output
             \/ r.tok /\ cstatus # "ok" /\ ClientEnds("ok") /\ UNCHANGED output
             \/ /\ r.tok /\ cstatus = "ok"
                /\ output' = Stored(r.body, "DOTO")
                /\ IF r.body = "none" THEN ClientEnds("error")
                   ELSE IF CppOnServer THEN NextToken ELSE ClientEnds("ok")
    BY <1>5 DEF ReadObject
  <2>3. CASE ~r.tok /\ ClientEnds("error") /\ UNCHANGED output
    BY <1>1, <2>1, <2>2, <2>3, ReplyTaken DEF ClientReads, ClientEnds
  <2>4. CASE r.tok /\ cstatus # "ok" /\ ClientEnds("ok") /\ UNCHANGED output
    BY <1>1, <2>1, <2>2, <2>4, ReplyTaken DEF ClientReads, ClientEnds
  <2>5. CASE /\ r.tok /\ cstatus = "ok"
             /\ output' = Stored(r.body, "DOTO")
             /\ IF r.body = "none" THEN ClientEnds("error")
                ELSE IF CppOnServer THEN NextToken ELSE ClientEnds("ok")
    <3>1. compiled = "ok" /\ r.body \in {"DOTO", "none"}
      BY <1>1, <2>1, <2>5, ReplyTaken
    <3>2. output' = IF r.body = "none" THEN "gone" ELSE "object"
      BY <2>5, <3>1 DEF Stored
    <3> QED BY <1>1, <2>1, <2>2, <2>5, <3>1, <3>2, ReplyTaken
            DEF ClientReads, ClientEnds, NextToken
  <2> QED BY <2>2, <2>3, <2>4, <2>5
<1>6. CASE ReadDeps
  <2>1. cpc = "recv" /\ cat = 6 /\ Stays /\ UNCHANGED <<cstatus, output>>
    BY <1>1, <1>6, ReplyTokens, ReplyOnce DEF ReadDeps, Reading, request, server
  <2>2. RestOf(s2c, s2c') /\ \E ret \in {"ok", "error"} : ClientEnds(ret)
    <3>1. CASE wantDeps
      <4>1. PICK r \in TakeReply :
              /\ s2c' = r.chan
              /\ ClientEnds(IF r.tok /\ r.body = "none" THEN "error" ELSE "ok")
        BY <1>6, <3>1 DEF ReadDeps
      <4>2. RestOf(s2c, s2c')
        BY <2>1, <4>1, ReplyTaken
      <4>3. (IF r.tok /\ r.body = "none" THEN "error" ELSE "ok") \in {"ok", "error"}
        OBVIOUS
      <4> QED BY <4>1, <4>2, <4>3
    <3>2. CASE ~wantDeps
      BY <1>1, <1>6, <2>1, <3>2 DEF ReadDeps
    <3> QED BY <3>1, <3>2
  <2> QED BY <1>1, <2>1, <2>2 DEF ClientReads, ClientEnds
<1>7. CASE ClientTimesOut
  <2>1. cpc = "recv" /\ Stays /\ UNCHANGED <<cstatus, s2c>>
    BY <1>7 DEF ClientTimesOut, request, server
  <2>2. cat = 6 => Reply[cat] # "DOTO"
    BY ReplyTokens
  <2>3. Reply[cat] = "DOTD" => cat = 6
    BY <1>1, <2>1, ReplyTokens, ReplyOnce
  <2>4. \/ Reply[cat] = "DOTD" /\ ClientEnds("ok")
        \/ ClientEnds("error")
    BY <1>7 DEF ClientTimesOut
  <2>5. IF cat < 6 THEN output' \in {"old", "gone"} ELSE output' = "object" /\ compiled = "ok"
    BY <1>1, <1>7, <2>1, <2>2 DEF ClientTimesOut
  <2> QED BY <1>1, <2>1, <2>3, <2>4, <2>5 DEF ClientReads, ClientEnds
<1>8. CASE StoreFails
  <2>1. cpc = "recv" /\ Stays /\ UNCHANGED <<cstatus, s2c>> /\ ClientEnds("error")
    BY <1>8 DEF StoreFails, request, server
  <2>2. cat = 6 => Reply[cat] # "DOTO"
    BY ReplyTokens
  <2>3. IF cat < 6 THEN output' \in {"old", "gone"} ELSE output' = "object" /\ compiled = "ok"
    BY <1>1, <1>8, <2>1, <2>2 DEF StoreFails
  <2> QED BY <1>1, <2>1, <2>3 DEF ClientReads, ClientEnds
<1>9. CASE LogFails
  <2>1. cpc = "recv" /\ cat = 3 /\ Stays /\ UNCHANGED <<cstatus, output>> /\ ClientEnds("ok")
    BY <1>1, <1>9, ReplyTokens, ReplyOnce DEF LogFails, Reading, request, server
  <2>2. PICK r \in TakeReply : r.tok /\ s2c' = r.chan
    BY <1>9 DEF LogFails
  <2>3. LogsErrors
    BY <1>9 DEF LogFails
  <2> QED BY <1>1, <2>1, <2>2, <2>3, ReplyTaken DEF ClientReads, ClientEnds
<1> QED BY <1>2, <1>3, <1>4, <1>5, <1>6, <1>7, <1>8, <1>9

\* The server receives the request, and compiles or ends.
ServerWorks ==
    /\ UNCHANGED <<ver, s2c, cpc, cat, cret, cstatus, output, sret>>
    /\ \/ /\ spc = "recv" /\ RestOf(c2s, c2s') /\ UNCHANGED compiled
          /\ \/ spc' = "recv" /\ sat < Len(Expects) /\ sat' = sat + 1
             \/ /\ spc' = "check" /\ sat' = 1
                /\ Len(c2s) >= 1 /\ c2s[1].tok = Expects[Len(Expects)]
             \/ spc' = "done"
       \/ spc = "check" /\ spc' \in {"cc", "done"} /\ UNCHANGED <<c2s, sat, compiled>>
       \/ /\ spc \in {"check", "cc"} /\ spc' = "reply"
          /\ compiled' \in {"ok", "fail"} /\ UNCHANGED <<c2s, sat>>

LEMMA WorkingSteps ==
    ASSUME TypeInv, ReadRequest \/ ServerFails \/ CheckCommand \/ CollectCompiler
    PROVE  ServerWorks
<1>1. c2s \in Seq(Element) /\ RestOf(c2s, c2s)
  BY SameRest DEF TypeInv
<1>2. CASE ReadRequest
  <2> DEFINE closed == ~ClientOpen \/ ~up
             compr == Expects[sat] = "FILE" \/ Compressed
  <2>1. PICK r \in Take(c2s, closed, Expects[sat], compr) :
          /\ c2s' = r.chan
          /\ IF ~Complete(r) THEN ServerEnds
             ELSE IF sat < Len(Expects) THEN sat' = sat + 1 /\ UNCHANGED spc
             ELSE spc' = "check" /\ sat' = 1
    BY <1>2 DEF ReadRequest
  <2> HIDE DEF closed, compr
  <2>2. /\ RestOf(c2s, r.chan)
        /\ r.tok => 1 \in 1..Len(c2s) /\ c2s[1].tok = Expects[sat]
    BY <1>1, <2>1, TakeOutcome
  <2>3. /\ spc = "recv" /\ UNCHANGED <<ver, s2c, cpc, cat, cret, cstatus, output, sret>>
        /\ UNCHANGED compiled /\ sat \in 1..Len(Expects) /\ Len(Expects) \in Nat
    BY <1>2, Scripts DEF ReadRequest, TypeInv, request, client
  <2>4. CASE ~Complete(r)
    BY <2>1, <2>2, <2>3, <2>4 DEF ServerWorks, ServerEnds
  <2>5. CASE Complete(r) /\ sat < Len(Expects)
    BY <2>1, <2>2, <2>3, <2>5 DEF ServerWorks
  <2>6. CASE Complete(r) /\ ~(sat < Len(Expects))
    <3>1. sat = Len(Expects) /\ Len(c2s) >= 1 /\ c2s[1].tok = Expects[sat]
      BY <1>1, <2>2, <2>3, <2>6 DEF Complete
    <3> QED BY <2>1, <2>2, <2>3, <2>6, <3>1 DEF ServerWorks
  <2> QED BY <2>4, <2>5, <2>6
<1>3. CASE ServerFails
  BY <1>1, <1>3 DEF ServerFails, ServerEnds, ServerWorks, request, client
<1>4. CASE CheckCommand
  BY <1>4 DEF CheckCommand, ServerEnds, ServerWorks, request, client
<1>5. CASE CollectCompiler
  BY <1>5 DEF CollectCompiler, ServerWorks, request, client
<1> QED BY <1>2, <1>3, <1>4, <1>5

\* The server sends an element of the answer, or gives up.
ServerReplies ==
    /\ spc = "reply" /\ UNCHANGED <<ver, c2s, cpc, cat, cret, cstatus, output, compiled>>
    /\ \/ s2c' = s2c
       \/ \E e \in Element :
             /\ s2c' = Append(s2c, e) /\ e.tok = Reply[sat]
             /\ sat = 2 => e.body = compiled
             /\ sat = 5 /\ compiled = "ok" /\ sret = "ok" => e.body \in {"DOTO", "short"}
    /\ \/ spc' = "reply" /\ sat < 5 /\ sat' = sat + 1 /\ sret' = "ok"
       \/ spc' = "reply" /\ sat < 5 /\ sat' = 5 /\ sret' = "error" /\ s2c' = s2c
       \/ spc' = "reply" /\ sat = 5 /\ sat' = 6 /\ UNCHANGED sret /\ CppOnServer
       \/ spc' = "done" /\ UNCHANGED sret

LEMMA ReplyingSteps ==
    ASSUME RpcInv,
           \/ SendStatus \/ SendMessages \/ SendNoObject \/ SendObject \/ SendDeps
           \/ CannotRewrite
    PROVE  ServerReplies
<1> DEFINE Stays == UNCHANGED <<ver, c2s, cpc, cat, cret, cstatus, output, compiled>>
           New(b) == \/ s2c' = s2c
                     \/ s2c' = Append(s2c, [tok |-> Reply[sat], body |-> b])
<1>1. ASSUME spc = "reply"
      PROVE  sat \in 1..6 /\ Reply[sat] \in Tokens /\ compiled \in {"ok", "fail"}
  BY <1>1, ReplyTokens DEF RpcInv, TypeInv, ReplyInv, Tokens
<1>2. ASSUME spc = "reply", NEW b \in Tokens \cup {"short", "zero", "ok", "fail"}, New(b),
             sat = 2 => b = compiled,
             sat = 5 /\ compiled = "ok" /\ sret = "ok" => b \in {"DOTO", "short"}
      PROVE  \/ s2c' = s2c
             \/ \E e \in Element :
                   /\ s2c' = Append(s2c, e) /\ e.tok = Reply[sat]
                   /\ sat = 2 => e.body = compiled
                   /\ sat = 5 /\ compiled = "ok" /\ sret = "ok" => e.body \in {"DOTO", "short"}
  BY <1>1, <1>2, NewElement
<1>3. CASE SendStatus
  <2> DEFINE b == IF Reply[sat] = "STAT" THEN compiled ELSE Reply[sat]
  <2>1. PICK r \in Put(s2c, ClientOpen, Reply[sat], b) : Chained(r)
    BY <1>3 DEF SendStatus
  <2>2. spc = "reply" /\ sat \in 1..2 /\ Stays
    BY <1>1, <1>3, ReplyTokens, ReplyOnce DEF SendStatus, Replying, request, client
  <2>3. b \in Tokens \cup {"short", "zero", "ok", "fail"} /\ (sat = 2 => b = compiled)
    BY <1>1, <2>2, ReplyTokens
  <2> HIDE DEF b
  <2>4. New(b) /\ (~r.ok => s2c' = s2c) /\ r.ok \in BOOLEAN
    BY <2>1, PutOutcome DEF Chained
  <2> QED BY <1>2, <2>1, <2>2, <2>3, <2>4 DEF Chained, ObjectAt, ServerReplies
<1>4. CASE SendMessages
  <2>1. PICK r \in PutFile(s2c, ClientOpen, Reply[sat], Compressed) : Chained(r)
    BY <1>4 DEF SendMessages
  <2>2. spc = "reply" /\ sat \in 3..4 /\ Stays
    BY <1>1, <1>4, ReplyTokens, ReplyOnce DEF SendMessages, Replying, request, client
  <2>3. /\ New(Reply[sat]) \/ New("short")
        /\ ~r.ok => s2c' = s2c
        /\ r.ok \in BOOLEAN
    <3>1. /\ r.ok \in BOOLEAN
          /\ \/ r.chan = s2c
             \/ r.chan = Append(s2c, [tok |-> Reply[sat], body |-> Reply[sat]])
             \/ r.chan = Append(s2c, [tok |-> Reply[sat], body |-> "short"])
          /\ ~r.ok => r.chan = s2c
      BY <2>1, PutFileOutcome, SMTT(30)
    <3>2. s2c' = r.chan
      BY <2>1 DEF Chained
    <3> QED BY <3>1, <3>2
  <2> QED BY <1>1, <1>2, <2>1, <2>2, <2>3 DEF Chained, ObjectAt, ServerReplies
<1>5. CASE SendNoObject
  <2>1. PICK r \in Put(s2c, ClientOpen, "DOTO", "zero") : s2c' = r.chan
    BY <1>5 DEF SendNoObject
  <2>2. /\ spc = "reply" /\ Reply[sat] = "DOTO" /\ Stays /\ UNCHANGED sret
        /\ spc' = "done" /\ ~(compiled = "ok" /\ sret = "ok")
    BY <1>5 DEF SendNoObject, Replying, ServerEnds, request, client
  <2>3. New("zero")
    BY <2>1, <2>2, PutOutcome
  <2>4. sat = 5
    BY <1>1, <2>2, ReplyTokens, ReplyOnce
  <2> QED BY <1>2, <2>2, <2>3, <2>4 DEF ServerReplies
<1>6. CASE SendObject
  <2>1. PICK r \in PutFile(s2c, ClientOpen, "DOTO", Compressed) :
          IF r.ok /\ CppOnServer THEN ServerSent(r)
          ELSE s2c' = r.chan /\ faults' = faults + r.fault /\ ServerEnds
    BY <1>6 DEF SendObject
  <2>2. spc = "reply" /\ Reply[sat] = "DOTO" /\ Stays /\ UNCHANGED sret
    BY <1>6 DEF SendObject, Replying, request, client
  <2>3. sat = 5
    BY <1>1, <2>2, ReplyTokens, ReplyOnce
  <2>4. s2c' = r.chan
    BY <2>1 DEF ServerSent
  <2>5. New("DOTO") \/ New("short")
    BY <2>2, <2>4, PutFileOutcome
  <2>6. \/ spc' = "reply" /\ sat' = 6 /\ CppOnServer
        \/ spc' = "done"
    BY <2>1, <2>2, <2>3 DEF ServerSent, ServerEnds
  <2> QED BY <1>1, <1>2, <2>2, <2>3, <2>5, <2>6 DEF ServerReplies, Tokens
<1>7. CASE SendDeps
  <2>1. spc = "reply" /\ Reply[sat] = "DOTD" /\ Stays /\ UNCHANGED sret /\ spc' = "done"
    BY <1>7 DEF SendDeps, Replying, ServerEnds, request, client
  <2>2. sat = 6
    BY <1>1, <2>1, ReplyTokens, ReplyOnce
  <2>3. New("DOTD") \/ New("short") \/ New("zero")
    <3>1. CASE wantDeps
      <4>1. PICK r \in PutFile(s2c, ClientOpen, "DOTD", Compressed) : s2c' = r.chan
        BY <1>7, <3>1 DEF SendDeps
      <4> QED BY <2>1, <4>1, PutFileOutcome
    <3>2. CASE ~wantDeps
      <4>1. PICK r \in Put(s2c, ClientOpen, "DOTD", "zero") : s2c' = r.chan
        BY <1>7, <3>2 DEF SendDeps
      <4> QED BY <2>1, <4>1, PutOutcome
    <3> QED BY <3>1, <3>2
  <2> QED BY <1>1, <1>2, <2>1, <2>2, <2>3 DEF ServerReplies
<1>8. CASE CannotRewrite
  BY <1>8 DEF CannotRewrite, Replying, ServerEnds, ServerReplies, request, client
<1> QED BY <1>3, <1>4, <1>5, <1>6, <1>7, <1>8

----------------------------------------------------------------------------
(* Each of these steps keeps the invariant.                                *)

LEMMA SameScripts ==
    ASSUME ver' = ver
    PROVE  Sends' = Sends /\ Expects' = Expects /\ CppOnServer' = CppOnServer
BY DEF Sends, Expects, CppOnServer

LEMMA SendsKeeps ==
    ASSUME RpcInv, ClientSends
    PROVE  RpcInv'
<1> USE DEF RpcInv
<1>1. /\ cpc = "send" /\ Place = 1 /\ Place' = 1 /\ cpc' \in {"send", "recv", "done"}
      /\ UNCHANGED <<ver, s2c, output, spc, sat, compiled, sret>>
      /\ Sends' = Sends /\ Expects' = Expects /\ CppOnServer' = CppOnServer
  BY SameScripts DEF ClientSends, Place
<1>2. cat \in 1..Len(Sends) /\ Len(Sends) \in Nat /\ c2s \in Seq(Element)
  BY <1>1, Scripts DEF TypeInv
<1>3. c2s' \in Seq(Element)
  BY <1>2, Appended DEF ClientSends
<1>4. TypeInv'
  <2>1. cret' \in {"none", "ok", "error"} /\ (cpc' = "done" => cret' # "none")
        /\ cstatus' \in {"ok", "fail", "cpp"}
    BY DEF ClientSends, TypeInv
  <2>2. cpc' = "send" => cat' \in 1..Len(Sends)
    BY <1>2 DEF ClientSends
  <2> QED BY <1>1, <1>3, <2>1, <2>2 DEF TypeInv
<1>5. ReplyInv'
  <2>1. \A p \in 1..4 : Missing(p) => Missing(p)'
    BY <1>1 DEF Missing
  <2> QED BY <1>1, <2>1 DEF ReplyInv
<1>6. ContentInv'
  BY <1>1 DEF ContentInv
<1>7. ClientInv'
  BY <1>1 DEF ClientInv, ClientSends
<1>8. RequestInv'
  <2>1. CASE cpc' = "recv"
    BY <2>1 DEF RequestInv
  <2>2. CASE cpc' = "send"
    <3>1. ASSUME ~CppOnServer
          PROVE  \A i \in 1..Len(c2s') : c2s'[i].tok # "DOTI"
      <4>1. \A i \in 1..Len(c2s) : c2s[i].tok # "DOTI"
        BY <1>1, <3>1 DEF RequestInv, Unasked
      <4>2. Sends[cat] # "DOTI"
        <5>1. cat = 1 \/ cat = 2
          <6>1. cat < Len(Sends)
            BY <2>2 DEF ClientSends
          <6>2. Len(Sends) = 3
            BY <3>1, Scripts
          <6> QED BY <1>2, <6>1, <6>2
        <5> QED BY <3>1, <5>1, Scripts
      <4>3. CASE c2s' = c2s
        BY <4>1, <4>3
      <4>4. ASSUME NEW e \in Element, c2s' = Append(c2s, e), e.tok = Sends[cat]
            PROVE  \A i \in 1..Len(c2s') : c2s'[i].tok # "DOTI"
        <5> DEFINE a == Append(c2s, e)
        <5>1. /\ Len(a) = Len(c2s) + 1 /\ Len(c2s) \in Nat
              /\ \A i \in 1..Len(c2s) : a[i] = c2s[i]
              /\ a[Len(c2s) + 1] = e
          BY <1>2, Appended
        <5> HIDE DEF a
        <5>2. ASSUME NEW i \in 1..Len(a) PROVE a[i].tok # "DOTI"
          <6>1. i \in 1..Len(c2s) \/ i = Len(c2s) + 1
            BY <5>1
          <6> QED BY <4>1, <4>2, <4>4, <5>1, <6>1
        <5>3. c2s' = a
          BY <4>4 DEF a
        <5> QED BY <5>2, <5>3
      <4> QED BY <4>3, <4>4 DEF ClientSends
    <3> QED BY <1>1, <2>2, <3>1 DEF RequestInv, Unasked
  <2>3. CASE cpc' = "done" /\ cret' = "error"
    BY <2>3 DEF RequestInv
  <2>4. CASE /\ cpc' = "done" /\ cret' = "ok" /\ cstatus' = "cpp"
             /\ Sends[cat] = "DOTI" /\ c2s' = c2s
    <3>1. ~CppOnServer
      BY <1>2, <2>4, Scripts
    <3>2. Unasked
      BY <1>1, <3>1 DEF RequestInv
    <3> QED BY <1>1, <2>4, <3>2 DEF RequestInv, Unasked
  <2> QED BY <2>1, <2>2, <2>3, <2>4 DEF ClientSends
<1> QED BY <1>4, <1>5, <1>6, <1>7, <1>8

LEMMA ReadsKeeps ==
    ASSUME RpcInv, ClientReads
    PROVE  RpcInv'
<1> USE DEF RpcInv
<1>1. /\ cpc = "recv" /\ Place = cat /\ cat \in 1..6
      /\ cpc' = "recv" \/ (cpc' = "done" /\ Place' = 1)
      /\ UNCHANGED <<ver, c2s, spc, sat, compiled, sret>>
      /\ Sends' = Sends /\ Expects' = Expects /\ CppOnServer' = CppOnServer
      /\ s2c \in Seq(Element) /\ Len(s2c) \in Nat /\ RestOf(s2c, s2c')
  BY SameScripts DEF ClientReads, Place, TypeInv
<1>2. ASSUME cpc' = "recv"
      PROVE  /\ cat < 6 /\ cat' = cat + 1 /\ Place' = cat + 1
             /\ 1 \in 1..Len(s2c) /\ s2c[1].tok = Reply[cat]
  BY <1>1, <1>2 DEF ClientReads, Place
<1>3. s2c' \in Seq(Element) /\ Len(s2c') \in Nat
  BY <1>1 DEF RestOf
<1>4. ASSUME NEW i \in 1..Len(s2c')
      PROVE  \/ s2c'[i].tok = "?"
             \/ \E j \in 1..Len(s2c) : s2c'[i] = s2c[j] /\ (j = Len(s2c) => i = Len(s2c'))
  <2>1. CASE s2c'[i].tok = "?"
    BY <2>1
  <2>2. ASSUME NEW j \in 1..Len(s2c), s2c'[i] = s2c[j], Len(s2c) - j = Len(s2c') - i
        PROVE  j = Len(s2c) => i = Len(s2c')
    BY <1>1, <1>3, <2>2
  <2> QED BY <1>1, <2>1, <2>2 DEF RestOf
<1>5. TypeInv'
  <2>1. Place' \in 1..6
    BY <1>1, <1>2
  <2>2. cret' \in {"none", "ok", "error"} /\ (cpc' = "done" => cret' # "none")
        /\ cstatus' \in {"ok", "fail", "cpp"}
    BY DEF ClientReads, TypeInv
  <2> QED BY <1>1, <1>3, <2>1, <2>2 DEF TypeInv
<1>6. ReplyInv'
  <2>1. ASSUME NEW p \in 1..6, \A i \in 1..Len(s2c) : s2c[i].tok # Reply[p]
        PROVE  \A i \in 1..Len(s2c') : s2c'[i].tok # Reply[p]
    <3>1. Reply[p] # "?"
      BY ReplyTokens
    <3> QED BY <1>4, <2>1, <3>1
  <2>2. ASSUME NEW p \in 1..4, Missing(p) PROVE Missing(p)'
    <3>1. Place' <= p
      BY <1>1, <1>2, <2>2 DEF Missing
    <3>2. \A i \in 1..Len(s2c') : s2c'[i].tok # Reply[p]
      BY <2>1, <2>2 DEF Missing
    <3> QED BY <1>1, <2>2, <3>1, <3>2 DEF Missing
  <2>3. ASSUME spc = "reply"
        PROVE  /\ Place' <= sat
               /\ \A i \in 1..Len(s2c'), p \in 1..6 : s2c'[i].tok = Reply[p] => p < sat
    <3>1. sat \in 1..6
      BY <2>3 DEF TypeInv
    <3>2. Place' <= sat
      BY <1>1, <1>2, <2>3, <3>1 DEF ReplyInv
    <3>3. ASSUME NEW i \in 1..Len(s2c'), NEW p \in 1..6, s2c'[i].tok = Reply[p]
          PROVE  p < sat
      <4>1. Reply[p] # "?"
        BY ReplyTokens
      <4>2. PICK j \in 1..Len(s2c) : s2c'[i] = s2c[j]
        BY <1>4, <3>3, <4>1
      <4> QED BY <2>3, <3>3, <4>2 DEF ReplyInv
    <3> QED BY <3>2, <3>3
  <2>4. ASSUME compiled = "no"
        PROVE  s2c' = <<>> /\ Place' = 1
    <3>1. s2c = <<>> /\ Len(s2c) = 0
      BY <2>4 DEF ReplyInv
    <3>2. cpc' = "done"
      BY <1>1, <1>2, <3>1
    <3>3. s2c' = <<>>
      BY <1>1, <1>3, <3>1 DEF RestOf
    <3> QED BY <1>1, <3>2, <3>3
  <2> QED BY <1>1, <2>2, <2>3, <2>4 DEF ReplyInv
<1>7. ContentInv'
  <2>1. ASSUME NEW i \in 1..Len(s2c')
        PROVE  /\ s2c'[i].tok = "STAT" => s2c'[i].body = compiled
               /\ s2c'[i].tok = "DOTO" =>
                     /\ compiled = "ok" /\ sret = "ok" => s2c'[i].body \in {"DOTO", "short"}
                     /\ ~CppOnServer => i = Len(s2c') /\ spc = "done"
    <3>1. CASE s2c'[i].tok = "?"
      BY <3>1
    <3>2. CASE \E j \in 1..Len(s2c) : s2c'[i] = s2c[j] /\ (j = Len(s2c) => i = Len(s2c'))
      BY <3>2 DEF ContentInv
    <3> QED BY <1>4, <3>1, <3>2
  <2> QED BY <1>1, <2>1 DEF ContentInv
<1>8. ClientInv'
  <2>1. CASE cpc' = "done"
    BY <2>1 DEF ClientInv
  <2>2. CASE cpc' = "recv"
    <3>1. cat' > 2 => cstatus' = compiled
      BY <1>1, <1>2, <2>2 DEF ClientReads
    <3>2. (cat' < 6 => output' = "old") /\ (cat' = 6 => output' = "object" /\ compiled = "ok")
      BY <1>1, <1>2, <2>2 DEF ClientReads
    <3> QED BY <1>1, <2>2, <3>1, <3>2 DEF ClientInv
  <2> QED BY <1>1, <2>1, <2>2
<1>9. RequestInv'
  BY <1>1 DEF ClientReads, RequestInv
<1> QED BY <1>5, <1>6, <1>7, <1>8, <1>9

LEMMA WorksKeeps ==
    ASSUME RpcInv, ServerWorks
    PROVE  RpcInv'
<1> USE DEF RpcInv
<1>1. /\ spc \in {"recv", "check", "cc"} /\ Place' = Place
      /\ spc' \in {"recv", "check", "cc", "reply", "done"}
      /\ UNCHANGED <<ver, s2c, cpc, cat, cret, cstatus, output, sret>>
      /\ Sends' = Sends /\ Expects' = Expects /\ CppOnServer' = CppOnServer
  BY SameScripts DEF ServerWorks, Place
<1>2. c2s \in Seq(Element) /\ (spc = "recv" => sat \in 1..Len(Expects))
      /\ (spc \in {"check", "cc"} => sat = 1) /\ Len(Expects) \in Nat
  BY Scripts DEF TypeInv
<1>3. /\ compiled = "no" /\ s2c = <<>> /\ Len(s2c) = 0 /\ Place = 1 /\ sret = "ok"
  BY <1>1 DEF ReplyInv
<1>4. \/ compiled' = "no" /\ spc' # "reply"
      \/ compiled' \in {"ok", "fail"} /\ spc' = "reply" /\ sat' = 1 /\ spc \in {"check", "cc"}
  BY <1>2, <1>3 DEF ServerWorks
<1>5. TypeInv'
  <2>1. c2s' \in Seq(Element)
    BY <1>2 DEF ServerWorks, RestOf
  <2>2. /\ spc' = "recv" => sat' \in 1..Len(Expects)
        /\ spc' \in {"check", "cc"} => sat' = 1
    BY <1>2 DEF ServerWorks
  <2> QED BY <1>1, <1>4, <2>1, <2>2 DEF TypeInv
<1>6. ReplyInv'
  BY <1>1, <1>3, <1>4 DEF ReplyInv
<1>7. ContentInv'
  BY <1>1, <1>3 DEF ContentInv
<1>8. ClientInv'
  BY <1>1, <1>3 DEF ClientInv, Place
<1>9. RequestInv'
  <2>1. ASSUME Unasked
        PROVE  Unasked'
    <3>1. spc = "recv" /\ ~CppOnServer /\ \A i \in 1..Len(c2s) : c2s[i].tok # "DOTI"
      BY <1>1, <2>1 DEF Unasked
    <3>2. RestOf(c2s, c2s') /\ compiled' = "no"
      BY <1>3, <3>1 DEF ServerWorks
    <3>3. \A i \in 1..Len(c2s') : c2s'[i].tok # "DOTI"
      BY <3>1, <3>2 DEF RestOf
    <3>4. spc' # "check"
      <4>1. ASSUME spc' = "check" PROVE FALSE
        <5>1. Len(c2s) >= 1 /\ c2s[1].tok = Expects[Len(Expects)]
          BY <3>1, <4>1 DEF ServerWorks
        <5>2. Expects[Len(Expects)] = "DOTI"
          BY <3>1, Scripts
        <5>3. Len(c2s) \in Nat
          BY <1>2
        <5> QED BY <3>1, <5>1, <5>2, <5>3
      <4> QED BY <4>1
    <3> QED BY <1>1, <3>1, <3>2, <3>3, <3>4 DEF Unasked, ServerWorks
  <2> QED BY <1>1, <1>3, <2>1 DEF RequestInv
<1> QED BY <1>5, <1>6, <1>7, <1>8, <1>9

LEMMA RepliesKeeps ==
    ASSUME RpcInv, ServerReplies
    PROVE  RpcInv'
<1> USE DEF RpcInv
<1>1. /\ spc = "reply" /\ Place' = Place /\ sat \in 1..6 /\ Place \in 1..6
      /\ UNCHANGED <<ver, c2s, cpc, cat, cret, cstatus, output, compiled>>
      /\ Sends' = Sends /\ Expects' = Expects /\ CppOnServer' = CppOnServer
      /\ compiled \in {"ok", "fail"} /\ s2c \in Seq(Element) /\ Len(s2c) \in Nat
  BY SameScripts DEF ServerReplies, Place, TypeInv, ReplyInv
<1>2. /\ Place <= sat
      /\ \A i \in 1..Len(s2c), p \in 1..6 : s2c[i].tok = Reply[p] => p < sat
  BY <1>1 DEF ReplyInv
<1> DEFINE Grown ==
      /\ s2c' \in Seq(Element) /\ Len(s2c') \in Nat
      /\ \A i \in 1..Len(s2c') :
            \/ i \in 1..Len(s2c) /\ s2c'[i] = s2c[i]
            \/ /\ i = Len(s2c') /\ s2c'[i].tok = Reply[sat]
               /\ sat = 2 => s2c'[i].body = compiled
               /\ sat = 5 /\ compiled = "ok" /\ sret = "ok" => s2c'[i].body \in {"DOTO", "short"}
<1>3. Grown
  <2>1. CASE s2c' = s2c
    BY <1>1, <2>1
  <2>2. ASSUME NEW e \in Element,
               s2c' = Append(s2c, e), e.tok = Reply[sat], sat = 2 => e.body = compiled,
               sat = 5 /\ compiled = "ok" /\ sret = "ok" => e.body \in {"DOTO", "short"}
        PROVE  Grown
    <3> DEFINE a == Append(s2c, e)
    <3>1. /\ a \in Seq(Element) /\ Len(a) = Len(s2c) + 1
          /\ \A i \in 1..Len(s2c) : a[i] = s2c[i]
          /\ a[Len(s2c) + 1] = e
      BY <1>1, Appended
    <3>2. s2c' = a
      BY <2>2
    <3> HIDE DEF a
    <3>3. \A i \in 1..Len(a) : i \in 1..Len(s2c) \/ i = Len(s2c) + 1
      BY <1>1, <3>1
    <3> QED BY <1>1, <2>2, <3>1, <3>2, <3>3
  <2> QED BY <2>1, <2>2 DEF ServerReplies
<1>4. \/ spc' = "reply" /\ sat' \in 1..6 /\ sat < sat' /\ sret' \in {"ok", "error"}
      \/ spc' = "done" /\ sret' = sret
  BY <1>1 DEF ServerReplies, TypeInv
<1>5. TypeInv'
  BY <1>1, <1>3, <1>4 DEF TypeInv
<1>6. ReplyInv'
  <2>1. ASSUME NEW p \in 1..4, Missing(p) PROVE Missing(p)'
    <3>1. Place <= p /\ p < sat /\ \A i \in 1..Len(s2c) : s2c[i].tok # Reply[p]
      BY <1>1, <2>1 DEF Missing
    <3>2. Reply[p] # Reply[sat]
      BY <1>1, <3>1, ReplyOnce
    <3>3. \A i \in 1..Len(s2c') : s2c'[i].tok # Reply[p]
      BY <1>3, <3>1, <3>2
    <3>4. spc' = "reply" => p < sat'
      BY <1>1, <1>4, <3>1
    <3> QED BY <1>1, <3>1, <3>3, <3>4 DEF Missing
  <2>2. ASSUME sret' = "error" PROVE \E p \in 1..4 : Missing(p)'
    <3>1. CASE sret = "error"
      BY <2>1, <3>1 DEF ReplyInv
    <3>2. CASE sret # "error"
      <4>1. sat \in 1..4 /\ sat' = 5 /\ s2c' = s2c
        BY <1>1, <2>2, <3>2 DEF ServerReplies, TypeInv
      <4>2. PICK p \in 1..4 : p = sat
        BY <4>1
      <4>3. \A i \in 1..Len(s2c) : s2c[i].tok # Reply[p]
        BY <1>1, <1>2, <4>2
      <4>4. Missing(p)'
        BY <1>1, <1>2, <4>1, <4>2, <4>3 DEF Missing
      <4> QED BY <4>4
    <3> QED BY <3>1, <3>2
  <2>3. ASSUME spc' = "reply"
        PROVE  /\ Place' <= sat'
               /\ \A i \in 1..Len(s2c'), p \in 1..6 : s2c'[i].tok = Reply[p] => p < sat'
    <3>1. sat' \in 1..6 /\ sat < sat'
      BY <1>4, <2>3
    <3>2. ASSUME NEW i \in 1..Len(s2c'), NEW p \in 1..6, s2c'[i].tok = Reply[p]
          PROVE  p < sat'
      <4>1. CASE i \in 1..Len(s2c) /\ s2c'[i] = s2c[i]
        <5>1. p < sat
          BY <1>2, <3>2, <4>1
        <5> QED BY <1>1, <3>1, <5>1
      <4>2. CASE s2c'[i].tok = Reply[sat]
        <5>1. p = sat
          BY <1>1, <3>2, <4>2, ReplyOnce
        <5> QED BY <3>1, <5>1
      <4> QED BY <1>3, <4>1, <4>2
    <3> QED BY <1>1, <1>2, <3>1, <3>2
  <2> QED BY <1>1, <1>4, <2>2, <2>3 DEF ReplyInv
<1>7. ContentInv'
  <2> SUFFICES ASSUME NEW i \in 1..Len(s2c')
        PROVE  /\ s2c'[i].tok = "STAT" => s2c'[i].body = compiled
               /\ s2c'[i].tok = "DOTO" =>
                     /\ compiled = "ok" /\ sret' = "ok" => s2c'[i].body \in {"DOTO", "short"}
                     /\ ~CppOnServer => i = Len(s2c') /\ spc' = "done"
    BY <1>1 DEF ContentInv
  <2>1. CASE i \in 1..Len(s2c) /\ s2c'[i] = s2c[i]
    <3>1. s2c'[i].tok = "STAT" => s2c'[i].body = compiled
      BY <2>1 DEF ContentInv
    <3>2. ASSUME s2c'[i].tok = "DOTO"
          PROVE  /\ compiled = "ok" /\ sret' = "ok" => s2c'[i].body \in {"DOTO", "short"}
                 /\ CppOnServer
      <4>1. CppOnServer
        BY <1>1, <2>1, <3>2 DEF ContentInv
      <4>2. sat = 6
        BY <1>1, <1>2, <2>1, <3>2, ReplyTokens
      <4>3. sret' = sret
        BY <4>2 DEF ServerReplies
      <4> QED BY <2>1, <3>2, <4>1, <4>3 DEF ContentInv
    <3> QED BY <3>1, <3>2
  <2>2. CASE /\ i = Len(s2c') /\ s2c'[i].tok = Reply[sat]
             /\ sat = 2 => s2c'[i].body = compiled
             /\ sat = 5 /\ compiled = "ok" /\ sret = "ok" => s2c'[i].body \in {"DOTO", "short"}
    <3>1. s2c'[i].tok = "STAT" => sat = 2
      BY <1>1, <2>2, ReplyPlaces
    <3>2. s2c'[i].tok = "DOTO" => sat = 5
      BY <1>1, <2>2, ReplyPlaces
    <3>3. sat = 5 => sret' = sret /\ (~CppOnServer => spc' = "done")
      BY DEF ServerReplies
    <3> QED BY <2>2, <3>1, <3>2, <3>3
  <2> QED BY <1>3, <2>1, <2>2
<1>8. ClientInv'
  BY <1>1 DEF ClientInv
<1>9. RequestInv'
  BY <1>1 DEF RequestInv, Unasked
<1> QED BY <1>5, <1>6, <1>7, <1>8, <1>9

LEMMA BreakKeeps ==
    ASSUME RpcInv, Break
    PROVE  RpcInv'
<1> USE DEF RpcInv
<1>1. /\ UNCHANGED <<ver, cpc, cat, cret, cstatus, output, spc, sat, compiled, sret>>
      /\ Sends' = Sends /\ Expects' = Expects /\ CppOnServer' = CppOnServer
      /\ Place' = Place /\ s2c \in Seq(Element) /\ c2s \in Seq(Element)
      /\ Len(s2c) \in Nat /\ Len(c2s) \in Nat
  BY SameScripts DEF Break, Place, TypeInv, request, client, server
<1>2. /\ s2c' \in Seq(Element) /\ Len(s2c') \in Nat /\ Len(s2c') <= Len(s2c)
      /\ \A i \in 1..Len(s2c') :
            /\ i \in 1..Len(s2c) /\ s2c'[i].tok = s2c[i].tok
            /\ \/ s2c'[i].body = s2c[i].body
               \/ s2c'[i].body = "short" /\ s2c[i].tok # "STAT"
  <2>1. s2c' \in PartsOf(s2c)
    BY DEF Break
  <2>2. /\ s2c' \in Seq(Element) /\ Len(s2c') <= Len(s2c)
        /\ \A i \in 1..Len(s2c') :
              /\ s2c'[i].tok = s2c[i].tok
              /\ \/ s2c'[i].body = s2c[i].body
                 \/ s2c'[i].body = "short" /\ s2c[i].tok # "STAT"
    BY <1>1, <2>1, PartOutcome
  <2>3. Len(s2c') \in Nat
    BY <2>2
  <2> QED BY <1>1, <2>2, <2>3
<1>3. /\ c2s' \in Seq(Element)
      /\ \A i \in 1..Len(c2s') : i \in 1..Len(c2s) /\ c2s'[i].tok = c2s[i].tok
  <2>1. c2s' \in PartsOf(c2s)
    BY DEF Break
  <2>2. /\ c2s' \in Seq(Element) /\ Len(c2s') <= Len(c2s)
        /\ \A i \in 1..Len(c2s') : c2s'[i].tok = c2s[i].tok
    BY <1>1, <2>1, PartOutcome
  <2>3. Len(c2s') \in Nat
    BY <2>2
  <2> QED BY <1>1, <2>2, <2>3
<1>4. TypeInv'
  BY <1>1, <1>2, <1>3 DEF TypeInv
<1>5. ReplyInv'
  <2>1. \A p \in 1..4 : Missing(p) => Missing(p)'
    BY <1>1, <1>2 DEF Missing
  <2>2. s2c = <<>> => s2c' = <<>>
    BY <1>1, <1>2
  <2>3. spc = "reply" =>
          \A i \in 1..Len(s2c'), p \in 1..6 : s2c'[i].tok = Reply[p] => p < sat
    BY <1>2 DEF ReplyInv
  <2> QED BY <1>1, <2>1, <2>2, <2>3 DEF ReplyInv
<1>6. ContentInv'
  <2> SUFFICES ASSUME NEW i \in 1..Len(s2c')
        PROVE  /\ s2c'[i].tok = "STAT" => s2c'[i].body = compiled
               /\ s2c'[i].tok = "DOTO" =>
                     /\ compiled = "ok" /\ sret = "ok" => s2c'[i].body \in {"DOTO", "short"}
                     /\ ~CppOnServer => i = Len(s2c') /\ spc = "done"
    BY <1>1 DEF ContentInv
  <2>1. i \in 1..Len(s2c) /\ (i = Len(s2c) => i = Len(s2c'))
    BY <1>1, <1>2
  <2> QED BY <1>2, <2>1 DEF ContentInv
<1>7. ClientInv'
  BY <1>1 DEF ClientInv
<1>8. RequestInv'
  <2>1. Unasked => Unasked'
    BY <1>1, <1>3 DEF Unasked
  <2> QED BY <1>1, <2>1 DEF RequestInv
<1> QED BY <1>4, <1>5, <1>6, <1>7, <1>8

LEMMA RpcInvInit == Init => RpcInv
<1> SUFFICES ASSUME Init PROVE RpcInv
  OBVIOUS
<1>1. c2s = <<>> /\ s2c = <<>> /\ c2s \in Seq(Element) /\ Len(c2s) = 0 /\ Len(s2c) = 0
  BY DEF Init
<1>2. ver \in {1, 2, 3} /\ 1 \in 1..Len(Sends) /\ 1 \in 1..Len(Expects)
  BY VersionsAssumption, Scripts DEF Init
<1>3. TypeInv
  BY <1>1, <1>2 DEF Init, TypeInv, Place
<1>4. ReplyInv /\ ContentInv /\ ClientInv /\ RequestInv
  BY <1>1 DEF Init, ReplyInv, ContentInv, ClientInv, RequestInv, Unasked, Place
<1> QED BY <1>3, <1>4 DEF RpcInv

\* Every step is one of those above.
LEMMA StepKinds ==
    ASSUME RpcInv, [Next]_vars
    PROVE  \/ ClientSends \/ ClientReads \/ ServerWorks \/ ServerReplies \/ Break
           \/ UNCHANGED vars
<1>1. CASE ClientStep \/ ClientFailure
  BY <1>1, SendingSteps, ReadingSteps DEF ClientStep, ClientFailure, RpcInv
<1>2. CASE ServerStep \/ ServerFailure
  BY <1>2, WorkingSteps, ReplyingSteps DEF ServerStep, ServerFailure, RpcInv
<1>3. CASE Break \/ Finished \/ UNCHANGED vars
  BY <1>3 DEF Finished
<1> QED BY <1>1, <1>2, <1>3 DEF Next, Failure

LEMMA RpcInvKept ==
    ASSUME RpcInv, [Next]_vars
    PROVE  RpcInv'
<1>1. CASE UNCHANGED vars
  <2>1. UNCHANGED <<ver, c2s, s2c, cpc, cat, cret, cstatus, output, spc, sat, compiled, sret>>
    BY <1>1 DEF vars, request, client, server
  <2>2. Sends' = Sends /\ Expects' = Expects /\ CppOnServer' = CppOnServer /\ Place' = Place
    BY <2>1, SameScripts DEF Place
  <2>3. TypeInv' /\ ContentInv' /\ ClientInv'
    BY <2>1, <2>2 DEF RpcInv, TypeInv, ContentInv, ClientInv
  <2>4. \A p \in 1..4 : Missing(p) => Missing(p)'
    BY <2>1, <2>2 DEF Missing
  <2>5. ReplyInv' /\ RequestInv'
    BY <2>1, <2>2, <2>4 DEF RpcInv, ReplyInv, RequestInv, Unasked
  <2> QED BY <2>3, <2>5 DEF RpcInv
<1> QED BY <1>1, StepKinds, SendsKeeps, ReadsKeeps, WorksKeeps, RepliesKeeps, BreakKeeps

(***************************************************************************)
(* Whatever fails on the way, the client has no more of the answer than    *)
(* has been sent to it, in the order of dcc_retrieve_results.              *)
(***************************************************************************)
THEOREM ExchangeInOrder == Spec => []RpcInv
<1>1. RpcInv /\ [Next]_vars => RpcInv'
  BY RpcInvKept
<1> QED BY RpcInvInit, <1>1, PTL DEF Spec

----------------------------------------------------------------------------
(* The refinement.                                                         *)

LEMMA InitRefines == Init => Remote!Init
BY DEF Init, Remote!Init, Answer, Delivered, ClientOpen

LEMMA StepRefines ==
    ASSUME RpcInv, [Next]_vars
    PROVE  [Remote!Next]_Remote!vars
<1> DEFINE Stutters == UNCHANGED <<compiled, Answer, Delivered>>
<1>1. Stutters => [Remote!Next]_Remote!vars
  BY DEF Remote!vars
<1>2. CASE ClientSends
  <2>1. /\ Answer = "none" /\ Delivered = "old" /\ output' = "old" /\ compiled' = compiled
        /\ cpc' \in {"send", "recv", "done"}
    BY <1>2 DEF ClientSends, Answer, Delivered, ClientOpen, RpcInv, ClientInv
  <2>2. CASE cpc' # "done"
    BY <1>1, <2>1, <2>2 DEF Answer, Delivered, ClientOpen
  <2>3. CASE cpc' = "done" /\ cret' = "error"
    <3>1. Answer' = "error" /\ Delivered' = "old"
      BY <2>1, <2>3 DEF Answer, Delivered, ClientOpen
    <3> QED BY <2>1, <3>1 DEF Remote!Next, Remote!GiveUp
  <2>4. CASE cpc' = "done" /\ cret' = "ok" /\ cstatus' = "cpp" /\ Sends[cat] = "DOTI"
    <3>1. Answer' = "cpp_failed" /\ Delivered' = "old"
      BY <2>1, <2>4 DEF Answer, Delivered, ClientOpen
    <3>2. compiled = "no"
      <4>1. cat \in 1..Len(Sends) /\ cpc = "send"
        BY <1>2 DEF ClientSends, RpcInv, TypeInv
      <4>2. ~CppOnServer
        BY <2>4, <4>1, Scripts
      <4> QED BY <4>1, <4>2 DEF RpcInv, RequestInv, Unasked
    <3> QED BY <2>1, <3>1, <3>2 DEF Remote!Next, Remote!Report
  <2> QED BY <1>2, <2>2, <2>3, <2>4 DEF ClientSends
<1>3. CASE ClientReads
  <2>1. Answer = "none" /\ Delivered = "old" /\ compiled' = compiled
    BY <1>3 DEF ClientReads, Answer, Delivered, ClientOpen
  <2>2. CASE cpc' = "recv"
    BY <1>1, <2>1, <2>2 DEF Answer, Delivered, ClientOpen
  <2>3. CASE /\ cpc' = "done" /\ cret' = "error"
             /\ output' \in {"old", "gone"} \/ (compiled = "ok" /\ output' = "object")
    <3>1. Answer' = "error" /\ Delivered' = output'
      BY <2>3 DEF Answer, Delivered, ClientOpen
    <3> QED BY <2>1, <2>3, <3>1 DEF Remote!Next, Remote!GiveUp
  <2>4. CASE cpc' = "done" /\ cret' = "ok" /\ cstatus' = "ok"
             /\ compiled = "ok" /\ output' = "object" /\ cat' \in 5..6
    <3>1. Reply[cat'] # "SERR"
      BY <2>4, ReplyTokens, ReplyOnce
    <3>2. Answer' = "object" /\ Delivered' = "object"
      BY <2>4, <3>1 DEF Answer, Delivered, ClientOpen
    <3> QED BY <2>1, <2>4, <3>2 DEF Remote!Next, Remote!Deliver
  <2>5. CASE cpc' = "done" /\ cret' = "ok" /\ cstatus' = "fail"
             /\ compiled = "fail" /\ output' = "old"
    <3>1. Answer' = "failed" /\ Delivered' = "old"
      BY <2>5 DEF Answer, Delivered, ClientOpen
    <3> QED BY <2>1, <2>5, <3>1 DEF Remote!Next, Remote!Report
  <2>6. CASE cpc' = "done" /\ cret' = "ok" /\ cstatus' = "ok"
             /\ LogsErrors /\ cat' = 3 /\ compiled = "ok" /\ output' = "old"
    <3>1. Answer' = "unread" /\ Delivered' = "old"
      BY <2>6, ReplyTokens DEF Answer, Delivered, ClientOpen
    <3> QED BY <2>1, <2>6, <3>1 DEF Remote!Next, Remote!Overlook
  <2> QED BY <1>3, <2>2, <2>3, <2>4, <2>5, <2>6 DEF ClientReads
<1>4. CASE ServerWorks
  <2>1. Answer' = Answer /\ Delivered' = Delivered
    BY <1>4 DEF ServerWorks, Answer, Delivered, ClientOpen
  <2>2. CASE compiled' = compiled
    BY <1>1, <2>1, <2>2
  <2>3. CASE spc \in {"check", "cc"} /\ compiled' \in {"ok", "fail"}
    <3>1. compiled = "no"
      BY <2>3 DEF RpcInv, ReplyInv
    <3>2. Answer \in {"none", "error"}
      <4>1. ASSUME cpc = "done", cret # "error" PROVE FALSE
        <5>1. cret = "ok"
          BY <4>1 DEF RpcInv, TypeInv
        <5>2. Unasked
          BY <3>1, <4>1, <5>1 DEF RpcInv, RequestInv
        <5> QED BY <2>3, <5>2 DEF Unasked
      <4> QED BY <4>1 DEF Answer, ClientOpen
    <3> QED BY <2>1, <2>3, <3>1, <3>2 DEF Remote!Next, Remote!Compile
  <2> QED BY <1>4, <2>2, <2>3 DEF ServerWorks
<1>5. CASE ServerReplies
  BY <1>1, <1>5 DEF ServerReplies, Answer, Delivered, ClientOpen
<1>6. CASE Break
  BY <1>1, <1>6 DEF Break, client, server, Answer, Delivered, ClientOpen
<1>7. CASE UNCHANGED vars
  BY <1>1, <1>7 DEF vars, client, server, Answer, Delivered, ClientOpen
<1> QED BY <1>2, <1>3, <1>4, <1>5, <1>6, <1>7, StepKinds

(***************************************************************************)
(* The exchange gives the client one true answer, whatever is lost, short  *)
(* or late: a status is that of the compiler, an object is whole, and      *)
(* everything else is an error (dcc_compile_remote, dcc_run_job).  Only a  *)
(* client that keeps a log of errors may miss an object that was made.     *)
(***************************************************************************)
THEOREM ExchangeIsRemote == Spec => ImplementsRemote
<1>1. RpcInv /\ [Next]_vars => [Remote!Next]_Remote!vars
  BY StepRefines
<1> QED BY InitRefines, ExchangeInOrder, <1>1, PTL DEF Spec, ImplementsRemote, Remote!Spec

----------------------------------------------------------------------------
(* The scripts agree as long as nothing fails.                             *)

\* What is under way is what the script says from a place on, and whole.
Follows(ch, script, at) ==
    \A i \in 1..Len(ch) :
        /\ at + i - 1 \in 1..Len(script) /\ ch[i].tok = script[at + i - 1]
        /\ ch[i].body # "short"

\* The request: once the server has read it nothing of it is left, and as
\* long as it is being sent the server cannot have come further.
AskedInOrder ==
    /\ spc = "recv" => Follows(c2s, Sends, sat)
    /\ spc \in {"check", "cc", "reply"} => c2s = <<>>
    /\ cpc = "send" =>
          /\ spc \in {"recv", "done"} /\ s2c = <<>>
          /\ spc = "recv" => sat + Len(c2s) = cat

\* The answer.
AnsweredInOrder ==
    cpc = "recv" =>
        /\ Follows(s2c, Reply, cat)
        /\ spc = "reply" => cat + Len(s2c) = sat

AgreeInv ==
    /\ faults \in Nat
    /\ faults = 0 => up /\ AskedInOrder /\ AnsweredInOrder

LEMMA FollowsHead ==
    ASSUME NEW ch \in Seq(Element), NEW script, NEW at \in Nat, ch # <<>>,
           Follows(ch, script, at)
    PROVE  /\ at \in 1..Len(script) /\ Head(ch).tok = script[at]
           /\ Head(ch).body # "short"
<1>1. 1 \in 1..Len(ch) /\ Head(ch) = ch[1] /\ at + 1 - 1 = at
  OBVIOUS
<1> QED BY <1>1 DEF Follows

LEMMA FollowsTail ==
    ASSUME NEW ch \in Seq(Element), NEW script, NEW at \in Nat, ch # <<>>,
           Follows(ch, script, at)
    PROVE  Tail(ch) \in Seq(Element) /\ Len(Tail(ch)) = Len(ch) - 1
           /\ Follows(Tail(ch), script, at + 1)
<1> DEFINE t == Tail(ch)
<1>1. /\ t \in Seq(Element) /\ Len(t) = Len(ch) - 1 /\ Len(ch) \in Nat
      /\ \A i \in 1..Len(t) : t[i] = ch[i + 1]
  OBVIOUS
<1> HIDE DEF t
<1>2. ASSUME NEW i \in 1..Len(t)
      PROVE  /\ at + 1 + i - 1 \in 1..Len(script) /\ t[i].tok = script[at + 1 + i - 1]
             /\ t[i].body # "short"
  <2>1. i + 1 \in 1..Len(ch) /\ t[i] = ch[i + 1] /\ at + 1 + i - 1 = at + (i + 1) - 1
    BY <1>1
  <2> QED BY <2>1 DEF Follows
<1>3. Follows(t, script, at + 1)
  BY <1>2 DEF Follows
<1> QED BY <1>1, <1>3 DEF t

LEMMA FollowsAppend ==
    ASSUME NEW ch \in Seq(Element), NEW script, NEW at \in Nat, NEW e \in Element,
           Follows(ch, script, at), at + Len(ch) \in 1..Len(script),
           e.tok = script[at + Len(ch)], e.body # "short"
    PROVE  /\ Append(ch, e) \in Seq(Element) /\ Len(Append(ch, e)) = Len(ch) + 1
           /\ Follows(Append(ch, e), script, at)
<1> DEFINE a == Append(ch, e)
<1>1. /\ a \in Seq(Element) /\ Len(a) = Len(ch) + 1 /\ Len(ch) \in Nat
      /\ \A i \in 1..Len(ch) : a[i] = ch[i]
      /\ a[Len(ch) + 1] = e
  BY Appended
<1> HIDE DEF a
<1>2. ASSUME NEW i \in 1..Len(a)
      PROVE  /\ at + i - 1 \in 1..Len(script) /\ a[i].tok = script[at + i - 1]
             /\ a[i].body # "short"
  <2>1. CASE i \in 1..Len(ch)
    BY <1>1, <2>1 DEF Follows
  <2>2. CASE i = Len(ch) + 1
    <3>1. a[i] = e /\ at + i - 1 = at + Len(ch)
      BY <1>1, <2>2
    <3> QED BY <3>1
  <2> QED BY <1>1, <2>1, <2>2
<1>3. Follows(a, script, at)
  BY <1>2 DEF Follows
<1> QED BY <1>1, <1>3 DEF a

\* Nothing is lost by a connection that holds, and nothing read but the
\* element that was sent.
LEMMA CleanPut ==
    ASSUME up, NEW ch, NEW open \in BOOLEAN, NEW tok, NEW body,
           NEW r \in Put(ch, open, tok, body)
    PROVE  /\ r.ok \in BOOLEAN
           /\ open => r.ok /\ r.chan = Append(ch, [tok |-> tok, body |-> body])
           /\ ~open => r.chan = ch
<1>1. CASE open
  <2>1. r = Sent(TRUE, Append(ch, [tok |-> tok, body |-> body]), 0)
    BY <1>1 DEF Put
  <2> QED BY <1>1, <2>1 DEF Sent
<1>2. CASE ~open
  <2>1. PICK ok \in BOOLEAN : r = Sent(ok, ch, 0)
    BY <1>2 DEF Put
  <2> QED BY <1>2, <2>1 DEF Sent
<1> QED BY <1>1, <1>2

LEMMA CleanFile ==
    ASSUME NEW ch, NEW open, NEW tok, NEW compr, NEW r \in PutFile(ch, open, tok, compr)
    PROVE  r.fault \in {0, 1} /\ (r.fault = 0 => r \in Put(ch, open, tok, tok))
<1>1. \/ r \in Put(ch, open, tok, tok)
      \/ r = Sent(FALSE, ch, 1) \/ r = Sent(TRUE, ch, 1)
      \/ \E q \in Put(ch, open, tok, "short") : r = Sent(TRUE, q.chan, 1)
  BY DEF PutFile
<1>2. CASE r \in Put(ch, open, tok, tok)
  <2>1. \/ r = Sent(TRUE, Append(ch, [tok |-> tok, body |-> tok]), 0)
        \/ \E ok \in BOOLEAN : r = Sent(ok, ch, 0)
    BY <1>2 DEF Put
  <2>2. r.fault = 0
    BY <2>1 DEF Sent
  <2> QED BY <1>2, <2>2
<1>3. CASE r = Sent(FALSE, ch, 1) \/ r = Sent(TRUE, ch, 1)
  <2>1. r.fault = 1
    BY <1>3 DEF Sent
  <2> QED BY <2>1
<1>4. CASE \E q \in Put(ch, open, tok, "short") : r = Sent(TRUE, q.chan, 1)
  <2>1. PICK q \in Put(ch, open, tok, "short") : r = Sent(TRUE, q.chan, 1)
    BY <1>4
  <2>2. r.fault = 1
    BY <2>1 DEF Sent
  <2> QED BY <2>2
<1> QED BY <1>1, <1>2, <1>3, <1>4

LEMMA CleanTake ==
    ASSUME NEW ch \in Seq(Element), NEW closed, NEW want, NEW compr,
           NEW r \in Take(ch, closed, want, compr),
           ch # <<>> => Head(ch).body # "short"
    PROVE  r.tok => ch # <<>> /\ r.chan = Tail(ch)
<1>1. CASE ch = <<>> \/ Head(ch).tok # want
  <2>1. r = Got(FALSE, "none", ch)
    BY <1>1 DEF Take
  <2> QED BY <2>1 DEF Got
<1>2. CASE ~(ch = <<>> \/ Head(ch).tok # want)
  <2>1. r = Got(TRUE, Head(ch).body, Tail(ch))
    BY <1>2 DEF Take
  <2> QED BY <1>2, <2>1 DEF Got
<1> QED BY <1>1, <1>2

----------------------------------------------------------------------------
(* What the steps of each part amount to when nothing fails.               *)

CleanlySends ==
    /\ cpc = "send" /\ UNCHANGED <<ver, s2c, up, spc, sat>>
    /\ \/ cpc' = "done" /\ c2s' = c2s
       \/ /\ \/ cpc' = "send" /\ cat < Len(Sends) /\ cat' = cat + 1
             \/ cpc' = "recv" /\ cat' = 1
          /\ \/ spc = "done"
             \/ \E e \in Element :
                   c2s' = Append(c2s, e) /\ e.tok = Sends[cat] /\ e.body # "short"

LEMMA CleanSending ==
    ASSUME TypeInv, up, faults = 0, faults' = 0,
           SendToken \/ SendSource \/ NoWorkingDirectory \/ LocalFailure \/ CppFails
    PROVE  CleanlySends
<1>1. ASSUME cpc = "send"
      PROVE  /\ cat \in 1..Len(Sends) /\ Sends[cat] \in Tokens /\ Sends[cat] # "short"
             /\ ServerOpen \in BOOLEAN /\ (~ServerOpen => spc = "done")
  BY <1>1, Scripts DEF TypeInv, Tokens, ServerOpen
<1>2. ASSUME cpc = "send", UNCHANGED <<ver, s2c, up, spc, sat>>,
             NEW r \in Put(c2s, ServerOpen, Sends[cat], Sends[cat]),
             ClientSent(r) \/ (ClientFails(r) /\ ~r.ok)
      PROVE  CleanlySends
  <2>1. /\ r.ok \in BOOLEAN
        /\ ServerOpen => r.ok /\ r.chan = Append(c2s, [tok |-> Sends[cat], body |-> Sends[cat]])
        /\ ~ServerOpen => r.chan = c2s
    BY <1>1, <1>2, CleanPut
  <2>2. c2s' = r.chan
    BY <1>2 DEF ClientSent, ClientFails
  <2>3. CASE ClientFails(r) /\ ~r.ok
    <3>1. cpc' = "done" /\ c2s' = c2s
      BY <1>1, <1>2, <2>1, <2>2, <2>3 DEF ClientFails, ClientEnds
    <3> QED BY <1>2, <3>1 DEF CleanlySends
  <2>4. CASE ClientSent(r)
    <3>1. \/ cpc' = "send" /\ cat < Len(Sends) /\ cat' = cat + 1
          \/ cpc' = "recv" /\ cat' = 1
      BY <2>4 DEF ClientSent
    <3>2. \/ spc = "done"
          \/ \E e \in Element :
                c2s' = Append(c2s, e) /\ e.tok = Sends[cat] /\ e.body # "short"
      BY <1>1, <1>2, <2>1, <2>2, NewElement
    <3> QED BY <1>2, <3>1, <3>2 DEF CleanlySends
  <2> QED BY <1>2, <2>3, <2>4
<1>3. CASE SendToken
  <2>1. PICK r \in Put(c2s, ServerOpen, Sends[cat], Sends[cat]) :
            ClientSent(r) \/ (ClientFails(r) /\ ~r.ok)
    BY <1>3 DEF SendToken
  <2> QED BY <1>2, <1>3, <2>1 DEF SendToken, request, server
<1>4. CASE SendSource
  <2> DEFINE compr == Sends[cat] = "DOTI" /\ Compressed
  <2>1. PICK r \in PutFile(c2s, ServerOpen, Sends[cat], compr) :
            /\ ClientSent(r) \/ (ClientFails(r) /\ ~r.ok)
            /\ faults' = faults + r.fault
    BY <1>4 DEF SendSource, ClientSent, ClientFails
  <2> HIDE DEF compr
  <2>2. r.fault = 0
    BY <2>1, CleanFile
  <2>3. r \in Put(c2s, ServerOpen, Sends[cat], Sends[cat])
    BY <2>1, <2>2, CleanFile
  <2> QED BY <1>2, <1>4, <2>1, <2>3 DEF SendSource, request, server
<1>5. CASE NoWorkingDirectory
  <2>1. faults' = faults + 1
    BY <1>5 DEF NoWorkingDirectory, ClientSent, Sent
  <2> QED BY <2>1
<1>6. CASE LocalFailure
  <2>1. faults' = faults + 1
    BY <1>6 DEF LocalFailure, ClientFails, Sent
  <2> QED BY <2>1
<1>7. CASE CppFails
  BY <1>7 DEF CppFails, ClientEnds, CleanlySends, request, server
<1> QED BY <1>3, <1>4, <1>5, <1>6, <1>7

CleanlyReads ==
    /\ cpc = "recv" /\ UNCHANGED <<ver, c2s, up, spc, sat>>
    /\ \/ cpc' = "done"
       \/ cpc' = "recv" /\ cat' = cat + 1 /\ s2c # <<>> /\ s2c' = Tail(s2c)

LEMMA CleanReading ==
    ASSUME TypeInv, AnsweredInOrder, faults = 0, faults' = 0,
           \/ ReadDone \/ ReadStatus \/ ReadMessages \/ ReadObject \/ ReadDeps
           \/ ClientTimesOut \/ LogFails \/ StoreFails
    PROVE  CleanlyReads
<1>1. ASSUME cpc = "recv", NEW r \in TakeReply, r.tok
      PROVE  s2c # <<>> /\ r.chan = Tail(s2c)
  <2> DEFINE closed == ~ServerOpen \/ ~up
  <2>1. s2c \in Seq(Element) /\ cat \in Nat
    BY <1>1 DEF TypeInv, Place
  <2>2. s2c # <<>> => Head(s2c).body # "short"
    BY <1>1, <2>1, FollowsHead DEF AnsweredInOrder
  <2>3. r \in Take(s2c, closed, Reply[cat], Compressed)
    BY <1>1 DEF TakeReply
  <2> HIDE DEF closed
  <2> QED BY <1>1, <2>1, <2>2, <2>3, CleanTake
<1>2. ASSUME cpc = "recv", UNCHANGED <<ver, c2s, up, spc, sat>>,
             NEW r \in TakeReply, s2c' = r.chan,
             cpc' = "done" \/ (r.tok /\ NextToken)
      PROVE  CleanlyReads
  BY <1>1, <1>2 DEF CleanlyReads, NextToken
<1>3. CASE ReadDone
  <2>1. PICK r \in TakeReply : s2c' = r.chan /\ (cpc' = "done" \/ (r.tok /\ NextToken))
    BY <1>3 DEF ReadDone, ClientEnds
  <2> QED BY <1>2, <1>3, <2>1 DEF ReadDone, Reading, request, server
<1>4. CASE ReadStatus
  <2>1. PICK r \in TakeReply : s2c' = r.chan /\ (cpc' = "done" \/ (r.tok /\ NextToken))
    BY <1>4 DEF ReadStatus, ClientEnds
  <2> QED BY <1>2, <1>4, <2>1 DEF ReadStatus, Reading, request, server
<1>5. CASE ReadMessages
  <2>1. PICK r \in TakeReply : s2c' = r.chan /\ (cpc' = "done" \/ (r.tok /\ NextToken))
    BY <1>5 DEF ReadMessages, ClientEnds
  <2> QED BY <1>2, <1>5, <2>1 DEF ReadMessages, Reading, request, server
<1>6. CASE ReadObject
  <2>1. PICK r \in TakeReply : s2c' = r.chan /\ (cpc' = "done" \/ (r.tok /\ NextToken))
    BY <1>6 DEF ReadObject, ClientEnds
  <2> QED BY <1>2, <1>6, <2>1 DEF ReadObject, Reading, request, server
<1>7. CASE ReadDeps
  BY <1>7 DEF ReadDeps, Reading, ClientEnds, CleanlyReads, request, server
<1>8. CASE ClientTimesOut
  BY <1>8 DEF ClientTimesOut, ClientEnds, CleanlyReads, request, server
<1>9. CASE StoreFails
  <2>1. faults' = faults + 1
    BY <1>9 DEF StoreFails
  <2> QED BY <2>1
<1>10. CASE LogFails
  <2>1. faults' = faults + 1
    BY <1>10 DEF LogFails
  <2> QED BY <2>1
<1> QED BY <1>3, <1>4, <1>5, <1>6, <1>7, <1>8, <1>9, <1>10

CleanlyWorks ==
    /\ UNCHANGED <<ver, s2c, up, cpc, cat>>
    /\ \/ /\ spc = "recv" /\ c2s # <<>> /\ c2s' = Tail(c2s)
          /\ \/ spc' = "recv" /\ sat' = sat + 1
             \/ spc' = "check" /\ sat' = 1 /\ sat = Len(Sends)
       \/ spc \in {"check", "cc"} /\ spc' \in {"cc", "reply"} /\ UNCHANGED <<c2s, sat>>
       \/ spc' = "done"

LEMMA CleanWorking ==
    ASSUME TypeInv, AskedInOrder, faults = 0, faults' = 0,
           ReadRequest \/ ServerFails \/ CheckCommand \/ CollectCompiler
    PROVE  CleanlyWorks
<1>1. CASE ReadRequest
  <2> DEFINE closed == ~ClientOpen \/ ~up
             compr == Expects[sat] = "FILE" \/ Compressed
  <2>1. PICK r \in Take(c2s, closed, Expects[sat], compr) :
          /\ c2s' = r.chan
          /\ IF ~Complete(r) THEN ServerEnds
             ELSE IF sat < Len(Expects) THEN sat' = sat + 1 /\ UNCHANGED spc
             ELSE spc' = "check" /\ sat' = 1
    BY <1>1 DEF ReadRequest
  <2> HIDE DEF closed, compr
  <2>2. /\ spc = "recv" /\ UNCHANGED <<ver, s2c, up, cpc, cat>>
        /\ c2s \in Seq(Element) /\ sat \in 1..Len(Sends) /\ sat \in Nat
        /\ Len(Sends) \in Nat /\ Expects = Sends
    BY <1>1, Scripts DEF ReadRequest, TypeInv, request, client
  <2>3. c2s # <<>> => Head(c2s).body # "short"
    BY <2>2, FollowsHead DEF AskedInOrder
  <2>4. CASE ~Complete(r)
    BY <2>1, <2>2, <2>4 DEF CleanlyWorks, ServerEnds
  <2>5. CASE Complete(r)
    <3>1. r.tok
      BY <2>5 DEF Complete
    <3>2. c2s # <<>> /\ c2s' = Tail(c2s)
      BY <2>1, <2>2, <2>3, <3>1, CleanTake
    <3> QED BY <2>1, <2>2, <2>5, <3>2 DEF CleanlyWorks
  <2> QED BY <2>4, <2>5
<1>2. CASE ServerFails
  <2>1. faults' = faults + 1
    BY <1>2 DEF ServerFails
  <2> QED BY <2>1
<1>3. CASE CheckCommand
  BY <1>3 DEF CheckCommand, ServerEnds, CleanlyWorks, request, client
<1>4. CASE CollectCompiler
  BY <1>4 DEF CollectCompiler, CleanlyWorks, request, client
<1> QED BY <1>1, <1>2, <1>3, <1>4

CleanlyReplies ==
    /\ spc = "reply" /\ UNCHANGED <<ver, c2s, up, cpc, cat>>
    /\ spc' = "done" \/ (spc' = "reply" /\ (cpc = "recv" => sat' = sat + 1))
    /\ cpc = "recv" => \E e \in Element :
           s2c' = Append(s2c, e) /\ e.tok = Reply[sat] /\ e.body # "short"

LEMMA CleanReplying ==
    ASSUME RpcInv, up, faults = 0, faults' = 0,
           \/ SendStatus \/ SendMessages \/ SendNoObject \/ SendObject \/ SendDeps
           \/ CannotRewrite
    PROVE  CleanlyReplies
<1>1. ASSUME spc = "reply"
      PROVE  /\ sat \in 1..6 /\ Reply[sat] \in Tokens /\ Reply[sat] # "short"
             /\ compiled \in {"ok", "fail"}
  BY <1>1, ReplyTokens DEF RpcInv, TypeInv, ReplyInv, Tokens
<1>2. ClientOpen \in BOOLEAN /\ (cpc = "recv" => ClientOpen)
  BY DEF ClientOpen
<1>3. ASSUME spc = "reply", NEW b \in Tokens \cup {"zero", "ok", "fail"}, b # "short",
             NEW r \in Put(s2c, ClientOpen, Reply[sat], b), s2c' = r.chan
      PROVE  /\ r.ok \in BOOLEAN
             /\ cpc = "recv" => r.ok /\ \E e \in Element :
                  s2c' = Append(s2c, e) /\ e.tok = Reply[sat] /\ e.body # "short"
  <2>1. /\ r.ok \in BOOLEAN
        /\ ClientOpen => r.ok /\ r.chan = Append(s2c, [tok |-> Reply[sat], body |-> b])
    <3>1. r.ok \in BOOLEAN
      BY <1>3, PutOutcome
    <3>2. ASSUME ClientOpen
          PROVE  r.ok /\ r.chan = Append(s2c, [tok |-> Reply[sat], body |-> b])
      <4>1. r = Sent(TRUE, Append(s2c, [tok |-> Reply[sat], body |-> b]), 0)
        BY <1>3, <3>2 DEF Put
      <4> QED BY <4>1 DEF Sent
    <3> QED BY <3>1, <3>2
  <2> QED BY <1>1, <1>2, <1>3, <2>1, NewElement
<1>4. ASSUME NEW tok, NEW r \in PutFile(s2c, ClientOpen, tok, Compressed),
             faults' = faults + r.fault
      PROVE  r \in Put(s2c, ClientOpen, tok, tok)
  <2>1. r.fault = 0
    BY <1>4, CleanFile
  <2> QED BY <1>4, <2>1, CleanFile
<1>5. ASSUME spc = "reply", UNCHANGED <<ver, c2s, up, cpc, cat>>,
             NEW b \in Tokens \cup {"zero", "ok", "fail"}, b # "short",
             NEW r \in Put(s2c, ClientOpen, Reply[sat], b), s2c' = r.chan,
             spc' = "done" \/ (spc' = "reply" /\ (r.ok => sat' = sat + 1))
      PROVE  CleanlyReplies
  <2>1. cpc = "recv" => r.ok /\ \E e \in Element :
           s2c' = Append(s2c, e) /\ e.tok = Reply[sat] /\ e.body # "short"
    BY <1>3, <1>5
  <2> QED BY <1>5, <2>1 DEF CleanlyReplies
<1>6. CASE SendStatus
  <2> DEFINE b == IF Reply[sat] = "STAT" THEN compiled ELSE Reply[sat]
  <2>1. PICK r \in Put(s2c, ClientOpen, Reply[sat], b) : Chained(r)
    BY <1>6 DEF SendStatus
  <2>2. spc = "reply" /\ UNCHANGED <<ver, c2s, up, cpc, cat>>
    BY <1>6 DEF SendStatus, Replying, request, client
  <2>3. b \in Tokens \cup {"zero", "ok", "fail"} /\ b # "short"
    BY <1>1, <2>2
  <2>4. s2c' = r.chan /\ spc' = "reply" /\ (r.ok => sat' = sat + 1)
    BY <2>1, <2>2 DEF Chained
  <2> HIDE DEF b
  <2> QED BY <1>5, <2>1, <2>2, <2>3, <2>4
<1>7. CASE SendMessages
  <2>1. PICK r \in PutFile(s2c, ClientOpen, Reply[sat], Compressed) : Chained(r)
    BY <1>7 DEF SendMessages
  <2>2. spc = "reply" /\ UNCHANGED <<ver, c2s, up, cpc, cat>>
    BY <1>7 DEF SendMessages, Replying, request, client
  <2>3. /\ s2c' = r.chan /\ spc' = "reply" /\ (r.ok => sat' = sat + 1)
        /\ faults' = faults + r.fault
    BY <2>1, <2>2 DEF Chained
  <2>4. r \in Put(s2c, ClientOpen, Reply[sat], Reply[sat])
    BY <1>4, <2>1, <2>3
  <2> QED BY <1>1, <1>5, <2>2, <2>3, <2>4
<1>8. CASE SendNoObject
  <2>1. PICK r \in Put(s2c, ClientOpen, "DOTO", "zero") : s2c' = r.chan
    BY <1>8 DEF SendNoObject
  <2>2. /\ spc = "reply" /\ Reply[sat] = "DOTO" /\ spc' = "done"
        /\ UNCHANGED <<ver, c2s, up, cpc, cat>>
    BY <1>8 DEF SendNoObject, Replying, ServerEnds, request, client
  <2> QED BY <1>5, <2>1, <2>2
<1>9. CASE SendObject
  <2>1. PICK r \in PutFile(s2c, ClientOpen, "DOTO", Compressed) :
          /\ s2c' = r.chan /\ faults' = faults + r.fault
          /\ spc' = "done" \/ (spc' = spc /\ sat' = sat + 1)
    BY <1>9 DEF SendObject, ServerSent, ServerEnds
  <2>2. spc = "reply" /\ Reply[sat] = "DOTO" /\ UNCHANGED <<ver, c2s, up, cpc, cat>>
    BY <1>9 DEF SendObject, Replying, request, client
  <2>3. r \in Put(s2c, ClientOpen, Reply[sat], Reply[sat])
    BY <1>4, <2>1, <2>2
  <2> QED BY <1>1, <1>5, <2>1, <2>2, <2>3
<1>10. CASE SendDeps
  <2>1. /\ spc = "reply" /\ Reply[sat] = "DOTD" /\ spc' = "done"
        /\ UNCHANGED <<ver, c2s, up, cpc, cat>>
    BY <1>10 DEF SendDeps, Replying, ServerEnds, request, client
  <2>2. CASE wantDeps
    <3>1. PICK r \in PutFile(s2c, ClientOpen, "DOTD", Compressed) :
            s2c' = r.chan /\ faults' = faults + r.fault
      BY <1>10, <2>2 DEF SendDeps
    <3>2. r \in Put(s2c, ClientOpen, Reply[sat], Reply[sat])
      BY <1>4, <2>1, <3>1
    <3> QED BY <1>1, <1>5, <2>1, <3>1, <3>2
  <2>3. CASE ~wantDeps
    <3>1. PICK r \in Put(s2c, ClientOpen, "DOTD", "zero") : s2c' = r.chan
      BY <1>10, <2>3 DEF SendDeps
    <3> QED BY <1>5, <2>1, <3>1
  <2> QED BY <2>2, <2>3
<1>11. CASE CannotRewrite
  <2>1. faults' = faults + 1
    BY <1>11 DEF CannotRewrite
  <2> QED BY <2>1
<1> QED BY <1>6, <1>7, <1>8, <1>9, <1>10, <1>11

----------------------------------------------------------------------------
(* The invariant is kept.                                                  *)

LEMMA AgreeSends ==
    ASSUME RpcInv, AskedInOrder, CleanlySends
    PROVE  AskedInOrder' /\ AnsweredInOrder'
<1>1. /\ cpc = "send" /\ UNCHANGED <<s2c, spc, sat>> /\ Sends' = Sends
      /\ c2s \in Seq(Element) /\ s2c = <<>> /\ spc \in {"recv", "done"}
      /\ cat \in 1..Len(Sends) /\ Len(Sends) \in Nat /\ Len(c2s) \in Nat
      /\ cpc' = "recv" => cat' = 1
      /\ spc = "recv" => sat \in Nat /\ Follows(c2s, Sends, sat) /\ sat + Len(c2s) = cat
  BY SameScripts, Scripts DEF CleanlySends, AskedInOrder, RpcInv, TypeInv
<1>2. CASE spc = "done"
  <2>1. AskedInOrder'
    BY <1>1, <1>2 DEF AskedInOrder
  <2>2. Follows(<<>>, Reply, cat')
    BY DEF Follows
  <2>3. AnsweredInOrder'
    BY <1>1, <1>2, <2>2 DEF AnsweredInOrder
  <2> QED BY <2>1, <2>3
<1>3. CASE spc = "recv" /\ cpc' = "done" /\ c2s' = c2s
  BY <1>1, <1>3 DEF AskedInOrder, AnsweredInOrder
<1>4. CASE spc = "recv" /\ ~(cpc' = "done" /\ c2s' = c2s)
  <2>1. PICK e \in Element : c2s' = Append(c2s, e) /\ e.tok = Sends[cat] /\ e.body # "short"
    BY <1>1, <1>4 DEF CleanlySends
  <2> DEFINE a == Append(c2s, e)
  <2>2. Len(a) = Len(c2s) + 1 /\ Follows(a, Sends, sat)
    BY <1>1, <1>4, <2>1, FollowsAppend
  <2>3. c2s' = a
    BY <2>1
  <2> HIDE DEF a
  <2>4. cpc' = "send" => cat' = cat + 1
    BY <1>4 DEF CleanlySends
  <2>5. AskedInOrder'
    BY <1>1, <1>4, <2>2, <2>3, <2>4 DEF AskedInOrder
  <2>6. Follows(<<>>, Reply, cat')
    BY DEF Follows
  <2>7. AnsweredInOrder'
    BY <1>1, <1>4, <2>6 DEF AnsweredInOrder
  <2> QED BY <2>5, <2>7
<1> QED BY <1>1, <1>2, <1>3, <1>4

LEMMA AgreeReads ==
    ASSUME RpcInv, AskedInOrder, AnsweredInOrder, CleanlyReads
    PROVE  AskedInOrder' /\ AnsweredInOrder'
<1>1. /\ cpc = "recv" /\ cpc' # "send" /\ UNCHANGED <<c2s, spc, sat>> /\ Sends' = Sends
      /\ s2c \in Seq(Element) /\ cat \in Nat /\ Len(s2c) \in Nat
      /\ Follows(s2c, Reply, cat)
      /\ spc = "reply" => cat + Len(s2c) = sat
  BY SameScripts DEF CleanlyReads, AnsweredInOrder, RpcInv, TypeInv, Place
<1>2. AskedInOrder'
  BY <1>1 DEF AskedInOrder
<1>3. CASE cpc' = "done"
  BY <1>2, <1>3 DEF AnsweredInOrder
<1>4. CASE cpc' = "recv" /\ cat' = cat + 1 /\ s2c # <<>> /\ s2c' = Tail(s2c)
  <2> DEFINE t == Tail(s2c)
  <2>1. Len(t) = Len(s2c) - 1 /\ Follows(t, Reply, cat + 1)
    BY <1>1, <1>4, FollowsTail
  <2>2. s2c' = t
    BY <1>4
  <2> HIDE DEF t
  <2>3. Follows(s2c', Reply, cat')
    BY <1>4, <2>1, <2>2
  <2>4. spc' = "reply" => cat' + Len(s2c') = sat'
    BY <1>1, <1>4, <2>1, <2>2
  <2>5. AnsweredInOrder'
    BY <2>3, <2>4 DEF AnsweredInOrder
  <2> QED BY <1>2, <2>5
<1> QED BY <1>3, <1>4 DEF CleanlyReads

LEMMA AgreeWorks ==
    ASSUME RpcInv, AskedInOrder, AnsweredInOrder, CleanlyWorks
    PROVE  AskedInOrder' /\ AnsweredInOrder'
<1>1. /\ UNCHANGED <<s2c, cpc, cat>> /\ Sends' = Sends
      /\ c2s \in Seq(Element) /\ Len(c2s) \in Nat /\ Len(Sends) \in Nat
      /\ spc = "recv" => sat \in Nat /\ sat \in 1..Len(Sends) /\ Follows(c2s, Sends, sat)
      /\ cpc = "send" => cat \in 1..Len(Sends)
  BY SameScripts, Scripts DEF CleanlyWorks, AskedInOrder, RpcInv, TypeInv
<1>2. CASE spc' = "done"
  BY <1>1, <1>2 DEF AskedInOrder, AnsweredInOrder
<1>3. CASE spc \in {"check", "cc"} /\ spc' \in {"cc", "reply"} /\ UNCHANGED <<c2s, sat>>
  <2>1. sat = 1 /\ compiled = "no"
    BY <1>3 DEF RpcInv, TypeInv, ReplyInv
  <2>2. s2c = <<>> /\ (cpc = "recv" => cat = 1)
    BY <2>1 DEF RpcInv, ReplyInv, Place
  <2>3. Len(s2c) = 0
    BY <2>2
  <2>4. AskedInOrder'
    BY <1>1, <1>3 DEF AskedInOrder
  <2>5. AnsweredInOrder'
    BY <1>1, <1>3, <2>1, <2>2, <2>3 DEF AnsweredInOrder
  <2> QED BY <2>4, <2>5
<1>4. CASE /\ spc = "recv" /\ c2s # <<>> /\ c2s' = Tail(c2s)
           /\ \/ spc' = "recv" /\ sat' = sat + 1
              \/ spc' = "check" /\ sat' = 1 /\ sat = Len(Sends)
  <2> DEFINE t == Tail(c2s)
  <2>1. t \in Seq(Element) /\ Len(t) = Len(c2s) - 1 /\ Follows(t, Sends, sat + 1)
    BY <1>1, <1>4, FollowsTail
  <2>2. c2s' = t /\ Len(c2s) >= 1
    BY <1>1, <1>4
  <2>3. AnsweredInOrder'
    BY <1>1, <1>4 DEF AnsweredInOrder
  <2> HIDE DEF t
  <2>4. CASE spc' = "recv" /\ sat' = sat + 1
    <3>1. Follows(c2s', Sends', sat')
      BY <1>1, <2>1, <2>2, <2>4
    <3>2. cpc = "send" => s2c = <<>> /\ sat + Len(c2s) = cat
      BY <1>4 DEF AskedInOrder
    <3>3. cpc' = "send" => s2c' = <<>> /\ sat' + Len(c2s') = cat'
      BY <1>1, <1>4, <2>1, <2>2, <2>4, <3>2
    <3>4. AskedInOrder'
      BY <2>4, <3>1, <3>3 DEF AskedInOrder
    <3> QED BY <2>3, <3>4
  <2>5. CASE spc' = "check" /\ sat = Len(Sends)
    <3>1. t = <<>>
      <4>1. ASSUME 1 \in 1..Len(t) PROVE FALSE
        <5>1. sat + 1 + 1 - 1 \in 1..Len(Sends)
          BY <2>1, <4>1 DEF Follows
        <5> QED BY <1>1, <2>5, <5>1
      <4>2. Len(t) \in Nat
        BY <2>1
      <4>3. Len(t) = 0
        BY <4>1, <4>2
      <4> QED BY <2>1, <4>3, EmptySeq
    <3>2. cpc # "send"
      <4>1. cpc = "send" => sat + Len(c2s) = cat
        BY <1>4 DEF AskedInOrder
      <4> QED BY <1>1, <2>2, <2>5, <4>1
    <3>3. AskedInOrder'
      BY <1>1, <2>2, <2>5, <3>1, <3>2 DEF AskedInOrder
    <3> QED BY <2>3, <3>3
  <2> QED BY <1>4, <2>4, <2>5
<1> QED BY <1>2, <1>3, <1>4 DEF CleanlyWorks

LEMMA AgreeReplies ==
    ASSUME RpcInv, AskedInOrder, AnsweredInOrder, CleanlyReplies
    PROVE  AskedInOrder' /\ AnsweredInOrder'
<1>1. /\ spc = "reply" /\ spc' \in {"reply", "done"} /\ UNCHANGED <<c2s, cpc, cat>>
      /\ c2s = <<>> /\ cpc # "send" /\ s2c \in Seq(Element) /\ sat \in 1..6
  BY DEF CleanlyReplies, AskedInOrder, RpcInv, TypeInv
<1>2. AskedInOrder'
  BY <1>1 DEF AskedInOrder
<1>3. CASE cpc # "recv"
  BY <1>1, <1>2, <1>3 DEF AnsweredInOrder
<1>4. CASE cpc = "recv"
  <2>1. PICK e \in Element : s2c' = Append(s2c, e) /\ e.tok = Reply[sat] /\ e.body # "short"
    BY <1>4 DEF CleanlyReplies
  <2>2. /\ cat \in Nat /\ Len(s2c) \in Nat /\ Len(Reply) = 6
        /\ Follows(s2c, Reply, cat) /\ cat + Len(s2c) = sat
    BY <1>1, <1>4 DEF AnsweredInOrder, RpcInv, TypeInv, Place, Reply
  <2> DEFINE a == Append(s2c, e)
  <2>3. Len(a) = Len(s2c) + 1 /\ Follows(a, Reply, cat)
    BY <1>1, <2>1, <2>2, FollowsAppend
  <2>4. s2c' = a
    BY <2>1
  <2> HIDE DEF a
  <2>5. spc' = "reply" => sat' = sat + 1
    BY <1>1, <1>4 DEF CleanlyReplies
  <2>6. AnsweredInOrder'
    BY <1>1, <1>4, <2>2, <2>3, <2>4, <2>5 DEF AnsweredInOrder
  <2> QED BY <1>2, <2>6
<1> QED BY <1>3, <1>4

\* Failures are only ever added.
LEMMA FaultsGrow ==
    ASSUME faults \in Nat, [Next]_vars
    PROVE  faults' \in Nat /\ (faults' = 0 => faults = 0)
<1>1. CASE faults' = faults \/ faults' = faults + 1
  BY <1>1
<1>2. ASSUME NEW ch, NEW open, NEW tok, NEW compr, NEW r \in PutFile(ch, open, tok, compr),
             faults' = faults + r.fault
      PROVE  faults' = faults \/ faults' = faults + 1
  <2>1. r.fault \in {0, 1}
    BY <1>2, CleanFile
  <2> QED BY <1>2, <2>1
<1>3. ASSUME NEW ch, NEW open, NEW tok, NEW body, NEW r \in Put(ch, open, tok, body),
             faults' = faults + r.fault
      PROVE  faults' = faults
  <2>1. \/ r = Sent(TRUE, Append(ch, [tok |-> tok, body |-> body]), 0)
        \/ \E ok \in BOOLEAN : r = Sent(ok, ch, 0)
    BY <1>3 DEF Put
  <2>2. r.fault = 0
    BY <2>1 DEF Sent
  <2> QED BY <1>3, <2>2
<1>4. CASE SendToken
  BY <1>1, <1>3, <1>4 DEF SendToken, ClientSent, ClientFails
<1>5. CASE SendSource
  BY <1>1, <1>2, <1>5 DEF SendSource, ClientSent, ClientFails
<1>6. CASE SendStatus
  BY <1>1, <1>3, <1>6 DEF SendStatus, Chained
<1>7. CASE SendMessages
  BY <1>1, <1>2, <1>7 DEF SendMessages, Chained
<1>8. CASE SendObject
  BY <1>1, <1>2, <1>8 DEF SendObject, ServerSent
<1>9. CASE SendDeps
  BY <1>1, <1>2, <1>3, <1>9 DEF SendDeps
<1>10. CASE NoWorkingDirectory
  BY <1>1, <1>10 DEF NoWorkingDirectory, ClientSent, Sent
<1>11. CASE LocalFailure
  BY <1>1, <1>11 DEF LocalFailure, ClientFails, Sent
<1>12. CASE ReadDone \/ ReadStatus \/ ReadMessages \/ ReadObject \/ ReadDeps
  BY <1>1, <1>12 DEF ReadDone, ReadStatus, ReadMessages, ReadObject, ReadDeps
<1>13. CASE ClientTimesOut \/ CppFails \/ LogFails \/ StoreFails
  BY <1>1, <1>13 DEF ClientTimesOut, CppFails, LogFails, StoreFails
<1>14. CASE ReadRequest \/ CheckCommand \/ CollectCompiler \/ SendNoObject
  BY <1>1, <1>14 DEF ReadRequest, CheckCommand, CollectCompiler, SendNoObject
<1>15. CASE ServerFails \/ CannotRewrite \/ Break
  BY <1>1, <1>15 DEF ServerFails, CannotRewrite, Break
<1>16. CASE UNCHANGED vars
  BY <1>1, <1>16 DEF vars
<1> QED BY <1>4, <1>5, <1>6, <1>7, <1>8, <1>9, <1>10, <1>11, <1>12, <1>13, <1>14, <1>15, <1>16
        DEF Next, ClientStep, ServerStep, Failure, ClientFailure, ServerFailure, Finished

LEMMA AgreeInvKept ==
    ASSUME RpcInv, AgreeInv, [Next]_vars
    PROVE  AgreeInv'
<1>1. faults' \in Nat /\ (faults' = 0 => faults = 0)
  BY FaultsGrow DEF AgreeInv
<1>2. ASSUME faults' = 0
      PROVE  up' /\ AskedInOrder' /\ AnsweredInOrder'
  <2>1. /\ faults = 0 /\ up /\ AskedInOrder /\ AnsweredInOrder /\ TypeInv
    BY <1>1, <1>2 DEF AgreeInv, RpcInv
  <2>2. CASE SendToken \/ SendSource \/ NoWorkingDirectory \/ LocalFailure \/ CppFails
    <3>1. CleanlySends
      BY <1>2, <2>1, <2>2, CleanSending
    <3> QED BY <2>1, <3>1, AgreeSends DEF CleanlySends
  <2>3. CASE \/ ReadDone \/ ReadStatus \/ ReadMessages \/ ReadObject \/ ReadDeps
             \/ ClientTimesOut \/ LogFails \/ StoreFails
    <3>1. CleanlyReads
      BY <1>2, <2>1, <2>3, CleanReading
    <3> QED BY <2>1, <3>1, AgreeReads DEF CleanlyReads
  <2>4. CASE ReadRequest \/ ServerFails \/ CheckCommand \/ CollectCompiler
    <3>1. CleanlyWorks
      BY <1>2, <2>1, <2>4, CleanWorking
    <3> QED BY <2>1, <3>1, AgreeWorks DEF CleanlyWorks
  <2>5. CASE \/ SendStatus \/ SendMessages \/ SendNoObject \/ SendObject \/ SendDeps
             \/ CannotRewrite
    <3>1. CleanlyReplies
      BY <1>2, <2>1, <2>5, CleanReplying
    <3> QED BY <2>1, <3>1, AgreeReplies DEF CleanlyReplies
  <2>6. CASE Break
    BY <1>2, <2>1, <2>6 DEF Break
  <2>7. CASE UNCHANGED vars
    <3>1. UNCHANGED <<ver, c2s, s2c, up, cpc, cat, spc, sat>>
      BY <2>7 DEF vars, request, client, server
    <3>2. Sends' = Sends
      BY <3>1, SameScripts
    <3> QED BY <2>1, <3>1, <3>2 DEF AskedInOrder, AnsweredInOrder
  <2> QED BY <2>2, <2>3, <2>4, <2>5, <2>6, <2>7
          DEF Next, ClientStep, ServerStep, Failure, ClientFailure, ServerFailure, Finished
<1> QED BY <1>1, <1>2 DEF AgreeInv

LEMMA AgreeInvInit == Init => AgreeInv
<1> SUFFICES ASSUME Init PROVE AgreeInv
  OBVIOUS
<1>1. Follows(<<>>, Sends, 1)
  BY DEF Follows
<1>2. c2s = <<>> /\ Len(c2s) = 0 /\ s2c = <<>> /\ up /\ faults = 0
      /\ cpc = "send" /\ cat = 1 /\ spc = "recv" /\ sat = 1
  BY DEF Init
<1> QED BY <1>1, <1>2 DEF AgreeInv, AskedInOrder, AnsweredInOrder

LEMMA AgreeInvAgrees ==
    ASSUME RpcInv, AgreeInv
    PROVE  ScriptsAgree
<1> SUFFICES ASSUME faults = 0
             PROVE  /\ spc = "recv" /\ c2s # <<>> => Head(c2s).tok = Expects[sat]
                    /\ cpc = "recv" /\ s2c # <<>> => Head(s2c).tok = Reply[cat]
                    /\ spc \in {"cc", "reply"} => c2s = <<>>
  BY DEF ScriptsAgree
<1>1. /\ AskedInOrder /\ AnsweredInOrder /\ c2s \in Seq(Element) /\ s2c \in Seq(Element)
      /\ spc = "recv" => sat \in Nat /\ Expects[sat] = Sends[sat]
      /\ cpc = "recv" => cat \in Nat
  BY Scripts DEF AgreeInv, RpcInv, TypeInv, Place
<1>2. spc = "recv" /\ c2s # <<>> => Head(c2s).tok = Expects[sat]
  BY <1>1, FollowsHead DEF AskedInOrder
<1>3. cpc = "recv" /\ s2c # <<>> => Head(s2c).tok = Reply[cat]
  BY <1>1, FollowsHead DEF AnsweredInOrder
<1> QED BY <1>1, <1>2, <1>3 DEF AskedInOrder

(***************************************************************************)
(* Both ends go by the same script for every protocol and every list of    *)
(* files: as long as nothing fails each reads the token the other sent,    *)
(* and the compiler starts with the request read to its end (clirpc.c,     *)
(* srvrpc.c, dcc_run_job, dcc_retrieve_results).                           *)
(***************************************************************************)
THEOREM ScriptsAlwaysAgree == Spec => []ScriptsAgree
<1>1. RpcInv /\ AgreeInv /\ [Next]_vars => AgreeInv'
  BY AgreeInvKept
<1>2. RpcInv /\ AgreeInv => ScriptsAgree
  BY AgreeInvAgrees
<1> QED BY AgreeInvInit, ExchangeInOrder, <1>1, <1>2, PTL DEF Spec

----------------------------------------------------------------------------
(* The session around the exchange: its invariant.                         *)

SessionType ==
    /\ cs \in {"connect", "hello", "answer", "init", "token", "note", "request"}
    /\ ss \in {"access", "hello", "token", "list", "job"}
    /\ conf \in [client : BOOLEAN, server : BOOLEAN, listens : BOOLEAN, ssh : BOOLEAN,
                 legs : {2, 3}, flags : BOOLEAN]
    /\ leg \in [client : Nat, server : Nat] /\ faults \in Nat
    /\ ss \in {"hello", "token", "list"} => conf.server
    /\ ss \in {"token", "list"} => conf.client
    /\ cs \notin {"connect", "request"} => conf.client

\* A yes to the client is the last the server sends before the answer.
NoteLast ==
    \A i \in 1..Len(s2c) : s2c[i].tok = "NOTE" =>
        /\ i = Len(s2c) /\ conf.server /\ (ss = "job" \/ spc = "done")
        /\ s2c[i].body = "y" => ss = "job"

\* Before the client comes to the request, neither end has begun with it.
BeforeRequest ==
    /\ ver \in {1, 2, 3} /\ cat = 1 /\ cstatus = "ok" /\ output = "old"
    /\ sat = 1 /\ compiled = "no" /\ sret = "ok"
    /\ cpc \in {"send", "done"} /\ cret = (IF cpc = "done" THEN "error" ELSE "none")
    /\ spc \in {"recv", "done"}
    /\ c2s \in Seq(Element) /\ s2c \in Seq(Element)
    /\ \A i \in 1..Len(c2s) : c2s[i].tok \in Greetings
    /\ NoteLast
    /\ cs = "connect" => c2s = <<>> /\ s2c = <<>> /\ ss = "access"

\* The elements the client has sent, and those the server has read.
Said == IF cs \in {"connect", "hello"} THEN 0
        ELSE IF cs = "answer" THEN 1
        ELSE IF cs = "init" THEN (IF leg.client = 1 THEN 1 ELSE 2)
        ELSE IF cs = "token" THEN 2
        ELSE conf.legs

Heard == IF ss \in {"access", "hello"} THEN 0
         ELSE IF ss = "token" THEN (IF leg.server = 2 THEN 1 ELSE 2)
         ELSE conf.legs

Whole(ch) == \A i \in 1..Len(ch) : ch[i].body # "short"

\* As long as nothing fails, two ends that have not given up count alike.
HandshakeInv ==
    /\ up
    /\ cpc = "send" =>
          /\ leg.client \in {1, 3}
          /\ cs \in {"connect", "hello", "answer", "token"} => leg.client = 1
    /\ spc = "recv" =>
          /\ Whole(c2s)
          /\ ss \in {"access", "hello"} => leg.server = 2
          /\ ss = "token" => leg.server \in {2, 4} /\ (leg.server = 4 => conf.legs = 3)
    /\ cpc = "send" /\ spc = "recv" /\ (ss = "job" => conf.server) => Said = Heard + Len(c2s)

WithinRequest ==
    /\ RpcInv /\ AgreeInv
    /\ conf.client => conf.server /\ ss = "job"
    /\ ss # "job" => /\ spc \in {"recv", "done"}
                     /\ \A i \in 1..Len(c2s) : c2s[i].tok \notin Greetings \ {"?"}

SessionInv ==
    /\ SessionType
    /\ cs # "request" => BeforeRequest /\ (faults = 0 => HandshakeInv)
    /\ cs = "request" => WithinRequest

----------------------------------------------------------------------------
(* What a step before the request amounts to.                              *)

Greets ==
    /\ UNCHANGED <<ver, cat, cstatus, output, sat, compiled, sret, conf>>
    /\ \/ UNCHANGED <<cpc, cret>>
       \/ cpc' = "done" /\ cret' = "error"
    /\ spc' = spc \/ spc' = "done"
    /\ ss = "job" => ss' = "job"
    /\ \/ RestOf(c2s, c2s')
       \/ \E e \in Element : c2s' = Append(c2s, e) /\ e.tok \in Greetings
    /\ \/ RestOf(s2c, s2c')
       \/ \E e \in Element :
             /\ s2c' = Append(s2c, e) /\ ss # "job" /\ spc # "done"
             /\ e.tok = "NOTE" => /\ conf.server /\ (ss' = "job" \/ spc' = "done")
                                  /\ e.body = "y" => ss' = "job"

LEMMA GreetsKeeps ==
    ASSUME SessionType, BeforeRequest, Greets, cs' # "connect"
    PROVE  BeforeRequest'
<1>1. /\ c2s \in Seq(Element) /\ s2c \in Seq(Element)
      /\ Len(c2s) \in Nat /\ Len(s2c) \in Nat
      /\ \A i \in 1..Len(c2s) : c2s[i].tok \in Greetings
  BY DEF BeforeRequest
<1>2. c2s' \in Seq(Element) /\ \A i \in 1..Len(c2s') : c2s'[i].tok \in Greetings
  <2>1. CASE RestOf(c2s, c2s')
    <3>1. "?" \in Greetings
      BY DEF Greetings
    <3> QED BY <1>1, <2>1, <3>1 DEF RestOf
  <2>2. ASSUME NEW e \in Element, c2s' = Append(c2s, e), e.tok \in Greetings
        PROVE  c2s' \in Seq(Element) /\ \A i \in 1..Len(c2s') : c2s'[i].tok \in Greetings
    <3> DEFINE a == Append(c2s, e)
    <3>1. /\ a \in Seq(Element) /\ Len(a) = Len(c2s) + 1
          /\ \A i \in 1..Len(c2s) : a[i] = c2s[i]
          /\ a[Len(c2s) + 1] = e
      BY <1>1, Appended
    <3>2. c2s' = a
      BY <2>2
    <3> HIDE DEF a
    <3>3. \A i \in 1..Len(a) : i \in 1..Len(c2s) \/ i = Len(c2s) + 1
      BY <1>1, <3>1
    <3> QED BY <1>1, <2>2, <3>1, <3>2, <3>3
  <2> QED BY <2>1, <2>2 DEF Greets
<1>3. s2c' \in Seq(Element) /\ NoteLast'
  <2>1. conf' = conf /\ (ss = "job" => ss' = "job") /\ (spc = "done" => spc' = "done")
    BY DEF Greets
  <2>2. CASE RestOf(s2c, s2c')
    <3>1. s2c' \in Seq(Element) /\ Len(s2c') \in Nat
      BY <2>2 DEF RestOf
    <3>2. ASSUME NEW i \in 1..Len(s2c'), s2c'[i].tok = "NOTE"
          PROVE  /\ i = Len(s2c') /\ conf.server /\ (ss' = "job" \/ spc' = "done")
                 /\ s2c'[i].body = "y" => ss' = "job"
      <4>1. PICK j \in 1..Len(s2c) : s2c'[i] = s2c[j] /\ Len(s2c) - j = Len(s2c') - i
        BY <2>2, <3>2 DEF RestOf
      <4>2. /\ j = Len(s2c) /\ conf.server /\ (ss = "job" \/ spc = "done")
            /\ s2c[j].body = "y" => ss = "job"
        BY <3>2, <4>1 DEF BeforeRequest, NoteLast
      <4> QED BY <1>1, <2>1, <3>1, <4>1, <4>2
    <3> QED BY <2>1, <3>1, <3>2 DEF NoteLast
  <2>3. ASSUME NEW e \in Element, s2c' = Append(s2c, e), ss # "job", spc # "done",
               e.tok = "NOTE" => /\ conf.server /\ (ss' = "job" \/ spc' = "done")
                                 /\ e.body = "y" => ss' = "job"
        PROVE  s2c' \in Seq(Element) /\ NoteLast'
    <3> DEFINE a == Append(s2c, e)
    <3>1. /\ a \in Seq(Element) /\ Len(a) = Len(s2c) + 1
          /\ \A i \in 1..Len(s2c) : a[i] = s2c[i]
          /\ a[Len(s2c) + 1] = e
      BY <1>1, Appended
    <3>2. s2c' = a
      BY <2>3
    <3> HIDE DEF a
    <3>3. \A i \in 1..Len(a) : i \in 1..Len(s2c) \/ i = Len(s2c) + 1
      BY <1>1, <3>1
    <3>4. \A i \in 1..Len(s2c) : s2c[i].tok # "NOTE"
      BY <2>3 DEF BeforeRequest, NoteLast
    <3>5. \A i \in 1..Len(a) : a[i].tok = "NOTE" => i = Len(a) /\ a[i] = e
      BY <1>1, <3>1, <3>3, <3>4
    <3> QED BY <2>1, <2>3, <3>1, <3>2, <3>5 DEF NoteLast
  <2> QED BY <2>2, <2>3 DEF Greets
<1> QED BY <1>2, <1>3 DEF BeforeRequest, Greets

LEMMA Heeded ==
    ASSUME s2c \in Seq(Element), NEW tok, NEW r \in TakeAnswer(tok)
    PROVE  /\ RestOf(s2c, r.chan)
           /\ r.tok => /\ s2c # <<>> /\ Head(s2c).tok = tok
                       /\ r.body \in {"none", "mixed"} \/ r.body = Head(s2c).body
<1> DEFINE closed == ~ServerOpen \/ ~up
           compr == FALSE
<1>1. r \in Take(s2c, closed, tok, compr)
  BY DEF TakeAnswer
<1> HIDE DEF closed, compr
<1>2. /\ RestOf(s2c, r.chan)
      /\ r.tok => /\ 1 \in 1..Len(s2c) /\ s2c[1].tok = tok
                  /\ r.body \in {"none", "mixed"} \/ r.body = s2c[1].body
  BY <1>1, TakeOutcome
<1>3. 1 \in 1..Len(s2c) => s2c # <<>> /\ Head(s2c) = s2c[1]
  OBVIOUS
<1> QED BY <1>2, <1>3

LEMMA Asked ==
    ASSUME c2s \in Seq(Element), NEW tok, NEW r \in TakeAsked(tok)
    PROVE  /\ RestOf(c2s, r.chan)
           /\ r.tok => c2s # <<>> /\ Head(c2s).tok = tok
<1> DEFINE closed == ~ClientOpen \/ ~up
           compr == FALSE
<1>1. r \in Take(c2s, closed, tok, compr)
  BY DEF TakeAsked
<1> HIDE DEF closed, compr
<1>2. /\ RestOf(c2s, r.chan)
      /\ r.tok => 1 \in 1..Len(c2s) /\ c2s[1].tok = tok
  BY <1>1, TakeOutcome
<1>3. 1 \in 1..Len(c2s) => c2s # <<>> /\ Head(c2s) = c2s[1]
  OBVIOUS
<1> QED BY <1>2, <1>3

Gains(ch, chan, tok, body) ==
    \E e \in Element : chan = Append(ch, e) /\ e.tok = tok /\ e.body = body

LEMMA Posted ==
    ASSUME NEW ch \in Seq(Element), NEW open, NEW tok \in Tokens,
           NEW body \in Tokens \cup {"y", "n"}, NEW r \in Put(ch, open, tok, body)
    PROVE  /\ r.ok \in BOOLEAN /\ (~r.ok => r.chan = ch)
           /\ r.chan = ch \/ Gains(ch, r.chan, tok, body)
<1>1. \/ r = Sent(TRUE, Append(ch, [tok |-> tok, body |-> body]), 0)
      \/ \E ok \in BOOLEAN : r = Sent(ok, ch, 0)
  BY DEF Put
<1>2. CASE r = Sent(TRUE, Append(ch, [tok |-> tok, body |-> body]), 0)
  <2>1. r.ok = TRUE /\ r.chan = Append(ch, [tok |-> tok, body |-> body])
    BY <1>2 DEF Sent
  <2> DEFINE e == [tok |-> tok, body |-> body]
  <2>2. e \in Element /\ e.tok = tok /\ e.body = body
    BY NewElement
  <2>3. r.chan = Append(ch, e)
    BY <2>1
  <2> HIDE DEF e
  <2>4. Gains(ch, r.chan, tok, body)
    BY <2>2, <2>3 DEF Gains
  <2> QED BY <2>1, <2>4
<1>3. ASSUME NEW ok \in BOOLEAN, r = Sent(ok, ch, 0)
      PROVE  r.ok \in BOOLEAN /\ r.chan = ch
  BY <1>3 DEF Sent
<1> QED BY <1>1, <1>2, <1>3

LEMMA TokenPosted ==
    ASSUME NEW ch \in Seq(Element), NEW open, NEW call, NEW r \in PutToken(ch, open, call)
    PROVE  /\ r.ok \in BOOLEAN
           /\ r.chan = ch \/ Gains(ch, r.chan, "TLEN", "TLEN")
<1>1. CASE call <= conf.legs
  <2>1. r \in Put(ch, open, "TLEN", "TLEN") /\ "TLEN" \in Tokens
    BY <1>1 DEF PutToken, Tokens
  <2> QED BY <2>1, Posted
<1>2. CASE ~(call <= conf.legs)
  <2>1. r = Sent(TRUE, ch, 0)
    BY <1>2 DEF PutToken
  <2> QED BY <2>1 DEF Sent
<1> QED BY <1>1, <1>2

LEMMA ClientGreets ==
    ASSUME SessionType, BeforeRequest,
           \/ ConnectFails \/ SendHandshake \/ ReadHandshake \/ InitContext
           \/ ReadToken \/ SessionTimesOut \/ ClientMechanismFails
    PROVE  /\ Greets /\ cs' \in {cs, "hello", "answer", "init", "token", "note"}
           /\ ss' = ss /\ (cs' = "connect" => UNCHANGED <<c2s, s2c>>)
<1>1. c2s \in Seq(Element) /\ s2c \in Seq(Element)
      /\ RestOf(c2s, c2s) /\ RestOf(s2c, s2c)
      /\ "*" \in Tokens /\ "*" \in Greetings /\ "TLEN" \in Greetings
  BY SameRest DEF BeforeRequest, Tokens, Greetings
<1> DEFINE Stays == UNCHANGED <<ver, cstatus, output, sat, compiled, sret, conf, ss>>
           Says == \/ RestOf(c2s, c2s')
                   \/ \E e \in Element : c2s' = Append(c2s, e) /\ e.tok \in Greetings
           Ends == /\ cat' = cat
                   /\ UNCHANGED <<cpc, cret>> \/ (cpc' = "done" /\ cret' = "error")
<1>2. ASSUME Stays, Says, Ends, RestOf(s2c, s2c'), spc' = spc \/ spc' = "done"
      PROVE  Greets
  BY <1>2 DEF Greets
<1>3. CASE ConnectFails
  <2>1. Stays /\ Ends /\ UNCHANGED <<c2s, s2c, cs>> /\ (spc' = spc \/ spc' = "done")
    BY <1>3 DEF ConnectFails, ClientEnds, KeepClient, request
  <2> QED BY <1>1, <1>2, <2>1
<1>4. CASE SendHandshake
  <2>1. PICK r \in Put(c2s, ServerOpen, "*", "*") :
          c2s' = r.chan /\ IF r.ok THEN ClientOn("answer") ELSE ClientRefuses
    BY <1>4 DEF SendHandshake
  <2>2. Stays /\ UNCHANGED <<s2c, spc>> /\ cs = "hello"
    BY <1>4 DEF SendHandshake, KeepClient, KeepServer, request, server
  <2>3. Says
    <3> DEFINE open == ServerOpen
    <3>1. r \in Put(c2s, open, "*", "*")
      BY <2>1
    <3> HIDE DEF open
    <3>2. r.chan = c2s \/ Gains(c2s, r.chan, "*", "*")
      BY <1>1, <3>1, Posted
    <3> QED BY <1>1, <2>1, <3>2 DEF Gains
  <2>4. Ends /\ cs' \in {cs, "answer"}
    BY <2>1, <2>2 DEF ClientOn, ClientRefuses, ClientEnds, BeforeRequest
  <2> QED BY <1>1, <1>2, <2>2, <2>3, <2>4
<1>5. CASE ReadHandshake
  <2>1. PICK r \in TakeAnswer("*") :
          s2c' = r.chan /\ IF r.tok THEN ClientOn("init") ELSE ClientRefuses
    BY <1>5 DEF ReadHandshake
  <2>2. Stays /\ UNCHANGED <<c2s, spc>> /\ cs = "answer"
    BY <1>5 DEF ReadHandshake, KeepClient, KeepServer, request, server
  <2>3. RestOf(s2c, s2c')
    BY <1>1, <2>1, Heeded
  <2>4. Ends /\ cs' \in {cs, "init"}
    BY <2>1, <2>2 DEF ClientOn, ClientRefuses, ClientEnds, BeforeRequest
  <2> QED BY <1>1, <1>2, <2>2, <2>3, <2>4
<1>6. CASE InitContext
  <2>1. PICK r \in PutToken(c2s, ServerOpen, leg.client) :
          /\ c2s' = r.chan
          /\ IF ~r.ok THEN ClientRefuses
             ELSE IF leg.client < conf.legs THEN ClientOn("token")
             ELSE IF conf.flags THEN ClientOn("note") ELSE ClientRefuses
    BY <1>6 DEF InitContext
  <2>2. Stays /\ UNCHANGED <<s2c, spc>> /\ cs = "init"
    BY <1>6 DEF InitContext, KeepClient, KeepServer, request, server
  <2>3. Says
    BY <1>1, <2>1, TokenPosted DEF Gains
  <2>4. Ends /\ cs' \in {cs, "token", "note"}
    BY <2>1, <2>2 DEF ClientOn, ClientRefuses, ClientEnds, BeforeRequest
  <2> QED BY <1>1, <1>2, <2>2, <2>3, <2>4
<1>7. CASE ReadToken
  <2>1. PICK r \in TakeAnswer("TLEN") :
          s2c' = r.chan /\ IF Complete(r) THEN ClientOn("init") ELSE ClientRefuses
    BY <1>7 DEF ReadToken
  <2>2. Stays /\ UNCHANGED <<c2s, spc>> /\ cs = "token"
    BY <1>7 DEF ReadToken, KeepClient, KeepServer, request, server
  <2>3. RestOf(s2c, s2c')
    BY <1>1, <2>1, Heeded
  <2>4. Ends /\ cs' \in {cs, "init"}
    BY <2>1, <2>2 DEF ClientOn, ClientRefuses, ClientEnds, BeforeRequest
  <2> QED BY <1>1, <1>2, <2>2, <2>3, <2>4
<1>8. CASE SessionTimesOut \/ ClientMechanismFails
  <2>1. Stays /\ UNCHANGED <<c2s, s2c, spc, cs>> /\ Ends
    BY <1>8 DEF SessionTimesOut, ClientMechanismFails, ClientRefuses, ClientEnds,
                KeepClient, KeepServer, request, server
  <2> QED BY <1>1, <1>2, <2>1
<1> QED BY <1>3, <1>4, <1>5, <1>6, <1>7, <1>8

LEMMA ServerGreets ==
    ASSUME SessionType, BeforeRequest, cs # "request",
           \/ CheckAddress \/ AnswerHandshake \/ AcceptContext \/ NotifyClient
           \/ ServerMechanismFails
           \/ ss = "job" /\ (ServerStep \/ ServerFailure) /\ UNCHANGED session
    PROVE  /\ Greets /\ cs' = cs /\ UNCHANGED <<cpc, cret>> /\ cs # "connect"
           /\ ss' \in {"access", "hello", "token", "list", "job"}
           /\ ss' = "hello" => ss = "hello" \/ conf.server
           /\ ss' \in {"token", "list"} => ss \in {"hello", "token", "list"} /\ conf.client
<1>1. /\ c2s \in Seq(Element) /\ s2c \in Seq(Element)
      /\ RestOf(c2s, c2s) /\ RestOf(s2c, s2c)
      /\ \A i \in 1..Len(c2s) : c2s[i].tok \in Greetings
      /\ spc \in {"recv", "done"} /\ (cs = "connect" => ss = "access" /\ c2s = <<>>)
      /\ cs # "connect" => conf.client
  BY SameRest DEF SessionType, BeforeRequest
<1> DEFINE Stays == UNCHANGED <<ver, cat, cpc, cret, cstatus, output, sat, compiled, sret, conf, cs>>
           Tells == \/ RestOf(s2c, s2c')
                    \/ \E e \in Element :
                          /\ s2c' = Append(s2c, e) /\ ss # "job" /\ spc # "done"
                          /\ e.tok = "NOTE" => /\ conf.server /\ (ss' = "job" \/ spc' = "done")
                                               /\ e.body = "y" => ss' = "job"
           Goes == (spc' = spc \/ spc' = "done") /\ (ss = "job" => ss' = "job")
<1>2. ASSUME Stays, RestOf(c2s, c2s'), Tells, Goes
      PROVE  Greets
  BY <1>2 DEF Greets
<1>3. CASE CheckAddress
  <2>1. Stays /\ UNCHANGED <<c2s, s2c>> /\ cs # "connect" /\ ss = "access"
    BY <1>3 DEF CheckAddress, KeepJob, KeepCaller, request, client
  <2>2. /\ Goes /\ ss' \in {"access", "hello", "job"}
        /\ ss' = "hello" => conf.server
    BY <1>3, <2>1 DEF CheckAddress, ServerOn, ServerRefuses
  <2> QED BY <1>1, <1>2, <2>1, <2>2
<1>4. CASE AnswerHandshake
  <2>1. PICK r \in TakeAsked("*") :
          /\ c2s' = r.chan
          /\ \/ ~r.tok /\ ServerRefuses /\ UNCHANGED s2c
             \/ r.tok /\ \E w \in Put(s2c, ClientOpen, "*", "*") :
                   s2c' = w.chan /\ IF w.ok THEN ServerOn("token") ELSE ServerRefuses
    BY <1>4 DEF AnswerHandshake
  <2>2. Stays /\ ss = "hello" /\ spc # "done" /\ cs # "connect" /\ conf.client
    BY <1>1, <1>4 DEF AnswerHandshake, KeepJob, KeepCaller, ServerOpen, request, client
  <2>3. RestOf(c2s, c2s')
    BY <1>1, <2>1, Asked
  <2>4. Goes /\ ss' \in {"hello", "token"}
    BY <2>1, <2>2 DEF ServerOn, ServerRefuses
  <2>5. Tells
    <3> DEFINE open == ClientOpen
    <3>1. CASE UNCHANGED s2c
      BY <1>1, <3>1
    <3>2. ASSUME NEW w \in Put(s2c, open, "*", "*"), s2c' = w.chan
          PROVE  Tells
      <4> HIDE DEF open
      <4>1. "*" \in Tokens
        BY DEF Tokens
      <4>2. w.chan = s2c \/ Gains(s2c, w.chan, "*", "*")
        BY <1>1, <3>2, <4>1, Posted
      <4> QED BY <1>1, <2>2, <3>2, <4>2 DEF Gains
    <3> QED BY <2>1, <3>1, <3>2
  <2> QED BY <1>2, <2>2, <2>3, <2>4, <2>5
<1>5. CASE AcceptContext
  <2>1. PICK r \in TakeAsked("TLEN") :
          /\ c2s' = r.chan
          /\ \/ ~Complete(r) /\ ServerRefuses /\ UNCHANGED s2c
             \/ /\ Complete(r)
                /\ \E w \in PutToken(s2c, ClientOpen, leg.server) :
                      /\ s2c' = w.chan
                      /\ IF ~w.ok THEN ServerRefuses
                         ELSE IF leg.server < conf.legs THEN ServerOn("token")
                         ELSE IF conf.flags THEN ServerOn("list") ELSE ServerRefuses
    BY <1>5 DEF AcceptContext
  <2>2. Stays /\ ss = "token" /\ spc # "done" /\ cs # "connect" /\ conf.client
    BY <1>1, <1>5 DEF AcceptContext, KeepJob, KeepCaller, ServerOpen, request, client
  <2>3. RestOf(c2s, c2s')
    BY <1>1, <2>1, Asked
  <2>4. Goes /\ ss' \in {"token", "list"}
    BY <2>1, <2>2 DEF ServerOn, ServerRefuses
  <2>5. Tells
    <3>1. CASE UNCHANGED s2c
      BY <1>1, <3>1
    <3>2. ASSUME NEW w \in PutToken(s2c, ClientOpen, leg.server), s2c' = w.chan
          PROVE  Tells
      <4>1. w.chan = s2c \/ Gains(s2c, w.chan, "TLEN", "TLEN")
        BY <1>1, <3>2, TokenPosted
      <4> QED BY <1>1, <2>2, <3>2, <4>1 DEF Gains
    <3> QED BY <2>1, <3>1, <3>2
  <2> QED BY <1>2, <2>2, <2>3, <2>4, <2>5
<1>6. CASE NotifyClient
  <2>1. PICK g \in Grants :
          \E w \in Put(s2c, ClientOpen, "NOTE", IF g.granted THEN "y" ELSE "n") :
                /\ s2c' = w.chan
                /\ IF w.ok /\ g.granted THEN ServerOn("job") ELSE ServerRefuses
    BY <1>6 DEF NotifyClient
  <2> DEFINE body == IF g.granted THEN "y" ELSE "n"
             open == ClientOpen
  <2>2. PICK w \in Put(s2c, open, "NOTE", body) :
                /\ s2c' = w.chan
                /\ IF w.ok /\ g.granted THEN ServerOn("job") ELSE ServerRefuses
    BY <2>1
  <2>3. /\ Stays /\ ss = "list" /\ spc # "done" /\ c2s' = c2s
        /\ cs # "connect" /\ conf.client /\ conf.server
    BY <1>1, <1>6 DEF NotifyClient, KeepJob, KeepCaller, ServerOpen, SessionType, request, client
  <2>4. Goes /\ ss' \in {"list", "job"} /\ (ss' = "job" \/ spc' = "done")
    BY <2>2, <2>3 DEF ServerOn, ServerRefuses
  <2>5. CASE s2c' = s2c
    BY <1>1, <1>2, <2>3, <2>4, <2>5
  <2>6. CASE s2c' # s2c
    <3>1. body \in Tokens \cup {"y", "n"} /\ "NOTE" \in Tokens
      BY DEF Tokens
    <3>2. (body = "y" <=> g.granted) /\ (w.ok /\ g.granted => ss' = "job")
      BY <2>2 DEF ServerOn
    <3> HIDE DEF body, open
    <3>3. w.ok /\ Gains(s2c, w.chan, "NOTE", body)
      BY <1>1, <2>2, <2>6, <3>1, Posted
    <3>4. body = "y" => ss' = "job"
      BY <3>2, <3>3
    <3>5. Tells
      BY <2>2, <2>3, <2>4, <3>3, <3>4 DEF Gains
    <3> QED BY <1>1, <1>2, <2>3, <2>4, <3>5
  <2> QED BY <2>5, <2>6
<1>7. CASE ServerMechanismFails
  <2>1. Stays /\ ss = "token" /\ UNCHANGED <<s2c, ss>> /\ spc' = "done"
        /\ c2s # <<>> /\ c2s' = Tail(c2s)
    BY <1>7 DEF ServerMechanismFails, ServerRefuses, KeepJob, KeepCaller, request, client
  <2>2. RestOf(c2s, c2s')
    <3>1. Tail(c2s) = SubSeq(c2s, 1 + 1, Len(c2s)) /\ 1 \in 1..Len(c2s)
      BY <1>1, <2>1
    <3> QED BY <1>1, <2>1, <3>1, SuffixRest
  <2> QED BY <1>1, <1>2, <2>1, <2>2
<1>8. CASE ss = "job" /\ (ServerStep \/ ServerFailure) /\ UNCHANGED session
  <2>1. /\ UNCHANGED <<cs, ss, conf, leg>> /\ ss = "job" /\ cs # "connect"
        /\ spc \in {"recv", "done"}
    BY <1>1, <1>8 DEF session
  <2>2. CASE ReadRequest
    <3> DEFINE closed == ~ClientOpen \/ ~up
               compr == Expects[sat] = "FILE" \/ Compressed
    <3>1. PICK r \in Take(c2s, closed, Expects[sat], compr) :
            /\ c2s' = r.chan
            /\ ~Complete(r) => ServerEnds
      BY <2>2 DEF ReadRequest
    <3> HIDE DEF closed, compr
    <3>2. /\ RestOf(c2s, r.chan)
          /\ r.tok => 1 \in 1..Len(c2s) /\ c2s[1].tok = Expects[sat]
      BY <1>1, <3>1, TakeOutcome
    <3>3. Expects[sat] \notin Greetings
      BY Scripts DEF BeforeRequest
    <3>4. ~Complete(r)
      BY <1>1, <3>2, <3>3 DEF Complete
    <3>5. spc' = "done" /\ sat' = sat
      BY <3>1, <3>4 DEF ServerEnds
    <3>6. Stays /\ UNCHANGED s2c
      BY <2>1, <2>2, <3>5 DEF ReadRequest, request, client
    <3> QED BY <1>1, <1>2, <2>1, <3>1, <3>2, <3>5, <3>6
  <2>3. CASE ServerFails
    <3>1. Stays /\ UNCHANGED <<c2s, s2c>> /\ spc' = "done"
      BY <2>1, <2>3 DEF ServerFails, ServerEnds, request, client
    <3> QED BY <1>1, <1>2, <2>1, <3>1
  <2>4. ~(\/ CheckCommand \/ CollectCompiler \/ SendStatus \/ SendMessages
          \/ SendNoObject \/ SendObject \/ SendDeps \/ CannotRewrite)
    BY <2>1 DEF CheckCommand, CollectCompiler, SendStatus, SendMessages, SendNoObject,
                SendObject, SendDeps, CannotRewrite, Replying
  <2> QED BY <1>8, <2>2, <2>3, <2>4 DEF ServerStep, ServerFailure
<1> QED BY <1>3, <1>4, <1>5, <1>6, <1>7, <1>8

LEMMA NoteRefused ==
    ASSUME SessionType, BeforeRequest, ReadNotification, cs' # "request"
    PROVE  /\ Greets /\ cs' = cs /\ cs # "connect" /\ UNCHANGED <<c2s, up, spc, ss, leg, faults>>
           /\ cpc' = "done"
<1>1. PICK r \in TakeAnswer("NOTE") :
        /\ s2c' = r.chan
        /\ IF r.tok /\ r.body = "y" THEN ClientOn("request") ELSE ClientRefuses
  BY DEF ReadNotification
<1>2. /\ UNCHANGED <<ver, cstatus, output, sat, compiled, sret, conf>>
      /\ UNCHANGED <<c2s, up, spc, ss, leg, faults>> /\ cs = "note"
  BY DEF ReadNotification, KeepClient, KeepServer, request, server
<1>3. ClientRefuses
  BY <1>1 DEF ClientOn
<1>4. cpc' = "done" /\ cret' = "error" /\ cat' = cat /\ cs' = cs
  BY <1>3 DEF ClientRefuses, ClientEnds
<1>5. RestOf(s2c, s2c') /\ RestOf(c2s, c2s)
  BY <1>1, Heeded, SameRest DEF BeforeRequest
<1> QED BY <1>2, <1>4, <1>5 DEF Greets

LEMMA WaitsToConnect ==
    ASSUME SessionType, BeforeRequest, Connect, cs' # "request"
    PROVE  /\ Greets /\ cs' = "hello" /\ cs = "connect" /\ conf.client
           /\ UNCHANGED <<c2s, s2c, up, spc, ss, leg, faults>>
<1>1. /\ UNCHANGED <<ver, cat, cstatus, output, sat, compiled, sret, conf, s2c>>
      /\ UNCHANGED <<c2s, up, spc, ss, leg, faults>> /\ cs = "connect"
      /\ cs' = "hello" /\ conf.client
      /\ UNCHANGED <<cpc, cret>> \/ (cpc' = "done" /\ cret' = "error")
  BY DEF Connect, KeepClient, KeepServer, request, server, ClientOn, ClientEnds
<1>2. RestOf(s2c, s2c) /\ RestOf(c2s, c2s)
  BY SameRest DEF BeforeRequest
<1> QED BY <1>1, <1>2 DEF Greets

\* The connection breaks before the request.
LEMMA BreaksEarly ==
    ASSUME SessionType, BeforeRequest, Break, UNCHANGED session, cs # "connect"
    PROVE  BeforeRequest'
<1>1. /\ UNCHANGED <<ver, cat, cstatus, output, sat, compiled, sret, cpc, cret, spc>>
      /\ UNCHANGED <<cs, ss, conf>>
      /\ c2s \in Seq(Element) /\ s2c \in Seq(Element)
      /\ c2s' \in PartsOf(c2s) /\ s2c' \in PartsOf(s2c)
      /\ Len(c2s) \in Nat /\ Len(s2c) \in Nat
  BY DEF Break, session, request, client, server, BeforeRequest
<1>2. c2s' \in Seq(Element) /\ \A i \in 1..Len(c2s') : c2s'[i].tok \in Greetings
  <2>1. /\ c2s' \in Seq(Element) /\ Len(c2s') \in Nat /\ Len(c2s') <= Len(c2s)
        /\ \A i \in 1..Len(c2s') : c2s'[i].tok = c2s[i].tok
    BY <1>1, PartOutcome
  <2> QED BY <1>1, <2>1 DEF BeforeRequest
<1>3. s2c' \in Seq(Element) /\ NoteLast'
  <2>1. /\ s2c' \in Seq(Element) /\ Len(s2c') \in Nat /\ Len(s2c') <= Len(s2c)
        /\ \A i \in 1..Len(s2c') :
              /\ s2c'[i].tok = s2c[i].tok
              /\ s2c'[i].body = s2c[i].body \/ s2c'[i].body = "short"
    BY <1>1, PartOutcome
  <2>2. ASSUME NEW i \in 1..Len(s2c'), s2c'[i].tok = "NOTE"
        PROVE  /\ i = Len(s2c') /\ conf.server /\ (ss = "job" \/ spc = "done")
               /\ s2c'[i].body = "y" => ss = "job"
    <3>1. i \in 1..Len(s2c) /\ s2c[i].tok = "NOTE"
      BY <1>1, <2>1, <2>2
    <3> QED BY <1>1, <2>1, <2>2, <3>1 DEF BeforeRequest, NoteLast
  <2> QED BY <1>1, <2>1, <2>2 DEF NoteLast
<1> QED BY <1>1, <1>2, <1>3 DEF BeforeRequest

----------------------------------------------------------------------------
(* As long as nothing fails the two ends count alike.                      *)

LEMMA WholeAppend ==
    ASSUME NEW ch \in Seq(Element), NEW t \in Tokens, NEW b \in Tokens \cup {"y", "n"}, Whole(ch)
    PROVE  LET a == Append(ch, [tok |-> t, body |-> b])
           IN  Len(a) = Len(ch) + 1 /\ Whole(a)
<1> DEFINE e == [tok |-> t, body |-> b]
           a == Append(ch, e)
<1>1. e \in Element /\ e.body = b
  BY NewElement
<1>2. b # "short"
  BY DEF Tokens
<1> HIDE DEF e
<1>3. /\ Len(a) = Len(ch) + 1 /\ Len(ch) \in Nat
      /\ \A i \in 1..Len(ch) : a[i] = ch[i]
      /\ a[Len(ch) + 1] = e
  BY <1>1, Appended
<1> HIDE DEF a
<1>4. ASSUME NEW i \in 1..Len(a) PROVE a[i].body # "short"
  <2>1. i \in 1..Len(ch) \/ i = Len(ch) + 1
    BY <1>3
  <2> QED BY <1>1, <1>2, <1>3, <2>1 DEF Whole
<1> QED BY <1>3, <1>4 DEF a, e, Whole

LEMMA WholeTail ==
    ASSUME NEW ch \in Seq(Element), ch # <<>>, Whole(ch)
    PROVE  Len(ch) \in Nat /\ Len(Tail(ch)) = Len(ch) - 1 /\ Whole(Tail(ch))
<1> DEFINE t == Tail(ch)
<1>1. /\ Len(t) = Len(ch) - 1 /\ Len(ch) \in Nat
      /\ \A i \in 1..Len(t) : t[i] = ch[i + 1]
  OBVIOUS
<1> HIDE DEF t
<1>2. ASSUME NEW i \in 1..Len(t) PROVE t[i].body # "short"
  <2>1. i + 1 \in 1..Len(ch) /\ t[i] = ch[i + 1]
    BY <1>1
  <2> QED BY <2>1 DEF Whole
<1> QED BY <1>1, <1>2 DEF t, Whole

\* What the client sends of the handshake comes, and the server reads it whole.
LEMMA CleanlySaid ==
    ASSUME up, c2s \in Seq(Element), Whole(c2s), ServerOpen,
           NEW t \in {"*", "TLEN"}, NEW r \in Put(c2s, ServerOpen, t, t)
    PROVE  r.ok /\ Len(r.chan) = Len(c2s) + 1 /\ Whole(r.chan)
<1>1. t \in Tokens /\ t \in Tokens \cup {"y", "n"}
  BY DEF Tokens
<1>2. r = Sent(TRUE, Append(c2s, [tok |-> t, body |-> t]), 0)
  BY DEF Put
<1>3. r.ok = TRUE /\ r.chan = Append(c2s, [tok |-> t, body |-> t])
  BY <1>2 DEF Sent
<1> QED BY <1>1, <1>3, WholeAppend

LEMMA CleanlyHeard ==
    ASSUME c2s \in Seq(Element), Whole(c2s), NEW tok, NEW r \in TakeAsked(tok)
    PROVE  r.tok => /\ Len(r.chan) = Len(c2s) - 1 /\ Whole(r.chan)
                    /\ Len(c2s) \in Nat
<1> DEFINE closed == ~ClientOpen \/ ~up
           compr == FALSE
<1>1. r \in Take(c2s, closed, tok, compr)
  BY DEF TakeAsked
<1> HIDE DEF closed, compr
<1>2. c2s # <<>> => Head(c2s).body # "short"
  <2>1. c2s # <<>> => 1 \in 1..Len(c2s) /\ Head(c2s) = c2s[1]
    OBVIOUS
  <2> QED BY <2>1 DEF Whole
<1>3. r.tok => c2s # <<>> /\ r.chan = Tail(c2s)
  BY <1>1, <1>2, CleanTake
<1> QED BY <1>3, WholeTail

LEMMA CountsAre ==
    ASSUME SessionType
    PROVE  Said \in 0..3 /\ Heard \in 0..3
BY DEF SessionType, Said, Heard

LEMMA ClientCounts ==
    ASSUME SessionType, BeforeRequest, HandshakeInv, faults = 0, faults' = 0,
           cs # "request", cs' # "request",
           \/ Connect \/ ConnectFails \/ SendHandshake \/ ReadHandshake \/ InitContext
           \/ ReadToken \/ ReadNotification \/ SessionTimesOut \/ ClientMechanismFails
    PROVE  HandshakeInv'
<1>1. /\ c2s \in Seq(Element) /\ Len(c2s) \in Nat /\ up
      /\ leg \in [client : Nat, server : Nat] /\ conf.legs \in {2, 3}
      /\ cpc \in {"send", "done"} /\ spc \in {"recv", "done"}
      /\ (ServerOpen <=> spc = "recv")
      /\ spc = "recv" => Whole(c2s)
  BY DEF SessionType, BeforeRequest, HandshakeInv, ServerOpen
<1> DEFINE Legs == /\ leg.client' \in {1, 3}
                   /\ cs' \in {"connect", "hello", "answer", "token"} => leg.client' = 1
           Stays == up' /\ UNCHANGED <<ss, conf, spc>> /\ leg.server' = leg.server
           Sounds == spc = "recv" => Len(c2s') \in Nat /\ Whole(c2s')
           Counts == cpc = "send" /\ Legs /\ (spc = "recv" => Said' = Said + (Len(c2s') - Len(c2s)))
<1>2. ASSUME Stays, Sounds, cpc' = "done" \/ Counts
      PROVE  HandshakeInv'
  <2>1. Heard' = Heard /\ Heard \in Nat /\ Said \in Nat
    BY <1>2, CountsAre DEF Heard
  <2>2. /\ spc' = "recv" =>
             /\ Whole(c2s')
             /\ ss' \in {"access", "hello"} => leg.server' = 2
             /\ ss' = "token" => leg.server' \in {2, 4} /\ (leg.server' = 4 => conf.legs' = 3)
    BY <1>2 DEF HandshakeInv
  <2>3. cpc' = "send" => Legs
    BY <1>2
  <2>4. cpc' = "send" /\ spc' = "recv" /\ (ss' = "job" => conf.server') =>
           Said' = Heard' + Len(c2s')
    BY <1>1, <1>2, <2>1 DEF HandshakeInv
  <2> QED BY <1>2, <2>2, <2>3, <2>4 DEF HandshakeInv
<1>3. CASE Connect
  <2>1. /\ UNCHANGED <<c2s, s2c, up, spc, ss, leg, conf>> /\ cs' = "hello" /\ cs = "connect"
        /\ cpc' = cpc \/ cpc' = "done"
    BY <1>3, WaitsToConnect DEF Greets
  <2>2. cpc = "send" => Counts
    BY <1>1, <2>1, CountsAre DEF HandshakeInv, Said
  <2> QED BY <1>1, <1>2, <2>1, <2>2
<1>4. CASE ConnectFails
  <2>1. /\ UNCHANGED <<c2s, up, ss, leg, conf, cs>> /\ cs = "connect"
        /\ (spc' = spc /\ cpc' = cpc) \/ (spc' = "done" /\ cpc' = "done")
    BY <1>4 DEF ConnectFails, ClientEnds, request
  <2>2. CASE spc' = spc /\ cpc' = cpc
    <3>1. cpc = "send" => Counts
      BY <1>1, <2>1, <2>2, CountsAre DEF HandshakeInv, Said
    <3> QED BY <1>1, <1>2, <2>1, <2>2, <3>1
  <2>3. CASE spc' = "done" /\ cpc' = "done"
    BY <1>1, <2>1, <2>3 DEF HandshakeInv
  <2> QED BY <2>1, <2>2, <2>3
<1>5. CASE SendHandshake
  <2>1. PICK r \in Put(c2s, ServerOpen, "*", "*") :
          c2s' = r.chan /\ IF r.ok THEN ClientOn("answer") ELSE ClientRefuses
    BY <1>5 DEF SendHandshake
  <2>2. Stays /\ cs = "hello" /\ UNCHANGED leg /\ cpc = "send"
    BY <1>1, <1>5 DEF SendHandshake, KeepServer, request, server, ClientOpen
  <2>3. spc = "recv" => r.ok /\ Len(c2s') = Len(c2s) + 1 /\ Whole(c2s')
    BY <1>1, <2>1, CleanlySaid
  <2>4. cpc' = "done" \/ (cs' = "answer" /\ cpc' = cpc)
    BY <2>1 DEF ClientOn, ClientRefuses, ClientEnds
  <2>5. cs' = "answer" => Counts
    BY <1>1, <2>2, <2>3 DEF Said, HandshakeInv
  <2> QED BY <1>2, <2>2, <2>3, <2>4, <2>5
<1>6. CASE ReadHandshake
  <2>1. Stays /\ cs = "answer" /\ UNCHANGED <<leg, c2s>> /\ cpc = "send"
    BY <1>1, <1>6 DEF ReadHandshake, KeepServer, request, server, ClientOpen
  <2>2. cpc' = "done" \/ cs' = "init"
    BY <1>6 DEF ReadHandshake, ClientOn, ClientRefuses, ClientEnds
  <2>3. cs' = "init" => Counts
    BY <1>1, <2>1 DEF Said, HandshakeInv
  <2> QED BY <1>1, <1>2, <2>1, <2>2, <2>3
<1>7. CASE InitContext
  <2>1. PICK r \in PutToken(c2s, ServerOpen, leg.client) :
          /\ c2s' = r.chan
          /\ IF ~r.ok THEN ClientRefuses
             ELSE IF leg.client < conf.legs THEN ClientOn("token")
             ELSE IF conf.flags THEN ClientOn("note") ELSE ClientRefuses
    BY <1>7 DEF InitContext
  <2>2. Stays /\ cs = "init" /\ UNCHANGED leg /\ cpc = "send" /\ leg.client \in {1, 3}
    BY <1>1, <1>7 DEF InitContext, KeepServer, request, server, ClientOpen, HandshakeInv
  <2>3. \/ cpc' = "done"
        \/ cs' = "token" /\ leg.client = 1
        \/ cs' = "note" /\ leg.client = 3
    BY <1>1, <2>1, <2>2 DEF ClientOn, ClientRefuses, ClientEnds
  <2>4. CASE leg.client <= conf.legs
    <3>1. r \in Put(c2s, ServerOpen, "TLEN", "TLEN")
      BY <2>1, <2>4 DEF PutToken
    <3>2. spc = "recv" => Len(c2s') = Len(c2s) + 1 /\ Whole(c2s')
      BY <1>1, <2>1, <3>1, CleanlySaid
    <3>3. leg.client = 3 => conf.legs = 3
      BY <1>1, <2>4
    <3>4. cpc' = "done" \/ Counts
      BY <1>1, <2>2, <2>3, <3>2, <3>3 DEF Said
    <3> QED BY <1>2, <2>2, <3>2, <3>4
  <2>5. CASE ~(leg.client <= conf.legs)
    <3>1. r = Sent(TRUE, c2s, 0)
      BY <2>1, <2>5 DEF PutToken
    <3>2. c2s' = c2s
      BY <2>1, <3>1 DEF Sent
    <3>3. leg.client = 3 /\ conf.legs = 2
      BY <1>1, <2>2, <2>5
    <3>4. cpc' = "done" \/ Counts
      BY <1>1, <2>2, <2>3, <3>2, <3>3 DEF Said
    <3> QED BY <1>1, <1>2, <2>2, <3>2, <3>4
  <2> QED BY <2>4, <2>5
<1>8. CASE ReadToken
  <2>1. Stays /\ cs = "token" /\ UNCHANGED c2s /\ cpc = "send" /\ leg.client' = leg.client + 2
    BY <1>1, <1>8 DEF ReadToken, KeepServer, request, server, ClientOpen
  <2>2. cpc' = "done" \/ cs' = "init"
    BY <1>8 DEF ReadToken, ClientOn, ClientRefuses, ClientEnds
  <2>3. cs' = "init" => Counts
    BY <1>1, <2>1 DEF Said, HandshakeInv
  <2> QED BY <1>1, <1>2, <2>1, <2>2, <2>3
<1>9. CASE ReadNotification
  <2>1. /\ UNCHANGED <<c2s, up, spc, ss, leg, conf>> /\ cpc' = "done"
    BY <1>9, NoteRefused DEF Greets
  <2> QED BY <1>1, <1>2, <2>1
<1>10. CASE SessionTimesOut
  <2>1. Stays /\ UNCHANGED c2s /\ cpc' = "done"
    BY <1>1, <1>10 DEF SessionTimesOut, KeepServer, request, server, ClientRefuses, ClientEnds
  <2> QED BY <1>1, <1>2, <2>1
<1>11. CASE ClientMechanismFails
  BY <1>11 DEF ClientMechanismFails
<1> QED BY <1>3, <1>4, <1>5, <1>6, <1>7, <1>8, <1>9, <1>10, <1>11

LEMMA ServerCounts ==
    ASSUME SessionType, BeforeRequest, HandshakeInv, faults = 0, faults' = 0,
           cs # "request",
           \/ CheckAddress \/ AnswerHandshake \/ AcceptContext \/ NotifyClient
           \/ ServerMechanismFails
           \/ ss = "job" /\ (ServerStep \/ ServerFailure) /\ UNCHANGED session
    PROVE  HandshakeInv'
<1>1. /\ c2s \in Seq(Element) /\ Len(c2s) \in Nat /\ up
      /\ leg \in [client : Nat, server : Nat] /\ conf.legs \in {2, 3}
      /\ cpc \in {"send", "done"} /\ spc \in {"recv", "done"}
      /\ (ServerOpen <=> spc = "recv")
      /\ spc = "recv" => Whole(c2s)
      /\ Heard \in Nat /\ Said \in Nat
  BY CountsAre DEF SessionType, BeforeRequest, HandshakeInv, ServerOpen
<1> DEFINE Legs == /\ ss' \in {"access", "hello"} => leg.server' = 2
                   /\ ss' = "token" => leg.server' \in {2, 4} /\ (leg.server' = 4 => conf.legs = 3)
           Stays == up' /\ UNCHANGED <<cs, conf, cpc>> /\ leg.client' = leg.client
           Counts == /\ spc = "recv" /\ Legs /\ Len(c2s') \in Nat /\ Whole(c2s')
                     /\ cpc = "send" /\ (ss' = "job" => conf.server) =>
                           /\ ss = "job" => conf.server
                           /\ Heard' = Heard + (Len(c2s) - Len(c2s'))
<1>2. ASSUME Stays, spc' = "done" \/ Counts
      PROVE  HandshakeInv'
  <2>1. Said' = Said
    BY <1>2 DEF Said
  <2>2. spc' = "recv" => Legs /\ Whole(c2s')
    BY <1>2
  <2>3. cpc' = "send" /\ spc' = "recv" /\ (ss' = "job" => conf.server') =>
           Said' = Heard' + Len(c2s')
    BY <1>1, <1>2, <2>1 DEF HandshakeInv
  <2> QED BY <1>2, <2>2, <2>3 DEF HandshakeInv
<1>3. CASE CheckAddress
  <2>1. Stays /\ UNCHANGED <<c2s, leg>> /\ ss = "access" /\ spc = "recv"
    BY <1>1, <1>3 DEF CheckAddress, KeepJob, KeepCaller, request, client
  <2>2. \/ spc' = "done" \/ ss' = "hello" \/ (ss' = "job" /\ ~conf.server)
    BY <1>3 DEF CheckAddress, ServerOn, ServerRefuses
  <2>3. ss' \in {"hello", "job"} /\ (ss' = "job" => ~conf.server) => Counts
    BY <1>1, <2>1 DEF HandshakeInv, Heard
  <2> QED BY <1>2, <2>1, <2>2, <2>3
<1>4. CASE AnswerHandshake
  <2>1. PICK r \in TakeAsked("*") :
          /\ c2s' = r.chan
          /\ \/ ~r.tok /\ ServerRefuses
             \/ r.tok /\ (ServerOn("token") \/ ServerRefuses)
    BY <1>4 DEF AnswerHandshake
  <2>2. Stays /\ UNCHANGED leg /\ ss = "hello" /\ spc = "recv"
    BY <1>1, <1>4 DEF AnswerHandshake, KeepJob, KeepCaller, request, client
  <2>3. spc' = "done" \/ (r.tok /\ ss' = "token")
    BY <2>1 DEF ServerOn, ServerRefuses
  <2>4. r.tok => Len(c2s') = Len(c2s) - 1 /\ Whole(c2s') /\ Len(c2s') \in Nat
    <3>1. r.tok => Len(c2s') = Len(c2s) - 1 /\ Whole(c2s')
      BY <1>1, <2>1, <2>2, CleanlyHeard
    <3>2. r.tok => c2s # <<>>
      BY <1>1, <2>1, Asked
    <3>3. c2s # <<>> => Len(c2s) >= 1
      BY <1>1
    <3> QED BY <1>1, <3>1, <3>2, <3>3
  <2>5. r.tok /\ ss' = "token" => Counts
    BY <1>1, <2>2, <2>4 DEF HandshakeInv, Heard
  <2> QED BY <1>2, <2>2, <2>3, <2>5
<1>5. CASE AcceptContext
  <2>1. PICK r \in TakeAsked("TLEN") :
          /\ c2s' = r.chan
          /\ \/ ~Complete(r) /\ ServerRefuses
             \/ /\ Complete(r)
                /\ \/ ServerRefuses
                   \/ leg.server < conf.legs /\ ServerOn("token")
                   \/ ~(leg.server < conf.legs) /\ ServerOn("list")
    BY <1>5 DEF AcceptContext
  <2>2. Stays /\ leg.server' = leg.server + 2 /\ ss = "token" /\ spc = "recv"
    BY <1>1, <1>5 DEF AcceptContext, KeepJob, KeepCaller, request, client
  <2>3. \/ spc' = "done"
        \/ r.tok /\ ss' = "token" /\ leg.server < conf.legs
        \/ r.tok /\ ss' = "list" /\ ~(leg.server < conf.legs)
    BY <2>1 DEF ServerOn, ServerRefuses, Complete
  <2>4. r.tok => Len(c2s') = Len(c2s) - 1 /\ Whole(c2s') /\ Len(c2s') \in Nat
    <3>1. r.tok => Len(c2s') = Len(c2s) - 1 /\ Whole(c2s')
      BY <1>1, <2>1, <2>2, CleanlyHeard
    <3>2. r.tok => c2s # <<>>
      BY <1>1, <2>1, Asked
    <3>3. c2s # <<>> => Len(c2s) >= 1
      BY <1>1
    <3> QED BY <1>1, <3>1, <3>2, <3>3
  <2>5. leg.server \in {2, 4} /\ (leg.server = 4 => conf.legs = 3)
    BY <2>2 DEF HandshakeInv
  <2>6. r.tok /\ ss' = "token" /\ leg.server < conf.legs => Counts
    <3>1. leg.server < conf.legs => leg.server = 2 /\ conf.legs = 3
      BY <1>1, <2>5
    <3> QED BY <1>1, <2>2, <2>4, <3>1 DEF Heard
  <2>7. r.tok /\ ss' = "list" /\ ~(leg.server < conf.legs) => Counts
    <3>1. ~(leg.server < conf.legs) =>
             (leg.server = 2 /\ conf.legs = 2) \/ (leg.server = 4 /\ conf.legs = 3)
      BY <1>1, <2>5
    <3> QED BY <1>1, <2>2, <2>4, <3>1 DEF Heard
  <2> QED BY <1>2, <2>2, <2>3, <2>6, <2>7
<1>6. CASE NotifyClient
  <2>1. Stays /\ UNCHANGED <<c2s, leg>> /\ ss = "list" /\ spc = "recv" /\ conf.server
    BY <1>1, <1>6 DEF NotifyClient, KeepJob, KeepCaller, request, client, SessionType
  <2>2. spc' = "done" \/ ss' = "job"
    BY <1>6 DEF NotifyClient, ServerOn, ServerRefuses
  <2>3. ss' = "job" => Counts
    BY <1>1, <2>1 DEF Heard
  <2> QED BY <1>2, <2>1, <2>2, <2>3
<1>7. CASE ServerMechanismFails
  BY <1>7 DEF ServerMechanismFails
<1>8. CASE ss = "job" /\ (ServerStep \/ ServerFailure) /\ UNCHANGED session
  <2>1. ReadRequest \/ ServerFails
    <3>1. ~(\/ CheckCommand \/ CollectCompiler \/ SendStatus \/ SendMessages
            \/ SendNoObject \/ SendObject \/ SendDeps \/ CannotRewrite)
      BY <1>1 DEF CheckCommand, CollectCompiler, SendStatus, SendMessages, SendNoObject,
                  SendObject, SendDeps, CannotRewrite, Replying
    <3> QED BY <1>8, <3>1 DEF ServerStep, ServerFailure
  <2>2. ~ServerFails
    BY DEF ServerFails
  <2>3. Stays
    BY <1>1, <1>8, <2>1, <2>2 DEF ReadRequest, session, client
  <2>4. spc' = "done"
    <3> DEFINE closed == ~ClientOpen \/ ~up
               compr == Expects[sat] = "FILE" \/ Compressed
    <3>1. PICK r \in Take(c2s, closed, Expects[sat], compr) : ~Complete(r) => ServerEnds
      BY <2>1, <2>2 DEF ReadRequest
    <3> HIDE DEF closed, compr
    <3>2. r.tok => 1 \in 1..Len(c2s) /\ c2s[1].tok = Expects[sat]
      BY <1>1, <3>1, TakeOutcome
    <3>3. Expects[sat] \notin Greetings
      BY Scripts DEF BeforeRequest
    <3>4. ~Complete(r)
      BY <3>2, <3>3 DEF Complete, BeforeRequest
    <3> QED BY <3>1, <3>4 DEF ServerEnds
  <2> QED BY <1>2, <2>3, <2>4
<1> QED BY <1>3, <1>4, <1>5, <1>6, <1>7, <1>8

\* Failures are only ever added, also before the request.
LEMMA SessionFaultsGrow ==
    ASSUME faults \in Nat, [SessionNext]_svars
    PROVE  faults' \in Nat /\ (faults' = 0 => faults = 0)
<1>1. CASE faults' = faults \/ faults' = faults + 1
  BY <1>1
<1>2. CASE [Next]_vars
  BY <1>2, FaultsGrow
<1>3. CASE Connect \/ SendHandshake \/ ReadHandshake \/ InitContext
  BY <1>1, <1>3 DEF Connect, SendHandshake, ReadHandshake, InitContext
<1>4. CASE ReadToken \/ ReadNotification \/ SessionTimesOut
  BY <1>1, <1>4 DEF ReadToken, ReadNotification, SessionTimesOut
<1>5. CASE CheckAddress \/ AnswerHandshake \/ AcceptContext \/ NotifyClient
  BY <1>1, <1>5 DEF CheckAddress, AnswerHandshake, AcceptContext, NotifyClient
<1>6. CASE ConnectFails \/ ClientMechanismFails \/ ServerMechanismFails
  BY <1>1, <1>6 DEF ConnectFails, ClientMechanismFails, ServerMechanismFails
<1>7. CASE ClientStep \/ ServerStep \/ ClientFailure \/ ServerFailure \/ Break \/ Finished
  BY <1>2, <1>7 DEF Next, Failure
<1>8. CASE UNCHANGED svars
  BY <1>1, <1>8 DEF svars, vars
<1> QED BY <1>3, <1>4, <1>5, <1>6, <1>7, <1>8
        DEF SessionNext, ClientSide, ServerSide, Trouble

----------------------------------------------------------------------------
(* The request, within the session.                                        *)

\* When the client comes to it nothing of the answer is under way, and if
\* nothing has failed the server has read all that came before.
LEMMA RequestStarts ==
    ASSUME SessionType, BeforeRequest, faults = 0 => HandshakeInv,
           cs # "request", cs' = "request", Connect \/ ReadNotification
    PROVE  WithinRequest' /\ SessionType'
<1>1. /\ UNCHANGED <<ver, c2s, cat, cpc, cret, cstatus, output, up, faults>>
      /\ UNCHANGED <<spc, sat, compiled, sret, ss, leg, conf>> /\ cpc = "send"
  BY DEF Connect, ReadNotification, ClientOn, ClientRefuses, ClientEnds, KeepClient, KeepServer,
         request, server, ClientOpen, BeforeRequest
<1>2. SessionType'
  BY <1>1 DEF SessionType
<1>3. /\ s2c' = <<>> /\ (conf.client => conf.server /\ ss = "job")
      /\ ss # "job" => c2s = <<>>
      /\ faults = 0 => up /\ (spc = "recv" => c2s = <<>>)
  <2>1. CASE Connect
    <3>1. cs = "connect" /\ ~conf.client /\ s2c' = s2c
      BY <2>1 DEF Connect, ClientOn
    <3> QED BY <3>1 DEF BeforeRequest, HandshakeInv
  <2>2. CASE ReadNotification
    <3>1. PICK r \in TakeAnswer("NOTE") :
            /\ s2c' = r.chan
            /\ IF r.tok /\ r.body = "y" THEN ClientOn("request") ELSE ClientRefuses
      BY <2>2 DEF ReadNotification
    <3>2. cs = "note" /\ conf.client
      BY <2>2 DEF ReadNotification, SessionType
    <3>3. r.tok /\ r.body = "y"
      BY <3>1, <3>2 DEF ClientRefuses
    <3> DEFINE closed == ~ServerOpen \/ ~up
               compr == FALSE
    <3>4. r \in Take(s2c, closed, "NOTE", compr)
      BY DEF TakeAnswer
    <3> HIDE DEF closed, compr
    <3>5. s2c \in Seq(Element) /\ Len(s2c) \in Nat
      BY DEF BeforeRequest
    <3>6. 1 \in 1..Len(s2c) /\ s2c[1].tok = "NOTE" /\ s2c[1].body = "y"
      BY <3>3, <3>4, <3>5, TakeOutcome
    <3>7. s2c # <<>> => Head(s2c).body # "short"
      <4>1. s2c # <<>> => Head(s2c) = s2c[1]
        BY <3>5
      <4> QED BY <3>6, <4>1
    <3>8. s2c' = Tail(s2c) /\ s2c # <<>>
      BY <3>1, <3>3, <3>4, <3>5, <3>7, CleanTake
    <3>9. Len(s2c) = 1 /\ conf.server /\ ss = "job"
      BY <3>5, <3>6 DEF BeforeRequest, NoteLast
    <3>10. s2c' = <<>>
      BY <3>5, <3>8, <3>9
    <3>11. ASSUME faults = 0, spc = "recv"
           PROVE  c2s = <<>>
      <4>1. Said = Heard + Len(c2s)
        BY <1>1, <3>9, <3>11 DEF HandshakeInv
      <4>2. Said = conf.legs /\ Heard = conf.legs /\ conf.legs \in Nat
        BY <3>2, <3>9 DEF Said, Heard, SessionType
      <4>3. c2s \in Seq(Element) /\ Len(c2s) \in Nat
        BY DEF BeforeRequest
      <4>4. Len(c2s) = 0
        BY <4>1, <4>2, <4>3
      <4> QED BY <4>3, <4>4, EmptySeq
    <3> QED BY <3>9, <3>10, <3>11 DEF HandshakeInv
  <2> QED BY <2>1, <2>2
<1>4. /\ c2s \in Seq(Element) /\ <<>> \in Seq(Element) /\ Len(<<>>) = 0
      /\ \A i \in 1..Len(c2s) : c2s[i].tok \in Greetings
  <2>1. <<>> \in Seq(Element) /\ Len(<<>>) = 0
    OBVIOUS
  <2> QED BY <2>1 DEF BeforeRequest
<1>5. /\ ver \in {1, 2, 3} /\ cat = 1 /\ cret = "none" /\ cstatus = "ok" /\ output = "old"
      /\ sat = 1 /\ compiled = "no" /\ sret = "ok" /\ spc \in {"recv", "done"}
  BY <1>1 DEF BeforeRequest
<1>6. Sends' = Sends /\ Expects' = Expects /\ CppOnServer' = CppOnServer
      /\ 1 \in 1..Len(Sends) /\ 1 \in 1..Len(Expects)
  BY <1>1, SameScripts, Scripts
<1>7. TypeInv'
  BY <1>1, <1>3, <1>4, <1>5, <1>6 DEF TypeInv, Place
<1>8. ReplyInv' /\ ContentInv' /\ ClientInv'
  BY <1>1, <1>3, <1>4, <1>5 DEF ReplyInv, ContentInv, ClientInv, Place
<1>9. RequestInv'
  <2>1. \A i \in 1..Len(c2s) : c2s[i].tok # "DOTI"
    BY <1>4 DEF Greetings
  <2> QED BY <1>1, <1>5, <1>6, <2>1 DEF RequestInv, Unasked
<1>10. AgreeInv'
  <2>1. faults' \in Nat
    BY <1>1 DEF SessionType
  <2>2. ASSUME faults = 0
        PROVE  up' /\ AskedInOrder' /\ AnsweredInOrder'
    <3>1. spc = "recv" => c2s = <<>> /\ Len(c2s) = 0
      BY <1>3, <2>2
    <3>2. spc = "recv" => Follows(c2s, Sends, sat)
      BY <3>1 DEF Follows
    <3>3. AskedInOrder'
      BY <1>1, <1>3, <1>5, <1>6, <3>1, <3>2 DEF AskedInOrder
    <3>4. AnsweredInOrder'
      BY <1>1 DEF AnsweredInOrder
    <3> QED BY <1>1, <1>3, <2>2, <3>3, <3>4
  <2> QED BY <1>1, <2>1, <2>2 DEF AgreeInv
<1>11. ss' # "job" => /\ spc' \in {"recv", "done"}
                      /\ \A i \in 1..Len(c2s') : c2s'[i].tok \notin Greetings \ {"?"}
  BY <1>1, <1>3, <1>4, <1>5
<1>12. conf'.client => conf'.server /\ ss' = "job"
  BY <1>1, <1>3
<1> QED BY <1>2, <1>7, <1>8, <1>9, <1>10, <1>11, <1>12 DEF WithinRequest, RpcInv

\* What happens while the client is at its request.
LEMMA StepsWithin ==
    ASSUME SessionType, WithinRequest, cs = "request", [SessionNext]_svars
    PROVE  /\ cs' = cs /\ UNCHANGED <<conf, leg>>
           /\ \/ /\ [Next]_vars
                 /\ \/ ss' = ss
                    \/ UNCHANGED vars /\ ~conf.client /\ ss = "access" /\ ss' \in {"hello", "job"}
                       /\ (ss' = "hello" => conf.server)
                 /\ spc' = spc \/ ss = "job"
              \/ /\ ServerWorks /\ CleanlyWorks /\ spc' = "done" /\ ss' = ss /\ ss # "job"
                 /\ UNCHANGED <<faults, compiled>>
<1>1. ~(\/ Connect \/ ConnectFails \/ SendHandshake \/ ReadHandshake \/ InitContext
        \/ ReadToken \/ ReadNotification \/ SessionTimesOut \/ ClientMechanismFails)
  BY DEF Connect, ConnectFails, SendHandshake, ReadHandshake, InitContext, ReadToken,
         ReadNotification, SessionTimesOut, ClientMechanismFails
<1>2. ss \notin {"token", "list"}
  BY DEF SessionType, WithinRequest
<1>3. ~(AcceptContext \/ NotifyClient \/ ServerMechanismFails)
  BY <1>2 DEF AcceptContext, NotifyClient, ServerMechanismFails
<1>4. c2s \in Seq(Element) /\ RestOf(c2s, c2s)
  BY SameRest DEF WithinRequest, RpcInv, TypeInv
<1>5. CASE CheckAddress
  <2>1. /\ UNCHANGED <<request, c2s, s2c, up, faults, client, sat, input, compiled, sret>>
        /\ UNCHANGED <<cs, conf, leg>> /\ ss = "access" /\ spc # "done"
        /\ \/ ss' \in {"hello", "job"} /\ (ss' = "hello" => conf.server) /\ spc' = spc
           \/ spc' = "done" /\ ss' = ss
    BY <1>5 DEF CheckAddress, KeepJob, KeepCaller, ServerOn, ServerRefuses, ServerOpen
  <2>2. spc = "recv" /\ ~conf.client
    BY <2>1 DEF WithinRequest
  <2>3. CASE spc' = spc
    <3>1. UNCHANGED vars
      BY <2>1, <2>3 DEF vars, server
    <3> QED BY <2>1, <2>2, <2>3, <3>1
  <2>4. CASE spc' = "done" /\ ss' = ss
    <3>1. ServerWorks /\ CleanlyWorks
      BY <1>4, <2>1, <2>2, <2>4 DEF ServerWorks, CleanlyWorks, request, client
    <3> QED BY <2>1, <2>4, <3>1
  <2> QED BY <2>1, <2>3, <2>4
<1>6. CASE AnswerHandshake
  <2>1. PICK r \in TakeAsked("*") :
          /\ c2s' = r.chan
          /\ ~r.tok => ServerRefuses /\ UNCHANGED s2c
    BY <1>6 DEF AnswerHandshake
  <2>2. /\ UNCHANGED <<request, up, faults, client, sat, input, compiled, sret>>
        /\ UNCHANGED <<cs, conf, leg>> /\ ss = "hello" /\ spc # "done"
    BY <1>6 DEF AnswerHandshake, KeepJob, KeepCaller, ServerOpen
  <2>3. spc = "recv" /\ \A i \in 1..Len(c2s) : c2s[i].tok # "*"
    BY <2>2 DEF WithinRequest, Greetings
  <2>4. ~r.tok /\ RestOf(c2s, c2s')
    <3>1. c2s # <<>> => 1 \in 1..Len(c2s) /\ Head(c2s) = c2s[1]
      BY <1>4
    <3>2. RestOf(c2s, r.chan) /\ (r.tok => c2s # <<>> /\ Head(c2s).tok = "*")
      BY <1>4, Asked
    <3> QED BY <2>1, <2>3, <3>1, <3>2
  <2>5. spc' = "done" /\ ss' = ss /\ s2c' = s2c
    BY <2>1, <2>4 DEF ServerRefuses
  <2>6. ServerWorks /\ CleanlyWorks
    BY <2>2, <2>3, <2>4, <2>5 DEF ServerWorks, CleanlyWorks, request, client
  <2> QED BY <2>2, <2>5, <2>6
<1>7. CASE (ClientStep \/ ClientFailure \/ Break \/ Finished) /\ UNCHANGED session
  <2>1. [Next]_vars /\ UNCHANGED <<cs, ss, conf, leg>>
    BY <1>7 DEF Next, Failure, session
  <2>2. CASE ClientStep
    <3>1. spc' = spc
      BY <2>2 DEF ClientStep, SendToken, SendSource, ReadDone, ReadStatus, ReadMessages,
                  ReadObject, ReadDeps, ClientTimesOut, server
    <3> QED BY <2>1, <3>1
  <2>3. CASE ClientFailure
    <3>1. spc' = spc
      BY <2>3 DEF ClientFailure, NoWorkingDirectory, LocalFailure, CppFails, LogFails, StoreFails, server
    <3> QED BY <2>1, <3>1
  <2>4. CASE Break \/ Finished
    <3>1. spc' = spc
      BY <2>4 DEF Break, Finished, vars, server
    <3> QED BY <2>1, <3>1
  <2> QED BY <1>7, <2>2, <2>3, <2>4
<1>8. CASE ss = "job" /\ (ServerStep \/ ServerFailure) /\ UNCHANGED session
  BY <1>8 DEF Next, Failure, session
<1>9. CASE UNCHANGED svars
  <2>1. UNCHANGED vars /\ UNCHANGED <<cs, ss, conf, leg, spc>>
    BY <1>9 DEF svars, vars, session, server
  <2> QED BY <2>1
<1> QED BY <1>1, <1>3, <1>5, <1>6, <1>7, <1>8, <1>9
        DEF SessionNext, ClientSide, ServerSide, Trouble

\* A request keeps to its tokens, whatever the server still does with the
\* address of the client.
LEMMA PlainKept ==
    ASSUME RpcInv, [Next]_vars, spc' = spc,
           \A i \in 1..Len(c2s) : c2s[i].tok \notin Greetings \ {"?"}
    PROVE  \A i \in 1..Len(c2s') : c2s'[i].tok \notin Greetings \ {"?"}
<1>1. c2s \in Seq(Element) /\ Len(c2s) \in Nat
  BY DEF RpcInv, TypeInv
<1>2. CASE ClientSends
  <2>1. CASE c2s' = c2s
    BY <2>1
  <2>2. ASSUME NEW e \in Element, c2s' = Append(c2s, e), e.tok = Sends[cat]
        PROVE  \A i \in 1..Len(c2s') : c2s'[i].tok \notin Greetings \ {"?"}
    <3> DEFINE a == Append(c2s, e)
    <3>1. /\ Len(a) = Len(c2s) + 1 /\ \A i \in 1..Len(c2s) : a[i] = c2s[i]
          /\ a[Len(c2s) + 1] = e
      BY <1>1, Appended
    <3>2. c2s' = a
      BY <2>2
    <3> HIDE DEF a
    <3>3. e.tok \notin Greetings
      BY <1>2, <2>2, Scripts DEF ClientSends, RpcInv, TypeInv
    <3>4. \A i \in 1..Len(a) : i \in 1..Len(c2s) \/ i = Len(c2s) + 1
      BY <1>1, <3>1
    <3> QED BY <3>1, <3>2, <3>3, <3>4
  <2> QED BY <1>2, <2>1, <2>2 DEF ClientSends
<1>3. CASE ClientReads \/ ServerReplies \/ UNCHANGED vars
  BY <1>3 DEF ClientReads, ServerReplies, vars
<1>4. CASE ServerWorks
  <2>1. CASE RestOf(c2s, c2s')
    <3>1. \A i \in 1..Len(c2s') :
            c2s'[i].tok = "?" \/ \E j \in 1..Len(c2s) : c2s'[i] = c2s[j]
      BY <2>1 DEF RestOf
    <3> QED BY <3>1
  <2>2. CASE c2s' = c2s
    BY <2>2
  <2> QED BY <1>4, <2>1, <2>2 DEF ServerWorks
<1>5. CASE Break
  <2>1. c2s' \in PartsOf(c2s)
    BY <1>5 DEF Break
  <2>2. Len(c2s') <= Len(c2s) /\ Len(c2s') \in Nat
        /\ \A i \in 1..Len(c2s') : c2s'[i].tok = c2s[i].tok
    BY <1>1, <2>1, PartOutcome
  <2>3. \A i \in 1..Len(c2s') : i \in 1..Len(c2s)
    BY <1>1, <2>2
  <2> QED BY <2>2, <2>3
<1> QED BY <1>2, <1>3, <1>4, <1>5, StepKinds

LEMMA WithinKept ==
    ASSUME SessionType, WithinRequest, cs = "request", [SessionNext]_svars
    PROVE  WithinRequest' /\ SessionType' /\ cs' = "request"
<1>1. /\ cs' = cs /\ UNCHANGED <<conf, leg>>
      /\ \/ /\ [Next]_vars
            /\ \/ ss' = ss
               \/ UNCHANGED vars /\ ~conf.client /\ ss = "access" /\ ss' \in {"hello", "job"}
                  /\ (ss' = "hello" => conf.server)
            /\ spc' = spc \/ ss = "job"
         \/ /\ ServerWorks /\ CleanlyWorks /\ spc' = "done" /\ ss' = ss /\ ss # "job"
            /\ UNCHANGED <<faults, compiled>>
  BY StepsWithin
<1>2. faults' \in Nat
  BY SessionFaultsGrow DEF SessionType
<1>3. RpcInv /\ AgreeInv
  BY DEF WithinRequest
<1>4. CASE [Next]_vars /\ (spc' = spc \/ ss = "job")
           /\ \/ ss' = ss
              \/ UNCHANGED vars /\ ~conf.client /\ ss = "access" /\ ss' \in {"hello", "job"}
                 /\ (ss' = "hello" => conf.server)
  <2>1. RpcInv' /\ AgreeInv'
    BY <1>3, <1>4, RpcInvKept, AgreeInvKept
  <2>2. ss' # "job" => ss # "job" /\ spc' = spc
    <3>1. UNCHANGED vars => spc' = spc
      BY DEF vars, server
    <3> QED BY <1>4, <3>1
  <2>3. ss' # "job" => /\ spc' \in {"recv", "done"}
                       /\ \A i \in 1..Len(c2s') : c2s'[i].tok \notin Greetings \ {"?"}
    BY <1>3, <1>4, <2>2, PlainKept DEF WithinRequest
  <2>4. conf'.client => conf'.server /\ ss' = "job"
    BY <1>1, <1>4 DEF WithinRequest
  <2>5. SessionType'
    BY <1>1, <1>2, <1>4 DEF SessionType
  <2> QED BY <1>1, <2>1, <2>3, <2>4, <2>5 DEF WithinRequest
<1>5. CASE ServerWorks /\ CleanlyWorks /\ spc' = "done" /\ ss' = ss /\ ss # "job"
           /\ faults' = faults
  <2>1. RpcInv'
    BY <1>3, <1>5, WorksKeeps
  <2>2. AgreeInv'
    <3>1. faults = 0 => AskedInOrder' /\ AnsweredInOrder' /\ up'
      BY <1>3, <1>5, AgreeWorks DEF AgreeInv, CleanlyWorks
    <3> QED BY <1>2, <1>5, <3>1 DEF AgreeInv
  <2>3. \A i \in 1..Len(c2s') : c2s'[i].tok \notin Greetings \ {"?"}
    <3>1. RestOf(c2s, c2s') \/ c2s' = c2s
      BY <1>5 DEF ServerWorks
    <3>2. ASSUME RestOf(c2s, c2s')
          PROVE  \A i \in 1..Len(c2s') :
                    c2s'[i].tok = "?" \/ \E j \in 1..Len(c2s) : c2s'[i] = c2s[j]
      BY <3>2 DEF RestOf
    <3> QED BY <1>5, <3>1, <3>2 DEF WithinRequest
  <2>4. conf'.client => conf'.server /\ ss' = "job"
    BY <1>1, <1>5 DEF WithinRequest
  <2>5. SessionType'
    BY <1>1, <1>2, <1>5 DEF SessionType
  <2> QED BY <1>1, <1>5, <2>1, <2>2, <2>3, <2>4, <2>5 DEF WithinRequest
<1> QED BY <1>1, <1>4, <1>5

----------------------------------------------------------------------------
(* The invariant of the session, and what it shows.                        *)

LEMMA SessionInvInit == SessionInit => SessionInv
<1> SUFFICES ASSUME SessionInit PROVE SessionInv
  OBVIOUS
<1>1. /\ Init /\ cs = "connect" /\ ss = "access" /\ leg = [client |-> 1, server |-> 2]
      /\ conf \in [client : BOOLEAN, server : BOOLEAN, listens : BOOLEAN, ssh : BOOLEAN,
                   legs : {2, 3}, flags : BOOLEAN]
  <2>1. \E supported \in SUBSET {"inet", "inet6"} :
          conf \in [client : BOOLEAN, server : BOOLEAN, ssh : BOOLEAN, legs : {2, 3},
                    flags : BOOLEAN, listens : {Listens(<<"inet6", "inet">>, supported)}]
    BY DEF SessionInit
  <2>2. \A supported : Listens(<<"inet6", "inet">>, supported) \in BOOLEAN
    BY DEF Listens
  <2> QED BY <2>1, <2>2 DEF SessionInit
<1>2. SessionType
  BY <1>1 DEF SessionType, Init
<1>3. <<>> \in Seq(Element) /\ Len(<<>>) = 0
  OBVIOUS
<1>4. BeforeRequest
  BY <1>1, <1>3, VersionsAssumption DEF BeforeRequest, Init, NoteLast
<1>5. HandshakeInv
  BY <1>1, <1>3 DEF HandshakeInv, Init, Whole, Said, Heard
<1> QED BY <1>1, <1>2, <1>4, <1>5 DEF SessionInv

LEMMA SessionInvKept ==
    ASSUME SessionInv, [SessionNext]_svars
    PROVE  SessionInv'
<1>1. CASE cs = "request"
  BY <1>1, WithinKept DEF SessionInv
<1>2. CASE cs # "request" /\ cs' = "request"
  <2>1. ~(\/ ConnectFails \/ SendHandshake \/ ReadHandshake \/ InitContext \/ ReadToken
          \/ SessionTimesOut \/ ClientMechanismFails \/ CheckAddress \/ AnswerHandshake
          \/ AcceptContext \/ NotifyClient \/ ServerMechanismFails)
    BY <1>2 DEF ConnectFails, SendHandshake, ReadHandshake, InitContext, ReadToken,
                SessionTimesOut, ClientMechanismFails, CheckAddress, AnswerHandshake,
                AcceptContext, NotifyClient, ServerMechanismFails, ClientOn, ClientRefuses,
                KeepCaller
  <2>2. Connect \/ ReadNotification
    BY <1>2, <2>1 DEF SessionNext, ClientSide, ServerSide, Trouble, svars, session
  <2> QED BY <1>2, <2>2, RequestStarts DEF SessionInv
<1>3. CASE cs # "request" /\ cs' # "request"
  <2>1. SessionType /\ BeforeRequest /\ (faults = 0 => HandshakeInv)
    BY <1>3 DEF SessionInv
  <2>2. faults' \in Nat /\ (faults' = 0 => faults = 0)
    BY <2>1, SessionFaultsGrow DEF SessionType
  <2>3. CASE \/ Connect \/ ConnectFails \/ SendHandshake \/ ReadHandshake \/ InitContext
             \/ ReadToken \/ ReadNotification \/ SessionTimesOut \/ ClientMechanismFails
    <3>1. /\ Greets /\ ss' = ss
          /\ cs' \in {cs, "hello", "answer", "init", "token", "note"}
          /\ cs = "connect" => cs' = "connect" \/ conf.client
          /\ cs' = "connect" => UNCHANGED <<c2s, s2c>> /\ cs = "connect"
      <4>1. CASE Connect
        BY <1>3, <2>1, <4>1, WaitsToConnect
      <4>2. CASE ReadNotification
        BY <1>3, <2>1, <4>2, NoteRefused
      <4>3. CASE \/ ConnectFails \/ SendHandshake \/ ReadHandshake \/ InitContext
                 \/ ReadToken \/ SessionTimesOut \/ ClientMechanismFails
        <5>1. /\ Greets /\ cs' \in {cs, "hello", "answer", "init", "token", "note"}
              /\ ss' = ss /\ (cs' = "connect" => UNCHANGED <<c2s, s2c>>)
          BY <2>1, <4>3, ClientGreets
        <5>2. cs = "connect" => cs' = "connect"
          BY <4>3 DEF ConnectFails, SendHandshake, ReadHandshake, InitContext, ReadToken,
                      SessionTimesOut, ClientMechanismFails, ClientRefuses
        <5> QED BY <5>1, <5>2
      <4> QED BY <2>3, <4>1, <4>2, <4>3
    <3>2. BeforeRequest'
      <4>1. CASE cs' # "connect"
        BY <2>1, <3>1, <4>1, GreetsKeeps
      <4>2. CASE cs' = "connect"
        <5>1. /\ UNCHANGED <<c2s, s2c, ss, ver, cat, cstatus, output, sat, compiled, sret, conf>>
              /\ c2s = <<>> /\ s2c = <<>> /\ ss = "access"
              /\ spc' = spc \/ spc' = "done"
              /\ UNCHANGED <<cpc, cret>> \/ (cpc' = "done" /\ cret' = "error")
          BY <2>1, <3>1, <4>2 DEF Greets, BeforeRequest
        <5>2. NoteLast'
          BY <5>1 DEF NoteLast
        <5> QED BY <2>1, <5>1, <5>2 DEF BeforeRequest
      <4> QED BY <4>1, <4>2
    <3>3. leg' \in [client : Nat, server : Nat]
      <4>1. leg' = leg \/ leg' = [leg EXCEPT !.client = @ + 2]
        BY <2>3 DEF Connect, ConnectFails, SendHandshake, ReadHandshake, InitContext, ReadToken,
                    ReadNotification, SessionTimesOut, ClientMechanismFails
      <4> QED BY <2>1, <4>1 DEF SessionType
    <3>4. SessionType'
      BY <1>3, <2>1, <2>2, <3>1, <3>3 DEF SessionType, Greets
    <3>5. faults' = 0 => HandshakeInv'
      BY <1>3, <2>1, <2>2, <2>3, ClientCounts
    <3> QED BY <1>3, <3>2, <3>4, <3>5 DEF SessionInv
  <2>4. CASE \/ CheckAddress \/ AnswerHandshake \/ AcceptContext \/ NotifyClient
             \/ ServerMechanismFails
             \/ ss = "job" /\ (ServerStep \/ ServerFailure) /\ UNCHANGED session
    <3>1. /\ Greets /\ cs' = cs /\ UNCHANGED <<cpc, cret>> /\ cs # "connect"
          /\ ss' \in {"access", "hello", "token", "list", "job"}
          /\ ss' = "hello" => ss = "hello" \/ conf.server
          /\ ss' \in {"token", "list"} => ss \in {"hello", "token", "list"} /\ conf.client
      BY <1>3, <2>1, <2>4, ServerGreets
    <3>2. BeforeRequest'
      BY <2>1, <3>1, GreetsKeeps
    <3>3. leg' \in [client : Nat, server : Nat]
      <4>1. leg' = leg \/ leg' = [leg EXCEPT !.server = @ + 2]
        BY <2>4 DEF CheckAddress, AnswerHandshake, AcceptContext, NotifyClient,
                    ServerMechanismFails, session
      <4> QED BY <2>1, <4>1 DEF SessionType
    <3>4. SessionType'
      BY <2>1, <2>2, <3>1, <3>3 DEF SessionType, Greets
    <3>5. faults' = 0 => HandshakeInv'
      BY <1>3, <2>1, <2>2, <2>4, ServerCounts
    <3> QED BY <1>3, <3>2, <3>4, <3>5 DEF SessionInv
  <2>5. CASE cs # "connect" /\ Break /\ UNCHANGED session
    <3>1. BeforeRequest'
      BY <2>1, <2>5, BreaksEarly
    <3>2. SessionType'
      BY <2>1, <2>2, <2>5 DEF SessionType, session
    <3>3. faults' # 0
      BY <2>1, <2>5 DEF Break, SessionType
    <3> QED BY <1>3, <3>1, <3>2, <3>3 DEF SessionInv
  <2>6. CASE UNCHANGED svars
    <3>1. /\ UNCHANGED <<ver, cat, cstatus, output, sat, compiled, sret, cpc, cret, spc>>
          /\ UNCHANGED <<c2s, s2c, up, faults, cs, ss, leg, conf>>
      BY <2>6 DEF svars, vars, session, request, client, server
    <3>2. SessionType' /\ BeforeRequest'
      BY <2>1, <3>1 DEF SessionType, BeforeRequest, NoteLast
    <3>3. faults' = 0 => HandshakeInv'
      BY <2>1, <2>2, <3>1 DEF HandshakeInv, Said, Heard
    <3> QED BY <1>3, <3>2, <3>3 DEF SessionInv
  <2>7. CASE Finished /\ UNCHANGED session
    BY <2>6, <2>7 DEF Finished, svars
  <2> QED BY <1>3, <2>3, <2>4, <2>5, <2>6, <2>7
          DEF SessionNext, ClientSide, ServerSide, Trouble
<1> QED BY <1>1, <1>2, <1>3

SameRemote == UNCHANGED <<compiled, Answer, Delivered>>

\* Before the request the client can only give up.
LEMMA SessionRefines ==
    ASSUME SessionInv, [SessionNext]_svars
    PROVE  [Remote!Next]_Remote!vars
<1>1. SameRemote => [Remote!Next]_Remote!vars
  BY DEF SameRemote, Remote!vars
<1>2. CASE cs = "request"
  <2>1. \/ [Next]_vars
        \/ ServerWorks /\ compiled' = compiled
    BY <1>2, StepsWithin DEF SessionInv
  <2>2. CASE [Next]_vars
    BY <1>2, <2>2, StepRefines DEF SessionInv, WithinRequest
  <2>3. CASE ServerWorks /\ compiled' = compiled
    <3>1. SameRemote
      BY <2>3 DEF ServerWorks, SameRemote, Answer, Delivered, ClientOpen
    <3> QED BY <1>1, <3>1
  <2> QED BY <2>1, <2>2, <2>3
<1>3. CASE cs # "request"
  <2>1. BeforeRequest /\ SessionType
    BY <1>3 DEF SessionInv
  <2>2. ASSUME UNCHANGED <<compiled, cstatus, output>>,
               UNCHANGED <<cpc, cret>> \/ (cpc' = "done" /\ cret' = "error")
        PROVE  [Remote!Next]_Remote!vars
    <3>1. /\ output = "old" /\ Delivered = "old" /\ Delivered' = "old" /\ compiled' = compiled
          /\ Answer = IF cpc = "done" THEN "error" ELSE "none"
      BY <2>1, <2>2 DEF BeforeRequest, Delivered, Answer, ClientOpen
    <3>2. CASE UNCHANGED <<cpc, cret>> \/ cpc = "done"
      <4>1. Answer' = Answer
        BY <2>1, <2>2, <3>2 DEF Answer, ClientOpen, BeforeRequest
      <4>2. SameRemote
        BY <3>1, <4>1 DEF SameRemote
      <4> QED BY <1>1, <4>2
    <3>3. CASE cpc # "done" /\ cpc' = "done" /\ cret' = "error"
      <4>1. Answer = "none" /\ Answer' = "error"
        BY <3>1, <3>3 DEF Answer, ClientOpen
      <4> QED BY <3>1, <4>1 DEF Remote!Next, Remote!GiveUp
    <3> QED BY <2>2, <3>2, <3>3
  <2>3. CASE Connect \/ ReadNotification
    <3>1. /\ UNCHANGED <<compiled, cstatus, output>>
          /\ UNCHANGED <<cpc, cret>> \/ (cpc' = "done" /\ cret' = "error")
      BY <2>3 DEF Connect, ReadNotification, ClientOn, ClientRefuses, ClientEnds,
                  KeepClient, KeepServer, server
    <3> QED BY <2>2, <3>1
  <2>4. CASE \/ ConnectFails \/ SendHandshake \/ ReadHandshake \/ InitContext
             \/ ReadToken \/ SessionTimesOut \/ ClientMechanismFails
    <3>1. Greets
      BY <2>1, <2>4, ClientGreets
    <3> QED BY <2>2, <3>1 DEF Greets
  <2>5. CASE \/ CheckAddress \/ AnswerHandshake \/ AcceptContext \/ NotifyClient
             \/ ServerMechanismFails
             \/ ss = "job" /\ (ServerStep \/ ServerFailure) /\ UNCHANGED session
    <3>1. Greets
      BY <1>3, <2>1, <2>5, ServerGreets
    <3> QED BY <2>2, <3>1 DEF Greets
  <2>6. CASE Break \/ Finished \/ UNCHANGED svars
    <3>1. UNCHANGED <<compiled, cstatus, output, cpc, cret>>
      BY <2>6 DEF Break, Finished, svars, vars, client, server
    <3> QED BY <2>2, <3>1
  <2> QED BY <1>3, <2>3, <2>4, <2>5, <2>6 DEF SessionNext, ClientSide, ServerSide, Trouble
<1> QED BY <1>2, <1>3

(***************************************************************************)
(* The invariant of the two ends from the first connection on: what each   *)
(* has said and heard of the handshake, in step while nothing fails, then  *)
(* the invariants of the exchange (auth_distcc.c, auth_distccd.c).         *)
(***************************************************************************)
THEOREM SessionInvariance == SessionSpec => []SessionInv
<1>1. SessionInv /\ [SessionNext]_svars => SessionInv'
  BY SessionInvKept
<1> QED BY SessionInvInit, <1>1, PTL DEF SessionSpec

(***************************************************************************)
(* However the session began, as long as nothing fails each end reads the  *)
(* tokens of the request and of the answer that the other sends.           *)
(***************************************************************************)
THEOREM JobScriptsAlwaysAgree == SessionSpec => []JobScriptsAgree
<1>1. SessionInv => JobScriptsAgree
  <2> SUFFICES ASSUME SessionInv, cs = "request" PROVE ScriptsAgree
    BY DEF JobScriptsAgree
  <2> QED BY AgreeInvAgrees DEF SessionInv, WithinRequest
<1> QED BY SessionInvariance, <1>1, PTL

(***************************************************************************)
(* A client that authenticates sends no part of its request to a server    *)
(* that does not, or that has not let it in                                *)
(* (dcc_gssapi_perform_requested_security).                                *)
(***************************************************************************)
THEOREM LetInAlwaysFirst == SessionSpec => []LetInFirst
<1>1. SessionInv => LetInFirst
  BY DEF SessionInv, WithinRequest, LetInFirst
<1> QED BY SessionInvariance, <1>1, PTL

(***************************************************************************)
(* The session and the exchange in it implement dcc_compile_remote's       *)
(* promise: a refused, failed or broken handshake is an error, and after   *)
(* it a status is that of the compiler and an object is whole, or unread   *)
(* by a client that could not write its log of errors.                     *)
(***************************************************************************)
THEOREM SessionIsRemote == SessionSpec => ImplementsRemote
<1>1. SessionInit => Remote!Init
  BY InitRefines DEF SessionInit
<1>2. SessionInv /\ [SessionNext]_svars => [Remote!Next]_Remote!vars
  BY SessionRefines
<1> QED BY SessionInvariance, <1>1, <1>2, PTL DEF SessionSpec, ImplementsRemote, Remote!Spec

=============================================================================
