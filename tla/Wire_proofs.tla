----------------------------- MODULE Wire_proofs -----------------------------
(***************************************************************************)
(* The proofs about the event channel: its types, for every instance; and  *)
(* that it is a stream of whole events until one of them is torn, where    *)
(* what the adapter reads is as wide as what is written (Readable).  The   *)
(* argument follows the fields from the thread that writes them to the     *)
(* adapter: while no event has been torn, the last field taken, the        *)
(* messages in the pipe and the last field written make one run of         *)
(* consecutive fields (Chain), which writers extend at one end and the     *)
(* helper thread and the adapter shorten at the other.                     *)
(***************************************************************************)
EXTENDS Wire, SequenceTheorems, TLAPS

-----------------------------------------------------------------------------
(* The layouts.                                                            *)

LEMMA Cat ==
    ASSUME NEW s \in Seq(Nat), NEW t \in Seq(Nat), s # <<>>
    PROVE  /\ s \o t \in Seq(Nat)
           /\ Len(s \o t) = Len(s) + Len(t)
           /\ (s \o t)[1] = s[1]
           /\ \A i \in 1 .. Len(t) : (s \o t)[Len(s) + i] = t[i]
OBVIOUS

LEMMA Breaks == /\ BreakLayout \in Seq(Nat) /\ Len(BreakLayout) = 8
                /\ BreakLayout[1] = Word /\ BreakLayout[2] = Width
BY WireAssumption DEF BreakLayout, Text, Word, Bytes

Whole(l) == l \in Seq(Nat) /\ Len(l) >= 2 /\ l[1] = Word

LEMMA Heads ==
   \A k \in Kind : Whole(Layout[k])
<1> USE WireAssumption DEF Text, Word, Bytes, Whole
<1>1. Whole(<<Word, Width>> \o Text \o <<Word, Word>>)
   OBVIOUS
<1>2. Whole(<<Word, Width>> \o Text \o BreakLayout)
  <2>1. <<Word, Width>> \o Text \in Seq(Nat) /\ Len(<<Word, Width>> \o Text) = 4 /\ (<<Word, Width>> \o Text)[1] = Word
   OBVIOUS
  <2> QED BY <2>1, Breaks, Cat
<1>3. Whole(<<Word, Width, Word, Word, Word>> \o Text \o <<Word>>)
  OBVIOUS
<1>4. Whole(<<Word, Width, Word, Word, Word>> \o Text)
  OBVIOUS
<1>5. Whole(<<Word, Width, Word>> \o Text)
  OBVIOUS
<1>6. Whole(<<Word, Width>>) /\ Whole(<<Word, Width, Word, Word, Word>>)
  OBVIOUS
<1>7. Whole(BreakLayout)
  BY Breaks
<1> HIDE DEF Text, Word, Bytes, Whole
<1>8. Kind = {"CreateVM", "DestroyVM", "LoadScript", "Break", "SetBreakpoint",
              "LoadError", "Exception", "Message", "EvaluateRet", "ExpandTableRet"}
  BY DEF Kind, Layout
<1>9. /\ Layout["CreateVM"] = <<Word, Width>>
      /\ Layout["DestroyVM"] = <<Word, Width>>
      /\ Layout["LoadScript"] = <<Word, Width>> \o Text \o <<Word, Word>>
      /\ Layout["Break"] = BreakLayout
      /\ Layout["SetBreakpoint"] = <<Word, Width, Word, Word, Word>>
      /\ Layout["LoadError"] = <<Word, Width>> \o Text \o BreakLayout
      /\ Layout["Exception"] = <<Word, Width>> \o Text \o BreakLayout
      /\ Layout["Message"] = <<Word, Width, Word>> \o Text
      /\ Layout["EvaluateRet"] = <<Word, Width, Word, Word, Word>> \o Text
      /\ Layout["ExpandTableRet"] = <<Word, Width, Word, Word, Word>> \o Text \o <<Word>>
  BY DEF Layout
<1> QED BY <1>1, <1>2, <1>3, <1>4, <1>5, <1>6, <1>7, <1>8, <1>9

LEMMA Replaced ==
    ASSUME NEW l \in Seq(Nat), NEW i \in 1 .. Len(l), NEW n \in Nat
    PROVE  /\ [l EXCEPT ![i] = n] \in Seq(Nat) /\ Len([l EXCEPT ![i] = n]) = Len(l)
           /\ n = l[i] => [l EXCEPT ![i] = n] = l
OBVIOUS

LEMMA PlanIsLayout ==
    ASSUME NEW k \in Kind
    PROVE  /\ Plan(k) \in Seq(Nat) /\ Len(Plan(k)) = Len(Layout[k])
           /\ Width = Word \/ k \notin Errors => Plan(k) = Layout[k]
<1>1. Layout[k] \in Seq(Nat)
      BY Heads DEF Whole
<1>2. ASSUME k \in Errors PROVE Len(Layout[k]) = 12 /\ Layout[k][6] = Width
  <2>1. PICK h : h = <<Word, Width>> \o Text
        OBVIOUS
  <2>2. Layout[k] = h \o BreakLayout
    <3>1. /\ Layout["LoadError"] = <<Word, Width>> \o Text \o BreakLayout
          /\ Layout["Exception"] = <<Word, Width>> \o Text \o BreakLayout
          BY DEF Layout
    <3> QED BY <1>2, <2>1, <3>1 DEF Errors
  <2>3. h \in Seq(Nat) /\ Len(h) = 4 /\ h # <<>>
        BY <2>1, WireAssumption DEF Text, Word, Bytes
  <2>4. PICK b \in Seq(Nat) : b = BreakLayout
        BY Breaks
  <2>5. Len(h \o b) = 12 /\ (h \o b)[4 + 2] = b[2]
    <3>1. Len(b) = 8 /\ 2 \in 1 .. Len(b)
          BY <2>4, Breaks
    <3>2. /\ Len(h \o b) = Len(h) + Len(b)
          /\ \A i \in 1 .. Len(b) : (h \o b)[Len(h) + i] = b[i]
          BY <2>3, Cat
    <3>3. (h \o b)[Len(h) + 2] = b[2]
          BY <3>1, <3>2
    <3> QED BY <2>3, <3>1, <3>2, <3>3
  <2> QED BY <2>2, <2>4, <2>5, Breaks
<1>3. Word \in Nat
      BY DEF Word
<1>4. CASE k \in Errors
  <2> HIDE DEF Layout, Errors
  <2>1. Plan(k) = [Layout[k] EXCEPT ![6] = Word]
    BY <1>4 DEF Plan
  <2>2. 6 \in 1 .. Len(Layout[k])
    BY <1>2, <1>4
  <2>3. PICK l \in Seq(Nat) : l = Layout[k]
    BY <1>1
  <2>4. /\ [l EXCEPT ![6] = Word] \in Seq(Nat) /\ Len([l EXCEPT ![6] = Word]) = Len(l)
        /\ Word = l[6] => [l EXCEPT ![6] = Word] = l
    BY <1>3, <2>2, <2>3, Replaced
  <2> QED BY <1>2, <1>4, <2>1, <2>3, <2>4
<1>5. CASE k \notin Errors
    BY <1>1, <1>5 DEF Plan
<1> QED BY <1>4, <1>5

-----------------------------------------------------------------------------
(* The invariant.                                                          *)

\* What the theorems about the stream assume of the instance: pointers are of 32
\* bits, or there are no errors, whose second pointer is read as a word
\* (wire_width).
Readable == Width = Word \/ Kinds \cap Errors = {}

\* Place p is a field of an event of s.
Field(s, p) == p.ev \in DOMAIN s /\ p.at \in 1 .. Len(Layout[s[p.ev]])

\* What the variables name exists: the pieces in the pipe, also the rests of
\* those that were cut, are fields of events that were begun.
Known ==
    /\ \A i \in DOMAIN pipe : Field(sent, pipe[i])
    /\ \A t \in Thread : writing[t] # Idle =>
          /\ Field(sent, writing[t]) /\ writing[t].at < Len(Layout[sent[writing[t].ev]])
          /\ sent[writing[t].ev] \in KindsOf(t)
    /\ value = Closed \/ Field(sent, value)
    /\ cur # 0 => cur \in DOMAIN sent /\ got \in 1 .. Len(Layout[sent[cur]]) - 1

\* At most one thread is in the middle of an event, the last one that was begun,
\* and from the first field inside m_criticalSection on it holds it.
HasLock(t, k, i) == LockedFrom(k) # 0 /\ LockedFrom(k) <= i => cs = t
Exclusive ==
    /\ \A t, u \in Thread : writing[t] # Idle /\ writing[u] # Idle => t = u
    /\ \A t \in Thread : writing[t] # Idle =>
          /\ writing[t].ev = Len(sent)
          /\ HasLock(t, sent[Len(sent)], writing[t].at)
HaltedIdle == \A v \in halted : writing[v] = Idle

\* At most one helper thread reads, between two events, and sets the flag.
Reads(h) == helper[h].pc \in {"read", "flag"}
PollOK ==
    /\ \A h, g \in Helper : Reads(h) /\ Reads(g) => h = g
    /\ \A h \in Helper : Reads(h) => reading /\ ~nreadFinish
    /\ nreadFinish => reading
    /\ reading => cur = 0
\* An id has been read that the adapter has not taken.
Held == nreadFinish \/ \E h \in Helper : helper[h].pc = "flag"

\* p is the last field of its event (or nothing has been written), and q the
\* field after p.
Complete(s, p) == p.ev = 0 \/ p.at = Len(Layout[s[p.ev]])
Follows(s, p, q) == IF Complete(s, p) THEN q.ev = p.ev + 1 /\ q.at = 1
                    ELSE q.ev = p.ev /\ q.at = p.at + 1

\* The messages of q carry the events of s on, from field b, without a gap.
Run(s, b, q) ==
    \A i \in 1 .. Len(q) :
        /\ Follows(s, IF i = 1 THEN b ELSE q[i - 1], q[i])
        /\ q[i].size = Layout[s[q[i].ev]][q[i].at]
End(b, q) == IF q = <<>> THEN b ELSE q[Len(q)]

\* The last field the adapter has taken from the channel.
Taken ==
    IF cur # 0 THEN [ev |-> cur, at |-> got]
    ELSE IF Held THEN [ev |-> value.ev, at |-> 1]
    ELSE [ev |-> Len(handled),
          at |-> IF handled = <<>> THEN 0 ELSE Len(Layout[sent[Len(handled)]])]

\* p is the last field that was written, by a process that still writes.
Written(p) == open =>
    IF \A t \in Thread : writing[t] = Idle THEN p.ev = Len(sent) /\ Complete(sent, p)
    ELSE \E t \in Thread : writing[t] # Idle /\ writing[t].ev = p.ev /\ writing[t].at = p.at

Taking ==
    /\ stored => result
    /\ \A h \in Helper : helper[h].pc \in {"flag", "store"} => helper[h].ok
    /\ Held => value # Closed
    /\ cur # 0 => cur = Len(handled) + 1
    /\ cur = 0 /\ Held => value.ev = Len(handled) + 1

Chain == Run(sent, Taken, pipe) /\ Written(End(Taken, pipe)) /\ Taking

\* Something can still be read.
Live == front \in {"up", "stopped"} /\ (open \/ pipe # <<>>)

\* The events handled are the first ones sent, in their order.
Prefix ==
    /\ Len(handled) <= Len(sent)
    /\ \A i \in 1 .. Len(handled) : handled[i] = sent[i]

\* While something can be read, no field is missing between the adapter and the
\* writers.
StreamInv ==
    /\ Exclusive /\ HaltedIdle /\ PollOK
    /\ front # "astray"
    /\ Held => value = Closed \/ value.at = 1
    /\ Prefix
    /\ Live => Chain

-----------------------------------------------------------------------------
(* Types.                                                                  *)

LEMMA Layouts ==
    ASSUME NEW k \in Kind
    PROVE  /\ Layout[k] \in Seq(Nat) /\ Len(Layout[k]) \in Nat /\ Len(Layout[k]) >= 2
           /\ Layout[k][1] = Word
           /\ \A i \in 1 .. Len(Layout[k]) : Layout[k][i] \in Nat
BY Heads DEF Whole

LEMMA Sent ==
    ASSUME TypeOK
    PROVE  /\ Len(sent) \in Nat /\ DOMAIN sent = 1 .. Len(sent)
           /\ \A e \in DOMAIN sent : sent[e] \in Kinds /\ sent[e] \in Kind
           /\ \A k \in Kinds : /\ Append(sent, k) \in Seq(Kinds)
                               /\ Len(Append(sent, k)) = Len(sent) + 1
                               /\ Append(sent, k)[Len(sent) + 1] = k
                               /\ \A e \in DOMAIN sent : Append(sent, k)[e] = sent[e]
BY WireAssumption DEF TypeOK

LEMMA Appended ==
    ASSUME NEW S, NEW q \in Seq(S), NEW x \in S
    PROVE  /\ Append(q, x) \in Seq(S) /\ Len(Append(q, x)) = Len(q) + 1 /\ Len(q) \in Nat
           /\ DOMAIN q = 1 .. Len(q) /\ DOMAIN Append(q, x) = 1 .. Len(q) + 1
           /\ Append(q, x)[Len(q) + 1] = x
           /\ \A i \in 1 .. Len(q) : Append(q, x)[i] = q[i]
OBVIOUS

LEMMA KindsDiffer == ASSUME NEW k \in KindsOf(Cmd) PROVE k \notin Stops
BY DEF KindsOf, Stops, Errors, Answers

\* Writing a field keeps the types, and the new piece is a field of the event.
LEMMA WroteType ==
    ASSUME TypeOK, NEW t \in Thread, NEW e \in Nat \ {0}, NEW k \in Kind \cap KindsOf(t),
           NEW i \in 1 .. Len(Layout[k]), WriteField(t, e, k, i)
    PROVE  /\ cs' \in Thread \cup {None}
           /\ writing' \in [Thread -> [ev : Nat, at : Nat]]
           /\ halted' \subseteq VM
           /\ pipe' \in Seq(Piece)
           /\ \A u \in Thread \ {t} : writing'[u] = writing[u]
           /\ i = Len(Layout[k]) => writing'[t] = Idle
           /\ i # Len(Layout[k]) => writing'[t] = [ev |-> e, at |-> i]
           /\ \A j \in DOMAIN pipe' :
                  \/ j \in DOMAIN pipe /\ pipe'[j] = pipe[j]
                  \/ pipe'[j] = [ev |-> e, at |-> i, size |-> Layout[k][i]]
<1>1. Layout[k][i] \in Nat /\ i \in Nat /\ Len(Layout[k]) \in Nat
      BY Layouts
<1>2. [ev |-> e, at |-> i] \in [ev : Nat, at : Nat] /\ Idle \in [ev : Nat, at : Nat]
      BY <1>1 DEF Idle
<1>3. PICK p \in Piece : p = [ev |-> e, at |-> i, size |-> Layout[k][i]]
      BY <1>1 DEF Piece
<1>4. /\ writing' \in [Thread -> [ev : Nat, at : Nat]]
      /\ \A u \in Thread \ {t} : writing'[u] = writing[u]
      /\ i = Len(Layout[k]) => writing'[t] = Idle
      /\ i # Len(Layout[k]) => writing'[t] = [ev |-> e, at |-> i]
      BY <1>2 DEF WriteField, TypeOK
<1>5. pipe' = pipe \/ pipe' = Append(pipe, p)
      BY <1>3 DEF WriteField
<1>6. /\ pipe' \in Seq(Piece)
      /\ \A j \in DOMAIN pipe' : (j \in DOMAIN pipe /\ pipe'[j] = pipe[j]) \/ pipe'[j] = p
  <2>1. CASE pipe' = pipe
        BY <2>1 DEF TypeOK
  <2>2. CASE pipe' = Append(pipe, p)
    <3>1. pipe \in Seq(Piece)
          BY DEF TypeOK
    <3>2. \A j \in DOMAIN pipe' : j \in DOMAIN pipe \/ j = Len(pipe) + 1
          BY <2>2, <3>1, Appended
    <3> QED BY <2>2, <3>1, <3>2, Appended
  <2> QED BY <1>5, <2>1, <2>2
<1>7. cs' \in Thread \cup {None}
      BY DEF WriteField, TypeOK
<1>8. halted' \subseteq VM
      BY KindsDiffer DEF WriteField, TypeOK, Thread
<1> QED BY <1>3, <1>4, <1>6, <1>7, <1>8

\* An event stays what it is when another one is begun.
LEMMA FieldStays ==
    ASSUME TypeOK, sent' = sent \/ \E k \in Kinds : sent' = Append(sent, k)
    PROVE  /\ \A p : Field(sent, p) => Field(sent', p) /\ sent'[p.ev] = sent[p.ev]
           /\ \A e \in DOMAIN sent : e \in DOMAIN sent' /\ sent'[e] = sent[e]
<1>1. \A e \in DOMAIN sent : e \in DOMAIN sent' /\ sent'[e] = sent[e]
  <2>1. ASSUME NEW k \in Kinds, sent' = Append(sent, k)
        PROVE  \A e \in DOMAIN sent : e \in DOMAIN sent' /\ sent'[e] = sent[e]
    <3>1. sent \in Seq(Kinds)
          BY DEF TypeOK
    <3> QED BY <2>1, <3>1, Appended
  <2> QED BY <2>1
<1> QED BY <1>1 DEF Field

TypeInv == TypeOK /\ Known

LEMMA BeginType ==
    ASSUME TypeInv, NEW t \in Thread, NEW k \in Kind, Begin(t, k)
    PROVE  TypeInv'
<1>0. PICK e \in Nat \ {0} : e = Len(sent) + 1
      BY Sent DEF TypeInv
<1>1. /\ e \in Nat \ {0} /\ k \in Kinds /\ k \in Kind \cap KindsOf(t)
      /\ 1 \in 1 .. Len(Layout[k]) /\ WriteField(t, e, k, 1) /\ Len(Layout[k]) # 1
      BY <1>0, Sent, Layouts DEF Begin, TypeInv
<1>2. sent' = Append(sent, k) /\ sent' \in Seq(Kinds) /\ Len(sent') = e /\ sent'[e] = k
      /\ e \in DOMAIN sent'
      BY <1>0, <1>1, Sent DEF Begin, TypeInv
<1>a. TypeOK
      BY DEF TypeInv
<1>b. /\ cs' \in Thread \cup {None} /\ halted' \subseteq VM /\ pipe' \in Seq(Piece)
      /\ writing' \in [Thread -> [ev : Nat, at : Nat]]
      /\ \A u \in Thread \ {t} : writing'[u] = writing[u]
      /\ writing'[t] = [ev |-> e, at |-> 1]
  <2>1. PICK i \in 1 .. Len(Layout[k]) : i = 1 /\ WriteField(t, e, k, i) /\ i # Len(Layout[k])
        BY <1>1
  <2>2. writing'[t] = [ev |-> e, at |-> i]
        BY <1>a, <2>1 DEF WriteField, TypeOK
  <2> QED BY <1>1, <1>a, <2>1, <2>2, WroteType
<1>3. TypeOK'
      BY <1>1, <1>2, <1>b DEF Begin, TypeInv, TypeOK, poll, adapter
<1>4. \A p : Field(sent, p) => Field(sent', p) /\ sent'[p.ev] = sent[p.ev]
      BY <1>1, <1>2, FieldStays DEF TypeInv
<1>5. [ev |-> e, at |-> 1] # Idle
      BY <1>1 DEF Idle
<1>6. \A s : Field(sent', [ev |-> e, at |-> 1, size |-> s]) /\ Field(sent', [ev |-> e, at |-> 1])
      BY <1>1, <1>2 DEF Field
<1>7. \A i \in DOMAIN pipe' : Field(sent', pipe'[i])
      BY <1>1, <1>4, <1>6, WroteType DEF TypeInv, Known
<1>8. ASSUME NEW u \in Thread, writing'[u] # Idle
      PROVE  /\ Field(sent', writing'[u]) /\ writing'[u].at < Len(Layout[sent'[writing'[u].ev]])
             /\ sent'[writing'[u].ev] \in KindsOf(u)
  <2>1. CASE u = t
    <3>1. [ev |-> e, at |-> 1].ev = e /\ [ev |-> e, at |-> 1].at = 1
          OBVIOUS
    <3>2. Field(sent', [ev |-> e, at |-> 1])
          BY <1>6
    <3>3. 1 < Len(Layout[k]) /\ k \in KindsOf(t)
          BY <1>1, Layouts
    <3> QED BY <1>2, <1>b, <2>1, <3>1, <3>2, <3>3
  <2>2. CASE u # t
    <3>1. writing'[u] = writing[u]
          BY <1>b, <2>2
    <3> QED BY <1>4, <1>8, <3>1 DEF TypeInv, Known
  <2> QED BY <2>1, <2>2
<1>9. /\ value' = Closed \/ Field(sent', value')
      /\ cur' # 0 => cur' \in DOMAIN sent' /\ got' \in 1 .. Len(Layout[sent'[cur']]) - 1
      BY <1>1, <1>2, <1>4, FieldStays DEF TypeInv, Known, Begin, poll, adapter
<1> QED BY <1>3, <1>7, <1>8, <1>9 DEF TypeInv, Known

LEMMA ContinueType ==
    ASSUME TypeInv, NEW t \in Thread, Continue(t)
    PROVE  TypeInv'
<1>1. TypeOK /\ Known /\ writing[t] # Idle /\ sent' = sent
      BY DEF TypeInv, Continue
<1>2. PICK e \in Nat \ {0} : e = writing[t].ev /\ e \in DOMAIN sent
      BY <1>1, Sent DEF Known, Field, TypeOK
<1>3. PICK k \in Kind \cap KindsOf(t) : k = sent[e] /\ k \in Kinds
      BY <1>1, <1>2, Sent DEF Known
<1>4. PICK i \in 1 .. Len(Layout[k]) : i = writing[t].at + 1
  <2>1. writing[t].at \in 1 .. Len(Layout[k]) /\ writing[t].at < Len(Layout[k])
        BY <1>1, <1>2, <1>3 DEF Known, Field
  <2> QED BY <1>3, <2>1, Layouts
<1>5. WriteField(t, e, k, i) /\ i \in Nat /\ i # 0
      BY <1>1, <1>2, <1>3, <1>4 DEF Continue
<1>6. /\ cs' \in Thread \cup {None} /\ halted' \subseteq VM /\ pipe' \in Seq(Piece)
      /\ writing' \in [Thread -> [ev : Nat, at : Nat]]
      /\ \A u \in Thread \ {t} : writing'[u] = writing[u]
      BY <1>1, <1>5, WroteType
<1>p. \A j \in DOMAIN pipe' :
            \/ j \in DOMAIN pipe /\ pipe'[j] = pipe[j]
            \/ pipe'[j] = [ev |-> e, at |-> i, size |-> Layout[k][i]]
  <2>1. PICK p \in Piece : p = [ev |-> e, at |-> i, size |-> Layout[k][i]]
    <3>1. k \in Kind /\ e \in Nat /\ i \in Nat
          OBVIOUS
    <3>2. Layout[k][i] \in Nat
          BY <3>1, Layouts
    <3>3. PICK n \in Nat : n = Layout[k][i]
          BY <3>2
    <3> QED BY <3>1, <3>3 DEF Piece
  <2>2. pipe' = pipe \/ pipe' = Append(pipe, p)
        BY <1>5, <2>1 DEF WriteField
  <2>3. pipe \in Seq(Piece)
        BY <1>1 DEF TypeOK
  <2>4. CASE pipe' = Append(pipe, p)
        BY <2>1, <2>3, <2>4, Appended
  <2> QED BY <2>2, <2>4
<1>7. \/ i = Len(Layout[k]) /\ writing'[t] = Idle
      \/ i # Len(Layout[k]) /\ writing'[t] = [ev |-> e, at |-> i]
      BY <1>1, <1>5 DEF WriteField, TypeOK
<1>8. TypeOK'
      BY <1>1, <1>6 DEF Continue, TypeOK, poll, adapter
<1>9. Field(sent, [ev |-> e, at |-> i]) /\ Field(sent, [ev |-> e, at |-> i, size |-> Layout[k][i]])
      BY <1>2, <1>3 DEF Field
<1>10. ASSUME NEW j \in DOMAIN pipe' PROVE Field(sent, pipe'[j])
  <2>1. \/ j \in DOMAIN pipe /\ pipe'[j] = pipe[j]
        \/ pipe'[j] = [ev |-> e, at |-> i, size |-> Layout[k][i]]
        BY <1>p
  <2> QED BY <1>1, <1>9, <2>1 DEF Known
<1>11. ASSUME NEW u \in Thread, writing'[u] # Idle
       PROVE  /\ Field(sent, writing'[u]) /\ writing'[u].at < Len(Layout[sent[writing'[u].ev]])
              /\ sent[writing'[u].ev] \in KindsOf(u)
  <2>1. CASE u = t
    <3>1. writing'[t] = [ev |-> e, at |-> i] /\ i < Len(Layout[k])
          BY <1>4, <1>7, <1>11, <2>1, Layouts
    <3> QED BY <1>3, <1>9, <2>1, <3>1
  <2>2. CASE u # t
        BY <1>1, <1>6, <1>11, <2>2 DEF Known
  <2> QED BY <2>1, <2>2
<1> QED BY <1>1, <1>8, <1>10, <1>11 DEF TypeInv, Known, Continue, poll, adapter

LEMMA Consed ==
    ASSUME NEW S, NEW x \in S, NEW q \in Seq(S)
    PROVE  /\ <<x>> \o q \in Seq(S)
           /\ \A i \in DOMAIN (<<x>> \o q) :
                 \/ i = 1 /\ (<<x>> \o q)[i] = x
                 \/ i - 1 \in DOMAIN q /\ (<<x>> \o q)[i] = q[i - 1]
<1>1. PICK s : s = <<x>>
      OBVIOUS
<1>2. s \in Seq(S) /\ Len(s) = 1 /\ s[1] = x /\ Len(q) \in Nat /\ DOMAIN q = 1 .. Len(q)
      BY <1>1
<1>3. /\ s \o q \in Seq(S)
      /\ Len(s \o q) = Len(s) + Len(q)
      /\ \A i \in 1 .. Len(s) + Len(q) :
            (s \o q)[i] = IF i <= Len(s) THEN s[i] ELSE q[i - Len(s)]
      BY <1>2, ConcatProperties
<1>4. DOMAIN (s \o q) = 1 .. Len(q) + 1
      BY <1>2, <1>3
<1>5. ASSUME NEW i \in 1 .. Len(q) + 1
      PROVE  \/ i = 1 /\ (s \o q)[i] = x
             \/ i - 1 \in 1 .. Len(q) /\ (s \o q)[i] = q[i - 1]
   <2>1. CASE i = 1 
     BY <1>2, <1>3, <2>1
   <2>2. CASE i # 1 
     <3>1. i \in Nat /\ Len(q) \in Nat /\ i - 1 \in 1 .. Len(q) /\ ~(i <= Len(s)) /\ i \in 1 .. Len(s) + Len(q)
           BY <1>2, <2>2
     <3>2. (s \o q)[i] = q[i - Len(s)]
           BY <1>3, <3>1
     <3> QED BY <1>2, <3>1, <3>2
   <2> QED BY <2>1, <2>2
<1> QED BY <1>1, <1>2, <1>3, <1>4, <1>5

\* Reading a piece keeps the others; what is left of it is a field still.
LEMMA CutType ==
    ASSUME TypeInv, pipe # <<>>, NEW n \in Nat
    PROVE  /\ Head(pipe) \in Piece /\ Head(pipe) = pipe[1] /\ Field(sent, Head(pipe))
           /\ Cut(n) \in Seq(Piece)
           /\ \A i \in DOMAIN Cut(n) : Field(sent, Cut(n)[i])
<1>1. /\ pipe \in Seq(Piece) /\ Head(pipe) \in Piece /\ Head(pipe) = pipe[1]
      /\ Tail(pipe) \in Seq(Piece) /\ \A i \in DOMAIN Tail(pipe) : i + 1 \in DOMAIN pipe /\ Tail(pipe)[i] = pipe[i + 1]
      /\ 1 \in DOMAIN pipe
      BY DEF TypeInv, TypeOK
<1>2. Field(sent, Head(pipe)) /\ \A i \in DOMAIN Tail(pipe) : Field(sent, Tail(pipe)[i])
      BY <1>1 DEF TypeInv, Known
<1>3. CASE Head(pipe).size > n
  <2>0. PICK h \in Piece : h = Head(pipe)
        BY <1>1
  <2>1. PICK p \in Piece : p = [h EXCEPT !.size = @ - n] /\ p.ev = h.ev /\ p.at = h.at
    <3>1. h.size - n \in Nat /\ h.ev \in Nat /\ h.at \in Nat
          BY <1>3, <2>0 DEF Piece
    <3>2. [h EXCEPT !.size = @ - n] = [ev |-> h.ev, at |-> h.at, size |-> h.size - n]
          BY DEF Piece
    <3>3. [ev |-> h.ev, at |-> h.at, size |-> h.size - n] \in Piece
          BY <3>1 DEF Piece
    <3>4. [ev |-> h.ev, at |-> h.at, size |-> h.size - n].ev = h.ev
          /\ [ev |-> h.ev, at |-> h.at, size |-> h.size - n].at = h.at
          OBVIOUS
    <3> QED BY <3>2, <3>3, <3>4
  <2>2. Field(sent, p)
        BY <1>2, <2>0, <2>1 DEF Field
  <2>3. Cut(n) = <<p>> \o Tail(pipe)
        BY <1>3, <2>0, <2>1 DEF Cut
  <2>q. PICK q \in Seq(Piece) : q = Tail(pipe)
        BY <1>1
  <2>4. /\ <<p>> \o q \in Seq(Piece)
        /\ \A i \in DOMAIN (<<p>> \o q) :
              \/ i = 1 /\ (<<p>> \o q)[i] = p
              \/ i - 1 \in DOMAIN q /\ (<<p>> \o q)[i] = q[i - 1]
        BY Consed
  <2> QED BY <1>1, <1>2, <2>2, <2>3, <2>4, <2>q
<1>4. CASE ~(Head(pipe).size > n)
      BY <1>1, <1>2, <1>4 DEF Cut
<1> QED BY <1>1, <1>2, <1>3, <1>4

LEMMA HelperType ==
    ASSUME TypeInv, NEW h \in Helper, HelperStep(h)
    PROVE  TypeInv'
<1>1. CASE HelperReads(h)
  <2>1. Word \in Nat /\ pipe # <<>>
        BY <1>1 DEF Word, HelperReads
  <2>2. /\ pipe' \in Seq(Piece) /\ (value' = Closed \/ value' = Head(pipe))
        /\ \A i \in DOMAIN pipe' : Field(sent, pipe'[i])
        BY <1>1, <2>1, CutType DEF HelperReads
  <2>3. value' \in Piece
    <3>1. Closed \in Piece
          BY DEF Closed, Piece
    <3> QED BY <2>1, <2>2, <3>1, CutType
  <2>4. helper' \in [Helper -> [pc : {"none", "read", "flag", "store"}, ok : BOOLEAN]]
        BY <1>1 DEF HelperReads, TypeInv, TypeOK
  <2> QED BY <1>1, <2>1, <2>2, <2>3, <2>4, CutType
          DEF HelperReads, TypeInv, TypeOK, Known, backend, adapter
<1>2. CASE HelperFails(h)
  <2>1. helper' \in [Helper -> [pc : {"none", "read", "flag", "store"}, ok : BOOLEAN]]
        BY <1>2 DEF HelperFails, TypeInv, TypeOK
  <2> QED BY <1>2, <2>1 DEF HelperFails, TypeInv, TypeOK, Known, Closed, Piece, backend, adapter
<1>3. CASE HelperFlags(h)
  <2>1. helper' \in [Helper -> [pc : {"none", "read", "flag", "store"}, ok : BOOLEAN]]
        BY <1>3 DEF HelperFlags, TypeInv, TypeOK
  <2> QED BY <1>3, <2>1 DEF HelperFlags, TypeInv, TypeOK, Known, backend, adapter
<1>4. CASE HelperStores(h)
  <2>1. helper' \in [Helper -> [pc : {"none", "read", "flag", "store"}, ok : BOOLEAN]]
        BY <1>4 DEF HelperStores, TypeInv, TypeOK, NoThread
  <2>2. result' \in BOOLEAN
        BY <1>4 DEF HelperStores, TypeInv, TypeOK
  <2> QED BY <1>4, <2>1, <2>2 DEF HelperStores, TypeInv, TypeOK, Known, backend, adapter
<1> QED BY <1>1, <1>2, <1>3, <1>4 DEF HelperStep

LEMMA FrontType ==
    ASSUME TypeInv, Front
    PROVE  TypeInv'
<1>1. CASE PollStarts
  <2>1. helper' \in [Helper -> [pc : {"none", "read", "flag", "store"}, ok : BOOLEAN]]
        BY <1>1 DEF PollStarts, TypeInv, TypeOK
  <2> QED BY <1>1, <2>1 DEF PollStarts, TypeInv, TypeOK, Known, backend, adapter
<1>2. CASE PollEnds
  <2>1. value.at = 1 /\ value # Closed => value.ev \in DOMAIN sent /\ 1 \in 1 .. Len(Layout[sent[value.ev]]) - 1
        BY Sent, Layouts DEF TypeInv, Known, Field
  <2>2. /\ front' \in {"up", "astray", "stopped", "closing", "closed"}
        /\ cur' \in Nat /\ got' \in Nat /\ handled' \in Seq(Kinds \cup {None})
    <3>0. value.ev \in Nat /\ TypeOK
          BY DEF TypeInv, TypeOK, Piece
    <3>1. CASE result /\ value # Closed /\ value.at = 1
          BY <1>2, <3>0, <3>1 DEF PollEnds, TypeOK
    <3>2. CASE result /\ value # Closed /\ value.at # 1
      <4>1. front' = "astray" /\ handled' = Append(handled, None) /\ cur' = cur /\ got' = got
            BY <1>2, <3>2 DEF PollEnds
      <4> QED BY <3>0, <4>1 DEF TypeOK
    <3>3. CASE ~result \/ value = Closed
          BY <1>2, <3>0, <3>3 DEF PollEnds, TypeOK, adapter
    <3> QED BY <3>1, <3>2, <3>3
  <2>3. cur' # 0 => cur' \in DOMAIN sent /\ got' \in 1 .. Len(Layout[sent[cur']]) - 1
    <3>1. CASE result /\ value # Closed /\ value.at = 1
          BY <1>2, <2>1, <3>1 DEF PollEnds
    <3>2. CASE ~(result /\ value # Closed /\ value.at = 1)
      <4>1. cur' = cur /\ got' = got
        <5>1. CASE ~result
              BY <1>2, <5>1 DEF PollEnds
        <5>2. CASE result /\ value = Closed
              BY <1>2, <5>2 DEF PollEnds, adapter, Closed
        <5>3. CASE result /\ value # Closed /\ value.at # 1
              BY <1>2, <5>3 DEF PollEnds
        <5> QED BY <3>2, <5>1, <5>2, <5>3
      <4> QED BY <4>1 DEF TypeInv, Known
    <3> QED BY <3>1, <3>2
  <2> QED BY <1>2, <2>2, <2>3 DEF PollEnds, TypeInv, TypeOK, Known, backend
<1>3. CASE ReadField
  <2>1. /\ TypeOK /\ Known /\ cur # 0 /\ cur \in DOMAIN sent /\ sent[cur] \in Kind /\ sent[cur] \in Kinds
        /\ got \in 1 .. Len(Layout[sent[cur]]) - 1 /\ pipe # <<>>
        BY <1>3, Sent DEF ReadField, TypeInv, Known
  <2>2. PICK size \in Nat : size = Plan(sent[cur])[got + 1]
        BY <2>1, Layouts, PlanIsLayout
  <2>3. pipe' = Cut(size)
        BY <1>3, <2>2 DEF ReadField
  <2>4. pipe' \in Seq(Piece) /\ \A i \in DOMAIN pipe' : Field(sent, pipe'[i])
        BY <2>1, <2>3, CutType
  <2>5. Len(Plan(sent[cur])) = Len(Layout[sent[cur]]) /\ Len(Layout[sent[cur]]) \in Nat
        BY <2>1, Layouts, PlanIsLayout
  <2>6. /\ front' \in {"up", "astray", "stopped", "closing", "closed"}
        /\ cur' \in Nat /\ got' \in Nat
        /\ cur' # 0 => cur' = cur /\ got' \in 1 .. Len(Layout[sent[cur]]) - 1
        BY <1>3, <2>1, <2>5 DEF ReadField, TypeOK
  <2>7. handled' \in Seq(Kinds \cup {None})
        BY <1>3, <2>1 DEF ReadField, TypeOK
  <2> QED BY <1>3, <2>1, <2>4, <2>6, <2>7 DEF ReadField, TypeInv, TypeOK, Known, backend, poll
<1>4. CASE ReadFails
      BY <1>4 DEF ReadFails, TypeInv, TypeOK, Known, backend, poll
<1>5. CASE Destroy
      BY <1>5 DEF Destroy, TypeInv, TypeOK, Known, backend, poll
<1>6. CASE Destroyed
      BY <1>6 DEF Destroyed, TypeInv, TypeOK, Known, backend, poll
<1> QED BY <1>1, <1>2, <1>3, <1>4, <1>5, <1>6 DEF Front

LEMMA TypeStep == TypeInv /\ [Next]_vars => TypeInv'
<1> SUFFICES ASSUME TypeInv, [Next]_vars PROVE TypeInv'
    OBVIOUS
<1>1. CASE \E v \in VM : Resume(v)
      BY <1>1 DEF Resume, TypeInv, TypeOK, Known, poll, adapter
<1>2. CASE Close
  <2>1. writing' = [t \in Thread |-> Idle] /\ cs' = None /\ halted' = {} /\ open' = FALSE
        BY <1>2 DEF Close
  <2>2. Idle \in [ev : Nat, at : Nat]
        BY DEF Idle
  <2>3. writing' \in [Thread -> [ev : Nat, at : Nat]] /\ \A t \in Thread : writing'[t] = Idle
        BY <2>1, <2>2
  <2> QED BY <1>2, <2>1, <2>3 DEF Close, TypeInv, TypeOK, Known, poll, adapter
<1>3. CASE UserStop
      BY <1>3 DEF UserStop, TypeInv, TypeOK, Known, backend, poll
<1>4. CASE UNCHANGED vars
      BY <1>4 DEF vars, TypeInv, TypeOK, Known, backend, poll, adapter
<1> QED BY <1>1, <1>2, <1>3, <1>4, BeginType, ContinueType, HelperType, FrontType DEF Next

LEMMA TypeInit == Init => TypeInv
<1> SUFFICES ASSUME Init PROVE TypeInv
    OBVIOUS
<1>1. Idle \in [ev : Nat, at : Nat] /\ Closed \in Piece
      BY DEF Idle, Closed, Piece
<1>2. NoThread \in [pc : {"none", "read", "flag", "store"}, ok : BOOLEAN]
      BY DEF NoThread
<1>3. TypeOK
  <2>1. result \in BOOLEAN /\ helper \in [Helper -> [pc : {"none", "read", "flag", "store"}, ok : BOOLEAN]]
        BY <1>2, WireAssumption DEF Init
  <2>2. writing \in [Thread -> [ev : Nat, at : Nat]]
        BY <1>1 DEF Init
  <2>3. pipe \in Seq(Piece) /\ sent \in Seq(Kinds) /\ handled \in Seq(Kinds \cup {None})
        BY DEF Init
  <2> QED BY <1>1, <2>1, <2>2, <2>3 DEF Init, TypeOK
<1>4. Known
      BY <1>3 DEF Init, Known, TypeOK
<1> QED BY <1>3, <1>4 DEF TypeInv

\* In every reachable state the channel's variables have the values they can have, whatever the
\* kinds of events, the width of pointers and what the adapter makes of them: every piece of the
\* pipe, also the rest of one that was cut, is a field of an event that was begun, and the adapter
\* never looks for a field its event does not have.
THEOREM TypeCorrect == Spec => []TypeOK
BY TypeInit, TypeStep, PTL DEF Spec, TypeInv

-----------------------------------------------------------------------------
(* Runs of messages.                                                       *)

Same(p, q) == p.ev = q.ev /\ p.at = q.at

LEMMA EndSame ==
    ASSUME NEW q \in Seq(Piece), NEW b, NEW c, Same(b, c)
    PROVE  Same(End(b, q), End(c, q))
BY DEF End, Same

LEMMA RunSame ==
    ASSUME NEW q \in Seq(Piece), NEW s, NEW b, NEW c, Same(b, c), Run(s, b, q)
    PROVE  Run(s, c, q)
<1>1. ASSUME NEW i \in 1 .. Len(q)
      PROVE  Follows(s, IF i = 1 THEN c ELSE q[i - 1], q[i])
  <2>1. CASE i = 1
        BY <2>1 DEF Run, Follows, Complete, Same
  <2>2. CASE i # 1
        BY <2>2 DEF Run
  <2> QED BY <2>1, <2>2
<1> QED BY <1>1 DEF Run

\* A message that follows the last one continues the run.
LEMMA Extend ==
    ASSUME NEW q \in Seq(Piece), NEW p \in Piece, NEW s, NEW b, Run(s, b, q),
           Follows(s, End(b, q), p), p.size = Layout[s[p.ev]][p.at]
    PROVE  Run(s, b, Append(q, p)) /\ End(b, Append(q, p)) = p
<1>1. PICK r \in Seq(Piece) : r = Append(q, p)
      BY Appended
<1>2. /\ Len(q) \in Nat /\ Len(r) = Len(q) + 1 /\ r[Len(q) + 1] = p
      /\ \A i \in 1 .. Len(q) : r[i] = q[i]
      BY <1>1, Appended
<1>3. ASSUME NEW i \in 1 .. Len(r)
      PROVE  /\ Follows(s, IF i = 1 THEN b ELSE r[i - 1], r[i])
             /\ r[i].size = Layout[s[r[i].ev]][r[i].at]
  <2>1. CASE i = Len(q) + 1
    <3>1. End(b, q) = IF i = 1 THEN b ELSE r[i - 1]
      <4>1. CASE q = <<>>
            BY <1>2, <2>1, <4>1 DEF End
      <4>2. CASE q # <<>>
        <5>1. Len(q) # 0 /\ i # 1 /\ i - 1 = Len(q) /\ Len(q) \in 1 .. Len(q)
              BY <1>2, <2>1, <4>2
        <5> QED BY <1>2, <4>2, <5>1 DEF End
      <4> QED BY <4>1, <4>2
    <3> QED BY <1>2, <2>1, <3>1
  <2>2. CASE i # Len(q) + 1
    <3>1. i \in 1 .. Len(q) /\ (i # 1 => i - 1 \in 1 .. Len(q))
          BY <1>2, <2>2
    <3>2. r[i] = q[i] /\ (i # 1 => r[i - 1] = q[i - 1])
          BY <1>2, <3>1
    <3>3. /\ Follows(s, IF i = 1 THEN b ELSE q[i - 1], q[i])
          /\ q[i].size = Layout[s[q[i].ev]][q[i].at]
          BY <3>1 DEF Run
    <3>4. (IF i = 1 THEN b ELSE q[i - 1]) = IF i = 1 THEN b ELSE r[i - 1]
          BY <3>2
    <3> QED BY <3>2, <3>3, <3>4
  <2> QED BY <2>1, <2>2
<1>4. End(b, r) = p /\ Run(s, b, r)
  <2>1. r # <<>>
        BY <1>2
  <2> QED BY <1>2, <1>3, <2>1 DEF End, Run
<1> QED BY <1>1, <1>4

\* When the first message is taken, the rest runs on from it.
LEMMA Shift ==
    ASSUME NEW q \in Seq(Piece), q # <<>>, NEW s, NEW b, Run(s, b, q),
           NEW c, Same(c, Head(q))
    PROVE  /\ Follows(s, b, Head(q)) /\ Head(q).size = Layout[s[Head(q).ev]][Head(q).at]
           /\ Run(s, c, Tail(q)) /\ Same(End(c, Tail(q)), End(b, q))
<1>1. PICK r \in Seq(Piece) : r = Tail(q)
      BY HeadTailProperties
<1>2. /\ Head(q) = q[1] /\ Len(q) \in Nat /\ 1 \in 1 .. Len(q)
      /\ Len(r) = Len(q) - 1 /\ \A i \in 1 .. Len(r) : r[i] = q[i + 1]
      BY <1>1, HeadTailProperties
<1>3. Follows(s, b, Head(q)) /\ Head(q).size = Layout[s[Head(q).ev]][Head(q).at]
      BY <1>2 DEF Run
<1>4. ASSUME NEW i \in 1 .. Len(r)
      PROVE  /\ Follows(s, IF i = 1 THEN c ELSE r[i - 1], r[i])
             /\ r[i].size = Layout[s[r[i].ev]][r[i].at]
  <2>1. i \in Nat /\ i + 1 \in 1 .. Len(q) /\ i + 1 # 1 /\ (i + 1) - 1 = i /\ r[i] = q[i + 1]
        BY <1>2
  <2>2. Follows(s, q[i], r[i]) /\ r[i].size = Layout[s[r[i].ev]][r[i].at]
        BY <2>1 DEF Run
  <2>3. CASE i = 1
        BY <1>2, <2>2, <2>3 DEF Follows, Complete, Same
  <2>4. CASE i # 1
    <3>1. i - 1 \in 1 .. Len(r) /\ (i - 1) + 1 = i
          BY <1>2, <2>4
    <3>2. r[i - 1] = q[i]
          BY <1>2, <3>1
    <3> QED BY <2>2, <2>4, <3>2
  <2> QED BY <2>3, <2>4
<1>5. Same(End(c, r), End(b, q))
  <2>1. CASE r = <<>>
    <3>1. Len(r) = 0 /\ Len(q) = 1
          BY <1>2, <2>1
    <3> QED BY <1>2, <2>1, <3>1 DEF End, Same
  <2>2. CASE r # <<>>
    <3>1. Len(r) \in 1 .. Len(r) /\ Len(r) + 1 = Len(q)
          BY <1>2, <2>2
    <3> QED BY <1>2, <2>2, <3>1 DEF End, Same
  <2> QED BY <2>1, <2>2
<1> QED BY <1>1, <1>3, <1>4, <1>5 DEF Run

Fits(s, p) == p.ev = 0 \/ p.ev \in DOMAIN s

\* An event begun later changes nothing about the messages of the earlier ones.
LEMMA Grow ==
    ASSUME NEW q \in Seq(Piece), NEW s, NEW r, NEW b, Run(s, b, q), Fits(s, b),
           \A i \in DOMAIN q : Field(s, q[i]),
           \A e \in DOMAIN s : r[e] = s[e]
    PROVE  /\ Run(r, b, q) /\ Fits(s, End(b, q))
           /\ Complete(r, End(b, q)) <=> Complete(s, End(b, q))
<1>1. Len(q) \in Nat /\ DOMAIN q = 1 .. Len(q)
      OBVIOUS
<1>2. \A p : Fits(s, p) => (Complete(r, p) <=> Complete(s, p))
      BY DEF Fits, Complete
<1>3. \A p, x : Fits(s, p) /\ Follows(s, p, x) => Follows(r, p, x)
      BY <1>2 DEF Follows
<1>4. ASSUME NEW i \in 1 .. Len(q)
      PROVE  /\ Follows(r, IF i = 1 THEN b ELSE q[i - 1], q[i])
             /\ q[i].size = Layout[r[q[i].ev]][q[i].at]
  <2>1. Fits(s, IF i = 1 THEN b ELSE q[i - 1])
    <3>1. CASE i = 1
          BY <3>1
    <3>2. CASE i # 1
      <4>1. i - 1 \in DOMAIN q
            BY <1>1, <3>2
      <4> QED BY <3>2, <4>1 DEF Field, Fits
    <3> QED BY <3>1, <3>2
  <2>2. Field(s, q[i]) /\ Follows(s, IF i = 1 THEN b ELSE q[i - 1], q[i])
        /\ q[i].size = Layout[s[q[i].ev]][q[i].at]
        BY <1>1 DEF Run
  <2> QED BY <1>3, <2>1, <2>2 DEF Field
<1>5. Fits(s, End(b, q))
      BY <1>1 DEF End, Field, Fits
<1> QED BY <1>2, <1>4, <1>5 DEF Run

-----------------------------------------------------------------------------
(* The threads of the process.                                             *)

Inv == TypeInv /\ StreamInv

\* What holds in every reachable state.
WireInv == TypeInv /\ (torn \/ StreamInv)

\* A kind that is not loose is written whole inside the critical section.
LEMMA Locked ==
    ASSUME NEW k \in Kind
    PROVE  /\ LockedFrom(k) \in {0, 1, 5}
           /\ k \notin Loose => LockedFrom(k) = 1
BY DEF Loose, LockedFrom, Answers

\* Where the adapter is, is a place in an event that was begun.
LEMMA TakenFits ==
    ASSUME Inv
    PROVE  /\ Fits(sent, Taken)
           /\ cur # 0 => cur \in Nat /\ got \in Nat
<1>1. TypeOK /\ Known /\ Prefix
      BY DEF Inv, TypeInv, StreamInv
<1>2. Len(handled) \in Nat /\ Len(sent) \in Nat /\ DOMAIN sent = 1 .. Len(sent)
      BY <1>1 DEF TypeOK
<1>3. CASE cur # 0
      BY <1>1, <1>3 DEF Taken, Fits, Known, TypeOK
<1>4. CASE cur = 0 /\ Held
      BY <1>1, <1>4 DEF Taken, Fits, Known, Field, Closed
<1>5. CASE cur = 0 /\ ~Held
      BY <1>1, <1>2, <1>5 DEF Taken, Fits, Prefix
<1> QED BY <1>3, <1>4, <1>5

\* While one thread is in the middle of an event, no other one is.
LEMMA OneWriter ==
    ASSUME Inv, NEW t \in Thread, writing[t] # Idle
    PROVE  /\ writing[t].ev = Len(sent)
           /\ \A u \in Thread \ {t} : writing[u] = Idle
BY DEF Inv, StreamInv, Exclusive

\* Unless an event is torn, a thread begins one only when none is in the middle of
\* one: both would be written under the lock.
LEMMA AllIdle ==
    ASSUME Inv, NEW t \in Thread, NEW k \in Kind, Begin(t, k), ~torn'
    PROVE  \A u \in Thread : writing[u] = Idle
<1> SUFFICES ASSUME NEW u \in Thread, writing[u] # Idle
             PROVE  FALSE
    OBVIOUS
<1>1. /\ writing[t] = Idle /\ u # t /\ WriteField(t, Len(sent) + 1, k, 1)
      /\ ~Tears(t, k)
      BY DEF Begin
<1>2. /\ writing[u].ev = Len(sent) /\ HasLock(u, sent[Len(sent)], writing[u].at)
      /\ Field(sent, writing[u]) /\ TypeOK
      BY DEF Inv, StreamInv, TypeInv, Exclusive, Known
<1>3. PICK l \in Kind : l = sent[Len(sent)]
      BY <1>2, Sent DEF Field
<1>4. k \notin Loose /\ l \notin Loose
      BY <1>1, <1>2, <1>3 DEF Tears
<1>5. LockedFrom(k) = 1 /\ LockedFrom(l) = 1
      BY <1>4, Locked
<1>6. writing[u].at \in Nat /\ 1 <= writing[u].at
      BY <1>2, <1>3, Layouts DEF Field
<1>7. cs = u
      BY <1>2, <1>3, <1>5, <1>6 DEF HasLock
<1>8. cs = None
      BY <1>1, <1>5 DEF WriteField
<1> QED BY <1>7, <1>8, WireAssumption

\* What writing a field leaves alone of the adapter.
LEMMA ReaderStays ==
    ASSUME Inv, UNCHANGED <<poll, adapter, handled>>,
           sent' = sent \/ \E k \in Kinds : sent' = Append(sent, k)
    PROVE  /\ PollOK' /\ Prefix' /\ (Held' <=> Held)
           /\ front' # "astray"
           /\ Held' => value' = Closed \/ value'.at = 1
           /\ Taking => Taking'
           /\ Taken' = Taken
<1>1. /\ reading' = reading /\ nreadFinish' = nreadFinish /\ value' = value /\ result' = result
      /\ stored' = stored /\ helper' = helper /\ front' = front /\ cur' = cur /\ got' = got /\ handled' = handled
      BY DEF poll, adapter
<1>2. PollOK' /\ (Held' <=> Held) /\ front' # "astray"
      /\ (Held' => value' = Closed \/ value'.at = 1) /\ (Taking => Taking')
      BY <1>1 DEF Inv, StreamInv, PollOK, Reads, Held, Taking
<1>3. /\ \A e \in DOMAIN sent : e \in DOMAIN sent' /\ sent'[e] = sent[e]
      /\ Len(sent) \in Nat /\ Len(sent') \in Nat /\ Len(sent) <= Len(sent') /\ DOMAIN sent = 1 .. Len(sent)
      /\ Len(handled) \in Nat
  <2>1. TypeOK /\ sent \in Seq(Kinds)
        BY DEF Inv, TypeInv, TypeOK
  <2>2. ASSUME NEW k \in Kinds, sent' = Append(sent, k)
        PROVE  Len(sent') = Len(sent) + 1
        BY <2>1, <2>2, Appended
  <2>3. Len(handled) \in Nat
        BY <2>1 DEF TypeOK
  <2> QED BY <2>1, <2>2, <2>3, FieldStays
<1>4. Prefix'
      BY <1>1, <1>3 DEF Inv, StreamInv, Prefix
<1>5. Taken' = Taken
  <2>1. handled # <<>> => Len(handled) \in DOMAIN sent
    <3>1. handled # <<>> => Len(handled) # 0
          BY DEF Inv, TypeInv, TypeOK
    <3> QED BY <1>3, <3>1 DEF Inv, StreamInv, Prefix
  <2> QED BY <1>1, <1>2, <1>3, <2>1 DEF Taken
<1> QED BY <1>2, <1>4, <1>5

LEMMA PipeGrows ==
    ASSUME Inv, Run(sent, Taken, pipe), Taken' = Taken, NEW p \in Piece, pipe' = Append(pipe, p),
           \A e \in DOMAIN sent : sent'[e] = sent[e],
           Follows(sent', End(Taken, pipe), p), p.size = Layout[sent'[p.ev]][p.at]
    PROVE  Run(sent', Taken', pipe') /\ End(Taken', pipe') = p
<1>1. /\ pipe \in Seq(Piece) /\ \A i \in DOMAIN pipe : Field(sent, pipe[i])
      /\ Fits(sent, Taken)
      BY TakenFits DEF Inv, TypeInv, TypeOK, Known
<1>2. PICK q \in Seq(Piece) : q = pipe
      BY <1>1
<1>a. PICK s, r, b : s = sent /\ r = sent' /\ b = Taken
      OBVIOUS
<1>3. Run(r, b, q)
      BY <1>1, <1>2, <1>a, Grow
<1>4. Run(r, b, Append(q, p)) /\ End(b, Append(q, p)) = p
      BY <1>2, <1>a, <1>3, Extend
<1> QED BY <1>2, <1>a, <1>4

LEMMA BeginStream ==
    ASSUME Inv, NEW t \in Thread, NEW k \in Kind, Begin(t, k), ~torn'
    PROVE  StreamInv'
<1>1. /\ \A u \in Thread : writing[u] = Idle
      /\ TypeOK /\ k \in Kinds /\ k \in KindsOf(t) /\ t \notin halted /\ open /\ open' = open
      /\ sent' = Append(sent, k)
      /\ WriteField(t, Len(sent) + 1, k, 1)
      /\ UNCHANGED <<poll, adapter, handled>>
      BY AllIdle DEF Begin, Inv, TypeInv
<1>2. PICK e \in Nat \ {0} : e = Len(sent) + 1
      BY <1>1, Sent
<1>3. /\ Len(sent') = e /\ sent'[e] = k /\ \A d \in DOMAIN sent : sent'[d] = sent[d]
      /\ Len(sent) \in Nat
      BY <1>1, <1>2, Sent
<1>4. /\ 1 # Len(Layout[k]) /\ Layout[k][1] \in Nat /\ 1 \in 1 .. Len(Layout[k])
      BY <1>1, Layouts
<1>5. /\ writing' = [writing EXCEPT ![t] = [ev |-> e, at |-> 1]]
      /\ halted' = halted
      /\ LockedFrom(k) = 1 => cs' = t
      BY <1>1, <1>2, <1>4 DEF WriteField
<1>6. /\ writing'[t] = [ev |-> e, at |-> 1] /\ writing'[t] # Idle
      /\ \A u \in Thread \ {t} : writing'[u] = Idle
      BY <1>1, <1>2, <1>5 DEF TypeOK, Idle
<1>7. Exclusive'
  <2>1. LockedFrom(k) # 0 /\ LockedFrom(k) <= 1 => cs' = t
        BY <1>5, Locked
  <2>2. writing'[t].ev = e /\ writing'[t].at = 1
        BY <1>6
  <2>3. HasLock(t, k, 1)'
        BY <2>1 DEF HasLock
  <2> QED BY <1>1, <1>3, <1>6, <2>2, <2>3 DEF Exclusive, HasLock
<1>8. HaltedIdle'
      BY <1>1, <1>5, <1>6 DEF HaltedIdle, TypeOK, Thread
<1>9. /\ PollOK' /\ Prefix' /\ (Held' <=> Held) /\ front' # "astray"
      /\ (Held' => value' = Closed \/ value'.at = 1) /\ (Taking => Taking') /\ Taken' = Taken
      BY <1>1, ReaderStays
<1>10. ASSUME Live' PROVE Chain'
  <2>1. ~Gone /\ Live
        BY <1>1, <1>10 DEF Live, Gone, adapter
  <2>2. Chain
        BY <2>1 DEF Inv, StreamInv
  <2>3. PICK p \in Piece : p = [ev |-> e, at |-> 1, size |-> Layout[k][1]]
        BY <1>4 DEF Piece
  <2>4. p.ev = e /\ p.at = 1 /\ p.size = Layout[k][1]
        BY <2>3
  <2>5. pipe' = Append(pipe, p)
        BY <1>1, <1>2, <2>1, <2>3 DEF WriteField
  <2>6. /\ End(Taken, pipe).ev = Len(sent) /\ Complete(sent, End(Taken, pipe))
        BY <1>1, <2>2 DEF Chain, Written
  <2>7. Complete(sent', End(Taken, pipe))
    <3>1. CASE Len(sent) = 0
          BY <2>6, <3>1 DEF Complete
    <3>2. CASE Len(sent) # 0
      <4>1. Len(sent) \in DOMAIN sent
            BY <1>1, <1>3, <3>2, Sent
      <4> QED BY <1>3, <2>6, <4>1 DEF Complete
    <3> QED BY <3>1, <3>2
  <2>8. Follows(sent', End(Taken, pipe), p)
        BY <1>2, <2>4, <2>6, <2>7 DEF Follows
  <2>9. Run(sent', Taken', pipe') /\ End(Taken', pipe') = p
        BY <1>3, <1>9, <2>2, <2>4, <2>5, <2>8, PipeGrows DEF Chain
  <2>10. Written(p)'
    <3>1. writing'[t].ev = p.ev /\ writing'[t].at = p.at
          BY <1>6, <2>4
    <3> QED BY <1>6, <3>1 DEF Written
  <2> QED BY <1>9, <2>2, <2>9, <2>10 DEF Chain, Written
<1> QED BY <1>7, <1>8, <1>9, <1>10 DEF StreamInv

LEMMA ContinueStream ==
    ASSUME Inv, NEW t \in Thread, Continue(t)
    PROVE  StreamInv'
<1>1. /\ writing[t] # Idle /\ sent' = sent /\ TypeOK /\ Known /\ open /\ open' = open
      /\ UNCHANGED <<poll, adapter, handled>>
      BY DEF Continue, Inv, TypeInv
<1>2. PICK e \in Nat \ {0} : e = writing[t].ev /\ e = Len(sent) /\ e \in DOMAIN sent
  <2>1. writing[t].ev \in DOMAIN sent /\ writing[t].ev = Len(sent)
        BY <1>1, OneWriter DEF Known, Field
  <2>2. Len(sent) \in Nat /\ DOMAIN sent = 1 .. Len(sent)
        BY <1>1 DEF TypeOK
  <2>3. writing[t].ev \in Nat \ {0}
        BY <2>1, <2>2
  <2> QED BY <2>1, <2>3
<1>3. PICK k \in Kinds : k = sent[e] /\ k \in Kind
      BY <1>1, <1>2, Sent
<1>4. PICK a \in Nat \ {0} : a = writing[t].at /\ a < Len(Layout[k])
  <2>1. writing[t].at \in 1 .. Len(Layout[k]) /\ writing[t].at < Len(Layout[k])
        BY <1>1, <1>2, <1>3 DEF Known, Field
  <2>2. writing[t].at \in Nat \ {0}
        BY <2>1
  <2> QED BY <2>1, <2>2
<1>5. PICK i \in 1 .. Len(Layout[k]) : i = a + 1 /\ i # 1 /\ i # 0 /\ Layout[k][i] \in Nat
  <2>1. Len(Layout[k]) \in Nat /\ a + 1 \in 1 .. Len(Layout[k]) /\ a + 1 # 1 /\ a + 1 # 0
    <3>1. PICK n \in Nat : n = Len(Layout[k])
          BY <1>3, Layouts
    <3>2. a < n /\ a \in Nat \ {0}
          BY <1>4, <3>1
    <3>3. a + 1 \in 1 .. n /\ a + 1 # 1 /\ a + 1 # 0
          BY <3>2
    <3> QED BY <3>1, <3>3
  <2>2. \A j \in 1 .. Len(Layout[k]) : Layout[k][j] \in Nat
        BY <1>3, Layouts
  <2> QED BY <2>1, <2>2
<1>6. WriteField(t, e, k, i)
      BY <1>2, <1>3, <1>4, <1>5 DEF Continue
<1>7. \A u \in Thread \ {t} : writing[u] = Idle /\ writing'[u] = Idle
      BY <1>1, <1>6, OneWriter DEF WriteField, TypeOK
<1>8. /\ i = Len(Layout[k]) => writing'[t] = Idle
      /\ i # Len(Layout[k]) => /\ writing'[t] = [ev |-> e, at |-> i] /\ writing'[t] # Idle
                               /\ cs' = (IF i = LockedFrom(k) THEN t ELSE cs)
                               /\ halted' = halted
  <2>1. [ev |-> e, at |-> i] # Idle
        BY <1>2 DEF Idle
  <2> QED BY <1>1, <1>6, <2>1 DEF WriteField, TypeOK
<1>9. Exclusive'
  <2>1. CASE i = Len(Layout[k])
        BY <1>7, <1>8, <2>1 DEF Exclusive
  <2>2. CASE i # Len(Layout[k])
    <3>1. writing'[t].ev = e /\ writing'[t].at = i
          BY <1>8, <2>2
    <3>2. HasLock(t, k, a)
          BY <1>1, <1>2, <1>3, <1>4 DEF Exclusive, Inv, StreamInv
    <3>3. LockedFrom(k) # 0 /\ LockedFrom(k) <= i => cs' = t
      <4>1. LockedFrom(k) \in Nat
            BY <1>3, Locked
      <4>2. LockedFrom(k) <= i => LockedFrom(k) = i \/ LockedFrom(k) <= a
            BY <1>5, <4>1
      <4> QED BY <1>8, <2>2, <3>2, <4>2 DEF HasLock
    <3>4. HasLock(t, k, i)'
          BY <3>3 DEF HasLock
    <3> QED BY <1>1, <1>2, <1>3, <1>7, <3>1, <3>4 DEF Exclusive, HasLock
  <2> QED BY <2>1, <2>2
<1>10. HaltedIdle'
  <2>0. t \notin halted
        BY <1>1 DEF Inv, StreamInv, HaltedIdle
  <2>1. ASSUME NEW v \in halted' PROVE writing'[v] = Idle
    <3>1. v \in Thread \/ v = t
          BY <1>1, <1>6, <2>1 DEF WriteField, TypeOK, Thread
    <3>2. CASE v = t
      <4>1. halted' # halted
            BY <2>0, <2>1, <3>2
      <4> QED BY <1>8, <3>2, <4>1
    <3> QED BY <1>7, <3>1, <3>2
  <2> QED BY <2>1 DEF HaltedIdle
<1>11. /\ PollOK' /\ Prefix' /\ (Held' <=> Held) /\ front' # "astray"
       /\ (Held' => value' = Closed \/ value'.at = 1) /\ (Taking => Taking') /\ Taken' = Taken
       BY <1>1, ReaderStays
<1>12. ASSUME Live' PROVE Chain'
  <2>1. ~Gone /\ Live
        BY <1>1, <1>12 DEF Live, Gone, adapter
  <2>2. Chain
        BY <2>1 DEF Inv, StreamInv
  <2>3. PICK p \in Piece : p = [ev |-> e, at |-> i, size |-> Layout[k][i]]
    <3>1. PICK n \in Nat : n = Layout[k][i]
          BY <1>5
    <3>2. e \in Nat /\ i \in Nat
          OBVIOUS
    <3> QED BY <3>1, <3>2 DEF Piece
  <2>4. p.ev = e /\ p.at = i /\ p.size = Layout[k][i]
        BY <2>3
  <2>5. pipe' = Append(pipe, p)
        BY <1>6, <2>1, <2>3 DEF WriteField
  <2>6. End(Taken, pipe).ev = e /\ End(Taken, pipe).at = a
        BY <1>1, <1>2, <1>4, <1>7, <2>2 DEF Chain, Written
  <2>7. Follows(sent', End(Taken, pipe), p)
        BY <1>1, <1>2, <1>3, <1>4, <1>5, <2>4, <2>6 DEF Follows, Complete
  <2>8. Run(sent', Taken', pipe') /\ End(Taken', pipe') = p
        BY <1>1, <1>3, <1>11, <2>2, <2>4, <2>5, <2>7, PipeGrows DEF Chain
  <2>9. Written(p)'
    <3>1. CASE i = Len(Layout[k])
      <4>1. \A u \in Thread : writing'[u] = Idle
            BY <1>7, <1>8, <3>1
      <4>2. p.ev = Len(sent') /\ Complete(sent', p)
            BY <1>1, <1>2, <1>3, <2>4, <3>1 DEF Complete
      <4> QED BY <4>1, <4>2 DEF Written
    <3>2. CASE i # Len(Layout[k])
      <4>1. writing'[t] # Idle /\ writing'[t].ev = p.ev /\ writing'[t].at = p.at
            BY <1>8, <2>4, <3>2
      <4> QED BY <4>1 DEF Written
    <3> QED BY <3>1, <3>2
  <2> QED BY <1>11, <2>2, <2>8, <2>9 DEF Chain, Written
<1> QED BY <1>9, <1>10, <1>11, <1>12 DEF StreamInv

-----------------------------------------------------------------------------
(* The helper thread and the adapter.                                      *)

\* What the readers leave alone of the process.
LEMMA WriterStays ==
    ASSUME Inv, UNCHANGED <<backend, sent>>
    PROVE  /\ Exclusive' /\ HaltedIdle' /\ open' = open
           /\ \A p, q : Same(p, q) /\ Written(p) => Written(q)'
           /\ handled' = handled => Prefix'
BY DEF Inv, StreamInv, backend, Exclusive, HasLock, HaltedIdle, Written, Complete, Same, Prefix

LEMMA HelperStream ==
    ASSUME Inv, NEW h \in Helper, HelperStep(h)
    PROVE  StreamInv'
<1>0. /\ TypeOK /\ Known /\ PollOK /\ Prefix /\ front # "astray" /\ (Live => Chain)
      /\ Held => value = Closed \/ value.at = 1
      /\ UNCHANGED <<backend, reading, adapter, sent, handled>>
      BY DEF HelperStep, HelperReads, HelperFails, HelperFlags, HelperStores,
             Inv, TypeInv, StreamInv
<1>1. /\ Exclusive' /\ HaltedIdle' /\ open' = open /\ Prefix'
      /\ \A p, q : Same(p, q) /\ Written(p) => Written(q)'
      /\ front' = front /\ cur' = cur /\ got' = got
      BY <1>0, WriterStays DEF adapter
<1>2. CASE HelperReads(h)
  <2>1. /\ helper[h].pc = "read" /\ ~Gone /\ pipe # <<>> /\ pipe' = Cut(Word)
        /\ UNCHANGED <<nreadFinish, result, stored>>
        BY <1>2 DEF HelperReads
  <2>2. /\ Live /\ Chain
        BY <1>0, <2>1 DEF Live, Gone, TypeOK
  <2>3. /\ reading /\ ~nreadFinish /\ cur = 0
        /\ \A g \in Helper \ {h} : helper[g].pc \notin {"read", "flag"}
        BY <1>0, <2>1 DEF PollOK, Reads
  <2>4. ~Held
        BY <1>0, <2>1, <2>3 DEF Held
  <2>5. PICK p \in Piece : p = Head(pipe) /\ Field(sent, p)
        BY <2>1, CutType DEF Inv
  <2>6. /\ Follows(sent, Taken, p) /\ p.size = Layout[sent[p.ev]][p.at]
        /\ \A c : Same(c, p) => /\ Run(sent, c, Tail(pipe))
                                /\ Same(End(c, Tail(pipe)), End(Taken, pipe))
    <3>1. pipe \in Seq(Piece) /\ Run(sent, Taken, pipe)
          BY <1>0, <2>2 DEF TypeOK, Chain
    <3>2. PICK q \in Seq(Piece) : q = pipe
          BY <3>1
    <3>3. PICK s, b : s = sent /\ b = Taken
          OBVIOUS
    <3>4. Run(s, b, q) /\ q # <<>>
          BY <2>1, <3>1, <3>2, <3>3
    <3>5. ASSUME NEW c, Same(c, Head(q))
          PROVE  /\ Follows(s, b, Head(q)) /\ Head(q).size = Layout[s[Head(q).ev]][Head(q).at]
                 /\ Run(s, c, Tail(q)) /\ Same(End(c, Tail(q)), End(b, q))
          BY <3>4, <3>5, Shift
    <3>6. Same(Head(q), Head(q))
          BY DEF Same
    <3> QED BY <2>5, <3>2, <3>3, <3>5, <3>6
  <2>7. Taken.ev = Len(handled) /\ Complete(sent, Taken) /\ Len(handled) \in Nat
    <3>1. handled # <<>> => Len(handled) # 0
          BY <1>0 DEF TypeOK
    <3> QED BY <1>0, <2>3, <2>4, <3>1 DEF Taken, Complete, TypeOK
  <2>8. p.ev = Len(handled) + 1 /\ p.at = 1 /\ p.size = Word
    <3>1. p.ev = Len(handled) + 1 /\ p.at = 1
          BY <2>6, <2>7 DEF Follows
    <3>2. sent[p.ev] \in Kind
          BY <1>0, <2>5, Sent DEF Field
    <3> QED BY <2>6, <3>1, <3>2, Layouts
  <2>9. /\ pipe' = Tail(pipe) /\ value' = p
        /\ helper' = [helper EXCEPT ![h] = [pc |-> "flag", ok |-> TRUE]]
        BY <1>2, <2>5, <2>8 DEF HelperReads, Cut, Word
  <2>10. /\ helper'[h].pc = "flag" /\ helper'[h].ok
         /\ \A g \in Helper \ {h} : helper'[g] = helper[g]
         BY <1>0, <2>9 DEF TypeOK
  <2>11. PollOK' /\ Held'
         BY <1>0, <1>1, <2>1, <2>3, <2>10 DEF PollOK, Reads, Held
  <2>12. value' # Closed /\ value'.at = 1 /\ value'.ev = Len(handled) + 1
         BY <2>7, <2>8, <2>9 DEF Closed
  <2>13. Same(Taken', p) /\ cur' = 0
         BY <1>1, <2>3, <2>8, <2>9, <2>11 DEF Taken, Same
  <2>14. Taking'
         BY <1>0, <1>1, <2>1, <2>2, <2>3, <2>10, <2>12 DEF Taking, Chain
  <2>15. Chain'
    <3>1. Run(sent', Taken', pipe') /\ Same(End(Taken, pipe), End(Taken', pipe'))
          BY <1>0, <2>6, <2>9, <2>13 DEF Same
    <3>2. Written(End(Taken, pipe))
          BY <2>2 DEF Chain
    <3>3. PICK z : z = End(Taken', pipe')
          OBVIOUS
    <3>4. Written(z)'
          BY <1>1, <3>1, <3>2, <3>3
    <3>5. Written(End(Taken, pipe))'
          BY <3>3, <3>4 DEF Written
    <3> QED BY <2>14, <3>1, <3>5 DEF Chain
  <2> QED BY <1>0, <1>1, <2>11, <2>12, <2>15 DEF StreamInv
<1>3. CASE HelperFails(h)
  <2>1. /\ helper[h].pc = "read" /\ (Gone \/ (~open /\ pipe = <<>>)) /\ pipe' = pipe
        /\ value' = Closed /\ nreadFinish' = nreadFinish
        /\ helper'[h].pc = "flag" /\ \A g \in Helper \ {h} : helper'[g] = helper[g]
        BY <1>0, <1>3 DEF HelperFails, TypeOK
  <2>2. ~Live'
        BY <1>1, <2>1 DEF Live, Gone
  <2>3. PollOK'
        BY <1>0, <1>1, <2>1 DEF PollOK, Reads
  <2> QED BY <1>0, <1>1, <2>1, <2>2, <2>3 DEF StreamInv
<1>4. CASE HelperFlags(h)
  <2>1. /\ helper[h].pc = "flag" /\ nreadFinish' = TRUE /\ pipe' = pipe /\ value' = value
        /\ result' = result /\ stored' = stored
        /\ helper'[h].pc = "store" /\ helper'[h].ok = helper[h].ok
        /\ \A g \in Helper \ {h} : helper'[g] = helper[g]
        BY <1>0, <1>4 DEF HelperFlags, TypeOK
  <2>2. Held /\ Held'
        BY <2>1 DEF Held
  <2>3. PollOK'
        BY <1>0, <1>1, <2>1 DEF PollOK, Reads
  <2>4. Taken' = Taken
        BY <1>0, <1>1, <2>1, <2>2 DEF Taken
  <2>5. ASSUME Live' PROVE Chain'
    <3>1. Chain
          BY <1>0, <1>1, <2>1, <2>5 DEF Live
    <3>2. Taking'
          BY <1>0, <1>1, <2>1, <2>2, <3>1 DEF Taking, Chain
    <3> QED BY <1>0, <1>1, <2>1, <2>4, <3>1, <3>2 DEF Chain, Same
  <2> QED BY <1>0, <1>1, <2>1, <2>2, <2>3, <2>5 DEF StreamInv
<1>5. CASE HelperStores(h)
  <2>1. /\ helper[h].pc = "store" /\ nreadFinish' = nreadFinish /\ pipe' = pipe /\ value' = value
        /\ result' = helper[h].ok
        /\ helper'[h].pc = "none"
        /\ \A g \in Helper \ {h} : helper'[g] = helper[g]
        BY <1>0, <1>5 DEF HelperStores, TypeOK, NoThread
  <2>2. Held' <=> Held
        BY <2>1 DEF Held
  <2>3. PollOK'
        BY <1>0, <1>1, <2>1 DEF PollOK, Reads
  <2>4. Taken' = Taken
        BY <1>0, <1>1, <2>1, <2>2 DEF Taken
  <2>5. ASSUME Live' PROVE Chain'
    <3>1. Chain
          BY <1>0, <1>1, <2>1, <2>5 DEF Live
    <3>2. Taking'
          BY <1>0, <1>1, <2>1, <2>2, <3>1 DEF Taking, Chain
    <3> QED BY <1>0, <1>1, <2>1, <2>4, <3>1, <3>2 DEF Chain, Same
  <2> QED BY <1>0, <1>1, <2>1, <2>2, <2>3, <2>5 DEF StreamInv
<1> QED BY <1>2, <1>3, <1>4, <1>5 DEF HelperStep

LEMMA PollStartsStream ==
    ASSUME Inv, PollStarts
    PROVE  StreamInv'
<1>0. /\ TypeOK /\ PollOK /\ front # "astray" /\ (Live => Chain)
      /\ Held => value = Closed \/ value.at = 1
      /\ UNCHANGED <<backend, adapter, sent, handled, pipe, value, result, stored, nreadFinish>>
      /\ ~nreadFinish /\ ~reading /\ reading' = TRUE /\ cur = 0
      BY DEF PollStarts, Inv, TypeInv, StreamInv, Polls
<1>1. /\ Exclusive' /\ HaltedIdle' /\ open' = open /\ Prefix'
      /\ \A p, q : Same(p, q) /\ Written(p) => Written(q)'
      /\ front' = front /\ cur' = cur /\ got' = got
      BY <1>0, WriterStays DEF adapter
<1>2. PICK h \in Helper :
        /\ helper'[h].pc = "read" /\ \A g \in Helper \ {h} : helper'[g] = helper[g]
      BY <1>0 DEF PollStarts, TypeOK
<1>3. \A g \in Helper : helper[g].pc \notin {"read", "flag"}
      BY <1>0 DEF PollOK, Reads
<1>4. PollOK' /\ ~Held /\ ~Held'
      BY <1>0, <1>1, <1>2, <1>3 DEF PollOK, Reads, Held
<1>5. Taken' = Taken
      BY <1>0, <1>1, <1>4 DEF Taken
<1>6. ASSUME Live' PROVE Chain'
  <2>1. Chain
        BY <1>0, <1>1, <1>6 DEF Live
  <2>2. Taking'
        BY <1>0, <1>1, <1>2, <1>4, <2>1 DEF Taking, Chain
  <2> QED BY <1>0, <1>1, <1>5, <2>1, <2>2 DEF Chain, Same
<1> QED BY <1>0, <1>1, <1>4, <1>6 DEF StreamInv

LEMMA PollEndsStream ==
    ASSUME Inv, PollEnds, ~torn'
    PROVE  StreamInv' /\ UNCHANGED <<sent, handled>>
<1>0. /\ TypeOK /\ PollOK /\ front = "up" /\ (Live => Chain) /\ Held
      /\ value = Closed \/ value.at = 1
      /\ UNCHANGED <<backend, sent, pipe, value, result, stored, helper>>
      /\ ~Dropped
      /\ nreadFinish /\ reading /\ cur = 0 /\ nreadFinish' = FALSE /\ reading' = FALSE
      BY DEF PollEnds, Inv, TypeInv, StreamInv, Polls, Held, PollOK
<1>1. \A g \in Helper : helper[g].pc \notin {"read", "flag"}
      BY <1>0 DEF PollOK, Reads
<1>2. PollOK' /\ ~Held'
      BY <1>0, <1>1 DEF PollOK, Reads, Held
<1>3. handled' = handled
  <2>1. CASE result /\ value # Closed
        BY <1>0, <2>1 DEF PollEnds
  <2>2. CASE result /\ value = Closed
        BY <1>0, <2>2 DEF PollEnds, Closed
  <2>3. CASE ~result
        BY <2>3 DEF PollEnds
  <2> QED BY <2>1, <2>2, <2>3
<1>4. /\ Exclusive' /\ HaltedIdle' /\ open' = open /\ Prefix'
      /\ \A p, q : Same(p, q) /\ Written(p) => Written(q)'
      BY <1>0, <1>3, WriterStays
<1>5. CASE Live
  <2>1. Chain /\ result /\ value # Closed /\ value.at = 1 /\ value.ev = Len(handled) + 1
        BY <1>0, <1>5 DEF Chain, Taking, Dropped
  <2>2. cur' = value.ev /\ got' = 1 /\ front' = front
        BY <1>0, <2>1 DEF PollEnds
  <2>3. cur' # 0 /\ cur' = Len(handled') + 1
        BY <1>0, <1>3, <2>1, <2>2 DEF TypeOK
  <2>4. Taken' = Taken
        BY <1>0, <2>2, <2>3 DEF Taken
  <2>5. Taking'
        BY <1>0, <1>2, <2>1, <2>3 DEF Taking, Chain
  <2>6. Chain'
        BY <1>0, <1>4, <2>1, <2>4, <2>5 DEF Chain, Same
  <2> QED BY <1>0, <1>2, <1>3, <1>4, <2>2, <2>6 DEF StreamInv
<1>6. CASE ~Live
  <2>1. ~Live'
        BY <1>0, <1>4, <1>6 DEF Live
  <2>2. front' # "astray"
    <3>1. CASE result /\ value # Closed
          BY <1>0, <3>1 DEF PollEnds
    <3>2. CASE result /\ value = Closed
          BY <1>0, <3>2 DEF PollEnds, Closed, adapter
    <3>3. CASE ~result
          BY <1>0, <3>3 DEF PollEnds
    <3> QED BY <3>1, <3>2, <3>3
  <2> QED BY <1>0, <1>2, <1>3, <1>4, <2>1, <2>2 DEF StreamInv
<1> QED BY <1>0, <1>3, <1>5, <1>6

\* The adapter is in the middle of an event: what comes next is the next field of it.
LEMMA NextField ==
    ASSUME Readable, Inv, ReadField
    PROVE  /\ Chain /\ TypeOK /\ cur = Len(handled) + 1 /\ cur \in DOMAIN sent
           /\ sent[cur] \in Kinds /\ ~reading /\ ~Held
           /\ got + 1 \in 1 .. Len(Layout[sent[cur]])
           /\ Head(pipe).ev = cur /\ Head(pipe).at = got + 1
           /\ pipe' = Tail(pipe)
           /\ Len(Plan(sent[cur])) = Len(Layout[sent[cur]])
           /\ \A c : Same(c, Head(pipe)) => /\ Run(sent, c, Tail(pipe))
                                            /\ Same(End(c, Tail(pipe)), End(Taken, pipe))
<1>0. /\ TypeOK /\ Known /\ PollOK /\ front = "up" /\ pipe # <<>> /\ cur # 0 /\ (Live => Chain)
      BY DEF ReadField, Inv, TypeInv, StreamInv
<1>1. Chain
      BY <1>0 DEF Live
<1>2. ~reading /\ ~Held
      BY <1>0 DEF PollOK, Held, Reads
<1>3. /\ cur = Len(handled) + 1 /\ cur \in DOMAIN sent /\ sent[cur] \in Kinds /\ sent[cur] \in Kind
      /\ got \in 1 .. Len(Layout[sent[cur]]) - 1
      BY <1>0, <1>1, Sent DEF Chain, Taking, Known
<1>4. PICK n \in Nat : n = Len(Layout[sent[cur]])
      BY <1>3, Layouts
<1>5. got \in Nat /\ got # n /\ got + 1 \in 1 .. n
      BY <1>3, <1>4
<1>6. PICK p \in Piece : p = Head(pipe)
      BY <1>0, CutType DEF Inv, TypeInv
<1>7. /\ Follows(sent, Taken, p) /\ p.size = Layout[sent[p.ev]][p.at]
      /\ \A c : Same(c, p) => /\ Run(sent, c, Tail(pipe))
                              /\ Same(End(c, Tail(pipe)), End(Taken, pipe))
  <2>1. pipe \in Seq(Piece) /\ Run(sent, Taken, pipe)
        BY <1>0, <1>1 DEF TypeOK, Chain
  <2>2. PICK q \in Seq(Piece) : q = pipe
        BY <2>1
  <2>3. PICK s, b : s = sent /\ b = Taken
        OBVIOUS
  <2>4. Run(s, b, q) /\ q # <<>>
        BY <1>0, <2>1, <2>2, <2>3
  <2>5. ASSUME NEW c, Same(c, Head(q))
        PROVE  /\ Follows(s, b, Head(q)) /\ Head(q).size = Layout[s[Head(q).ev]][Head(q).at]
               /\ Run(s, c, Tail(q)) /\ Same(End(c, Tail(q)), End(b, q))
        BY <2>4, <2>5, Shift
  <2>6. Same(Head(q), Head(q))
        BY DEF Same
  <2> QED BY <1>6, <2>2, <2>3, <2>5, <2>6
<1>8. p.ev = cur /\ p.at = got + 1
      BY <1>0, <1>4, <1>5, <1>7 DEF Follows, Complete, Taken
<1>9. Plan(sent[cur]) = Layout[sent[cur]] /\ Len(Plan(sent[cur])) = Len(Layout[sent[cur]])
      BY <1>3, PlanIsLayout DEF Readable
<1>10. p.size = Plan(sent[cur])[got + 1] /\ p.size \in Nat
      BY <1>7, <1>8, <1>9 DEF Piece
<1>11. pipe' = Tail(pipe)
  <2>1. pipe' = Cut(Plan(sent[cur])[got + 1])
        BY DEF ReadField
  <2>2. ~(p.size > p.size)
        BY <1>10
  <2> QED BY <1>6, <1>10, <2>1, <2>2 DEF Cut
<1> QED BY <1>0, <1>1, <1>2, <1>3, <1>4, <1>5, <1>6, <1>7, <1>8, <1>9, <1>11

LEMMA ReadFieldStream ==
    ASSUME Readable, Inv, ReadField
    PROVE  /\ StreamInv'
           /\ \/ handled' = handled
              \/ Len(handled) < Len(sent) /\ handled' = Append(handled, sent[Len(handled) + 1])
<1>0. /\ Chain /\ TypeOK /\ PollOK /\ Prefix /\ front = "up" /\ cur = Len(handled) + 1 /\ cur \in DOMAIN sent
      /\ sent[cur] \in Kinds /\ ~reading /\ ~Held
      /\ Head(pipe).ev = cur /\ Head(pipe).at = got + 1
      /\ pipe' = Tail(pipe)
      /\ UNCHANGED <<backend, poll, sent>>
      /\ \A c : Same(c, Head(pipe)) => /\ Run(sent, c, Tail(pipe))
                                       /\ Same(End(c, Tail(pipe)), End(Taken, pipe))
      BY NextField DEF ReadField, Inv, StreamInv
<1>1. PICK n \in Nat : n = Len(Layout[sent[cur]]) /\ n = Len(Plan(sent[cur])) /\ got + 1 \in 1 .. n
      BY NextField
<1>2. /\ front' = "up"
      /\ got + 1 = n => cur' = 0 /\ got' = 0 /\ handled' = Append(handled, sent[cur])
      /\ got + 1 # n => cur' = cur /\ got' = got + 1 /\ handled' = handled
      BY <1>0, <1>1 DEF ReadField
<1>3. /\ Exclusive' /\ HaltedIdle' /\ open' = open
      /\ \A p, q : Same(p, q) /\ Written(p) => Written(q)'
      /\ handled' = handled => Prefix'
      BY <1>0, WriterStays
<1>4. /\ reading' = reading /\ nreadFinish' = nreadFinish /\ value' = value /\ result' = result
      /\ stored' = stored /\ helper' = helper /\ sent' = sent
      BY <1>0 DEF poll
<1>5. PollOK' /\ ~Held'
      BY <1>0, <1>4 DEF PollOK, Reads, Held
<1>6. /\ Len(handled) \in Nat /\ Len(sent) \in Nat /\ Len(handled) < Len(sent)
      /\ DOMAIN sent = 1 .. Len(sent) /\ handled \in Seq(Kinds \cup {None})
  <2>1. /\ Len(handled) \in Nat /\ Len(sent) \in Nat /\ DOMAIN sent = 1 .. Len(sent)
        /\ handled \in Seq(Kinds \cup {None})
        BY <1>0 DEF TypeOK
  <2> QED BY <1>0, <2>1
<1>7. /\ Prefix' /\ Same(Taken', Head(pipe)) /\ Taking'
      /\ \/ handled' = handled
         \/ Len(handled) < Len(sent) /\ handled' = Append(handled, sent[Len(handled) + 1])
  <2>1. CASE got + 1 # n
    <3>1. Same(Taken', Head(pipe))
          BY <1>0, <1>2, <1>6, <2>1 DEF Taken, Same
    <3>2. Taking'
          BY <1>0, <1>2, <1>4, <1>5, <2>1 DEF Taking, Chain
    <3> QED BY <1>2, <1>3, <2>1, <3>1, <3>2
  <2>2. CASE got + 1 = n
    <3>1. /\ handled' = Append(handled, sent[cur]) /\ Len(handled') = Len(handled) + 1
          /\ handled'[Len(handled) + 1] = sent[cur]
          /\ \A i \in 1 .. Len(handled) : handled'[i] = handled[i]
      <4>1. sent[cur] \in Kinds \cup {None}
            BY <1>0
      <4> QED BY <1>2, <1>6, <2>2, <4>1, Appended
    <3>2. Prefix'
      <4>1. ASSUME NEW i \in 1 .. Len(handled')
            PROVE  handled'[i] = sent[i]
        <5>1. i \in 1 .. Len(handled) \/ i = Len(handled) + 1
              BY <1>6, <3>1
        <5> QED BY <1>0, <3>1, <5>1 DEF Prefix
      <4>2. Len(handled') <= Len(sent)
            BY <1>6, <3>1
      <4> QED BY <1>4, <4>1, <4>2 DEF Prefix
    <3>3. Taken' = [ev |-> cur, at |-> n]
      <4>1. Len(handled') = cur /\ handled' # <<>>
            BY <1>0, <1>6, <3>1
      <4> QED BY <1>1, <1>2, <1>4, <1>5, <2>2, <4>1 DEF Taken
    <3>4. Taking'
          BY <1>0, <1>2, <1>4, <1>5, <2>2 DEF Taking, Chain
    <3> QED BY <1>0, <1>6, <2>2, <3>1, <3>2, <3>3, <3>4 DEF Same
  <2> QED BY <2>1, <2>2
<1>8. Chain'
  <2>1. Run(sent', Taken', pipe') /\ Same(End(Taken, pipe), End(Taken', pipe'))
        BY <1>0, <1>4, <1>7 DEF Same
  <2>2. PICK z : z = End(Taken', pipe')
        OBVIOUS
  <2>3. Written(z)'
        BY <1>0, <1>3, <2>1, <2>2 DEF Chain
  <2>4. Written(End(Taken, pipe))'
        BY <2>2, <2>3 DEF Written
  <2> QED BY <1>7, <2>1, <2>4 DEF Chain
<1> QED BY <1>2, <1>3, <1>5, <1>7, <1>8 DEF StreamInv

\* The steps that leave no reader in the middle of anything.
LEMMA RestStream ==
    ASSUME Inv, ReadFails \/ UserStop \/ Destroy \/ Destroyed \/ Close
                \/ (\E v \in VM : Resume(v)) \/ UNCHANGED vars
    PROVE  StreamInv' /\ UNCHANGED <<sent, handled>>
<1>0. /\ TypeOK /\ PollOK /\ Prefix /\ front # "astray" /\ (Live => Chain)
      /\ Held => value = Closed \/ value.at = 1
      /\ Exclusive /\ HaltedIdle
      BY DEF Inv, TypeInv, StreamInv
<1>1. /\ UNCHANGED <<sent, handled, poll>>
      BY DEF ReadFails, UserStop, Destroy, Destroyed, Close, Resume, vars
<1>2. /\ reading' = reading /\ nreadFinish' = nreadFinish /\ value' = value /\ result' = result
      /\ stored' = stored /\ helper' = helper /\ Prefix' /\ (Held' <=> Held)
      BY <1>0, <1>1 DEF poll, Prefix, Held
<1>3. CASE ReadFails
  <2>1. UNCHANGED backend /\ front' = front /\ ~Live' /\ cur' = 0
        BY <1>1, <1>3 DEF ReadFails, Live, backend
  <2> QED BY <1>0, <1>1, <1>2, <2>1 DEF StreamInv, Exclusive, HaltedIdle, HasLock, PollOK, Reads, backend
<1>4. CASE UserStop \/ Close \/ (\E v \in VM : Resume(v)) \/ UNCHANGED vars
  <2>1. /\ cur' = cur /\ got' = got /\ front' # "astray" /\ (Live' => Live) /\ pipe' = pipe
        BY <1>0, <1>4 DEF UserStop, Close, Resume, vars, adapter, backend, Live, Polls
  <2>2. Exclusive' /\ HaltedIdle'
    <3>1. CASE \E v \in VM : Resume(v)
          BY <1>0, <3>1 DEF Resume, Exclusive, HaltedIdle, HasLock
    <3>2. CASE UserStop \/ UNCHANGED vars
          BY <1>0, <1>1, <3>2 DEF UserStop, vars, backend, Exclusive, HaltedIdle, HasLock
    <3>3. CASE Close
          BY <3>3 DEF Close, Exclusive, HaltedIdle
    <3> QED BY <1>4, <3>1, <3>2, <3>3
  <2>3. PollOK'
        BY <1>0, <1>2, <2>1 DEF PollOK, Reads
  <2>4. ASSUME Chain PROVE Chain'
    <3>1. Taken' = Taken
          BY <1>1, <1>2, <2>1 DEF Taken
    <3>2. Taking'
          BY <1>1, <1>2, <2>1, <2>4 DEF Taking, Chain
    <3>3. Run(sent', Taken', pipe') /\ End(Taken', pipe') = End(Taken, pipe)
          BY <1>1, <2>1, <2>4, <3>1 DEF Chain
    <3>4. Written(End(Taken, pipe))'
      <4>1. CASE Close
            BY <4>1 DEF Close, Written
      <4>2. CASE UserStop \/ (\E v \in VM : Resume(v)) \/ UNCHANGED vars
        <5>1. writing' = writing /\ open' = open /\ sent' = sent
              BY <4>2 DEF UserStop, Resume, vars, backend
        <5> QED BY <2>4, <3>3, <5>1 DEF Chain, Written, Complete
      <4> QED BY <1>4, <4>1, <4>2
    <3> QED BY <3>2, <3>3, <3>4 DEF Chain
  <2> QED BY <1>0, <1>1, <1>2, <2>1, <2>2, <2>3, <2>4 DEF StreamInv
<1>5. CASE Destroy \/ Destroyed
  <2>1. UNCHANGED backend /\ ~Live' /\ cur' = cur /\ front' # "astray"
        BY <1>5 DEF Destroy, Destroyed, Live
  <2> QED BY <1>0, <1>1, <1>2, <2>1 DEF StreamInv, Exclusive, HaltedIdle, HasLock, PollOK, Reads, backend
<1> QED BY <1>1, <1>3, <1>4, <1>5

-----------------------------------------------------------------------------
(* The channel is a stream of whole events.                                *)

LEMMA StreamInit ==
    ASSUME Init
    PROVE  StreamInv
<1>1. /\ Exclusive /\ HaltedIdle
      BY DEF Init, Exclusive, HaltedIdle
<1>2. PollOK /\ ~Held
      BY DEF Init, PollOK, Held, Reads, NoThread
<1>3. Prefix /\ front # "astray"
      BY DEF Init, Prefix
<1>4. Taken.ev = 0
      BY <1>2 DEF Init, Taken
<1>5. Chain
  <2>1. Run(sent, Taken, pipe) /\ End(Taken, pipe) = Taken
        BY DEF Init, Run, End
  <2>2. Written(Taken)
        BY <1>4 DEF Init, Written, Complete
  <2>3. Taking
        BY <1>2 DEF Init, Taking, NoThread
  <2> QED BY <2>1, <2>2, <2>3 DEF Chain
<1> QED BY <1>1, <1>2, <1>3, <1>5 DEF StreamInv

\* What is torn stays torn.
LEMMA TornStays == [Next]_vars => (torn => torn')
<1> SUFFICES ASSUME [Next]_vars, torn PROVE torn'
    OBVIOUS
<1>1. ASSUME NEW t \in Thread, Continue(t) \/ \E k \in Kind : Begin(t, k)
      PROVE  torn'
      BY <1>1 DEF Continue, Begin
<1>2. ASSUME NEW h \in Helper, HelperStep(h) PROVE torn'
      BY <1>2 DEF HelperStep, HelperReads, HelperFails, HelperFlags, HelperStores
<1>3. CASE Front
      BY <1>3 DEF Front, PollStarts, PollEnds, ReadField, ReadFails, Destroy, Destroyed
<1>4. CASE Close \/ UserStop \/ (\E v \in VM : Resume(v)) \/ UNCHANGED vars
      BY <1>4 DEF Close, UserStop, Resume, vars
<1> QED BY <1>1, <1>2, <1>3, <1>4 DEF Next

\* A step that tears nothing keeps the invariant, and begins an event, completes
\* the handling of one, or is not seen.
LEMMA StreamStep ==
    ASSUME Readable, Inv, [Next]_vars, ~torn'
    PROVE  Inv' /\ [Stream!Next]_<<sent, handled>>
<1>1. TypeInv'
      BY TypeStep DEF Inv
<1>2. ASSUME NEW t \in Thread, NEW k \in Kind, Begin(t, k)
      PROVE  StreamInv' /\ Stream!Send
  <2>1. k \in Kinds /\ sent' = Append(sent, k) /\ UNCHANGED handled
        BY <1>2 DEF Begin
  <2> QED BY <1>2, <2>1, BeginStream DEF Stream!Send
<1>3. ASSUME NEW t \in Thread, Continue(t)
      PROVE  StreamInv' /\ UNCHANGED <<sent, handled>>
      BY <1>3, ContinueStream DEF Continue
<1>4. ASSUME NEW h \in Helper, HelperStep(h)
      PROVE  StreamInv' /\ UNCHANGED <<sent, handled>>
      BY <1>4, HelperStream DEF HelperStep, HelperReads, HelperFails, HelperFlags, HelperStores
<1>5. CASE PollStarts
      BY <1>1, <1>5, PollStartsStream DEF PollStarts, Inv
<1>6. CASE PollEnds
      BY <1>1, <1>6, PollEndsStream DEF Inv
<1>7. CASE ReadField
  <2>1. sent' = sent
        BY <1>7 DEF ReadField
  <2> QED BY <1>1, <1>7, <2>1, ReadFieldStream DEF Inv, Stream!Next, Stream!Handle
<1>8. CASE ReadFails \/ UserStop \/ Destroy \/ Destroyed \/ Close
           \/ (\E v \in VM : Resume(v)) \/ UNCHANGED vars
      BY <1>1, <1>8, RestStream DEF Inv
<1> QED BY <1>1, <1>2, <1>3, <1>4, <1>5, <1>6, <1>7, <1>8 DEF Inv, Next, Front, Stream!Next

LEMMA WireStep ==
    ASSUME Readable, WireInv, [Next]_vars
    PROVE  WireInv' /\ (torn' \/ [Stream!Next]_<<sent, handled>>)
<1>1. TypeInv'
      BY TypeStep DEF WireInv
<1>2. CASE torn'
      BY <1>1, <1>2 DEF WireInv
<1>3. CASE ~torn'
  <2>1. Inv
        BY <1>3, TornStays DEF WireInv, Inv
  <2> QED BY <1>3, <2>1, StreamStep DEF WireInv, Inv
<1> QED BY <1>2, <1>3

\* Where pointers are read as wide as they are written, the adapter never takes a
\* field of one event for one of another unless an event has been torn, and only a
\* field written in the middle of another event, one of the two outside
\* m_criticalSection, or the first id dropped for an unassigned m_result tears one:
\* for any number of threads, any kinds of events, any size of the pipe, and however
\* the reads, the two stores of the helper thread and the polls fall.
THEOREM InStepAlways ==
    ASSUME Readable
    PROVE  Spec => []InStep
<1>1. Init => WireInv
      BY StreamInit, TypeInit DEF WireInv
<1>2. WireInv /\ [Next]_vars => WireInv'
      BY WireStep
<1>3. WireInv => InStep
      BY DEF WireInv, StreamInv, InStep
<1> QED BY <1>1, <1>2, <1>3, PTL DEF Spec

\* Under the same hypothesis the channel implements, until the first event is torn,
\* the stream of whole events that the model of the backend takes it for: a thread
\* that begins an event sends it, the adapter that reads its last field handles it,
\* and it is the oldest one not handled yet; no other step of the threads is seen.
THEOREM ChannelImplementsStream ==
    ASSUME Readable
    PROVE  Spec => Implements
<1>1. Init => WireInv /\ Stream!Init
      BY StreamInit, TypeInit DEF WireInv, Init, Stream!Init
<1>2. WireInv /\ [Next]_vars => WireInv' /\ [torn' \/ Stream!Next]_<<sent, handled>>
      BY WireStep
<1> QED BY <1>1, <1>2, PTL DEF Spec, Implements

=============================================================================
