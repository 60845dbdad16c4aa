------------------------------ MODULE HttpProofs ------------------------------
(***************************************************************************)
(* What onData does to a stream, however it is cut and however long it is.     *)
(*                                                                         *)
(* The buffer is a piece of the stream, but for the byte that a chunked         *)
(* request loses.  IInv says where in the stream the loop may have stopped, and  *)
(* that the requests analysed are those that began before that place, in order,  *)
(* without the spoiled ones.  The loop is a recursive function of the units      *)
(* consumed: that it exists, and that every pass of it keeps to the invariant,   *)
(* is shown by looking at the last place where it would not.                   *)
(***************************************************************************)
EXTENDS HttpStream, SequenceTheorems, WellFoundedInduction, TLAPS

\* A set of naturals has a least element: what the inductions below rest on.
LEMMA Least ==
    ASSUME NEW T, T \subseteq Nat, T # {}
    PROVE  \E n \in T : \A m \in T : n <= m
<1>1. PICK n \in T : \A m \in T : ~(<<m, n>> \in OpToRel(<, Nat))
  BY NatLessThanWellFounded, WFMin, Zenon
<1>2. \A m \in T : ~(m < n)
  BY <1>1 DEF OpToRel
<1> QED
  BY <1>2

\* Where headers end.
LEMMA EndOfHeadersFacts ==
    ASSUME NEW b, Len(b) \in Nat, NEW c \in 0..Len(b), NEW e, e = EndOfHeaders(b, c)
    PROVE  /\ e = 0 \/ e \in (c + 1)..Len(b)
           /\ e = 0 => \A i \in (c + 1)..Len(b) : b[i].part \notin {"crlf", "last"}
           /\ e # 0 => /\ b[e].part \in {"crlf", "last"}
                       /\ \A i \in (c + 1)..(e - 1) : b[i].part \notin {"crlf", "last"}
<1> DEFINE ends == {i \in (c + 1)..Len(b) : b[i].part \in {"crlf", "last"}}
<1>1. e = IF ends = {} THEN 0 ELSE CHOOSE x \in ends : \A i \in ends : x <= i
  BY DEF EndOfHeaders
<1>2. CASE ends = {}
  BY <1>1, <1>2
<1>3. CASE ends # {}
  <2>1. \E x \in ends : \A i \in ends : x <= i
    <3>1. ends \subseteq Nat
      OBVIOUS
    <3> HIDE DEF ends
    <3> QED
      BY <1>3, <3>1, Least
  <2>2. e \in ends /\ \A i \in ends : e <= i
    BY <1>1, <1>3, <2>1
  <2>3. ASSUME NEW i \in (c + 1)..(e - 1) PROVE i \notin ends
    BY <2>2
  <2>4. (c + 1)..(e - 1) \subseteq (c + 1)..Len(b)
    BY <2>2
  <2> QED
    BY <2>2, <2>3, <2>4
<1> QED
  BY <1>2, <1>3

\* A pass depends on what later passes make of what it leaves.
LEMMA PassIsLocal ==
    ASSUME NEW b, Len(b) \in Nat, NEW c \in 0..Len(b), NEW f, NEW g,
           \A i \in (c + 1)..Len(b) : f[i] = g[i]
    PROVE  Pass(f, b, c) = Pass(g, b, c)
<1> DEFINE e == EndOfHeaders(b, c)
           end == e + ContentLength(b, c)
<1>1. e = 0 \/ e \in (c + 1)..Len(b)
  BY EndOfHeadersFacts
<1>2. ContentLength(b, c) \in Nat
  BY DEF ContentLength
<1>3. e # 0 /\ Whole(b, end) => f[end] = g[end]
  <2> HIDE DEF e
  <2> QED
    BY <1>1, <1>2 DEF Whole
<1> QED
  BY <1>3 DEF Pass

ParseFcn(b) == CHOOSE f : f = [c \in 0..Len(b) |-> Pass(f, b, c)]

\* Parse is what the recursive function of the passes gives at the start, if there is one.
LEMMA ParseIs ==
    ASSUME NEW b
    PROVE  Parse(b) = ParseFcn(b)[0]
BY DEF Parse, ParseFcn

\* The loop ends: a pass goes on behind what it consumed.
LEMMA ParseExists ==
    ASSUME NEW b, Len(b) \in Nat
    PROVE  \E f : f = [c \in 0..Len(b) |-> Pass(f, b, c)]
<1> DEFINE T == {n \in 0..Len(b) : \E f : f = [c \in n..Len(b) |-> Pass(f, b, c)]}
<1>1. Len(b) \in T
  <2> DEFINE f == [c \in Len(b)..Len(b) |-> Pass(<<>>, b, c)]
  <2>1. ASSUME NEW c \in Len(b)..Len(b) PROVE Pass(<<>>, b, c) = Pass(f, b, c)
    <3>1. c \in 0..Len(b) /\ (c + 1)..Len(b) = {}
      OBVIOUS
    <3> HIDE DEF f
    <3> QED
      BY <3>1, PassIsLocal
  <2>2. f = [c \in Len(b)..Len(b) |-> Pass(f, b, c)]
    BY <2>1
  <2>3. \E h : h = [c \in Len(b)..Len(b) |-> Pass(h, b, c)]
    BY <2>2, Zenon
  <2> QED
    BY <2>3
<1>2. PICK n \in T : \A m \in T : n <= m
  <2>1. T \subseteq 0..Len(b)
    BY Zenon
  <2> HIDE DEF T
  <2>2. T \subseteq Nat /\ T # {}
    BY <1>1, <2>1
  <2> QED
    BY <2>2, Least
<1>3. PICK f : f = [c \in n..Len(b) |-> Pass(f, b, c)]
  OBVIOUS
<1>4. n = 0
  <2> SUFFICES ASSUME n > 0 PROVE FALSE
    OBVIOUS
  <2> DEFINE k == n - 1
             g == [c \in k..Len(b) |-> IF c = k THEN Pass(f, b, k) ELSE f[c]]
  <2>1. k \in 0..Len(b) /\ n \in 0..Len(b) /\ \A c \in k..Len(b) : c = k \/ c \in n..Len(b)
    OBVIOUS
  <2>2. \A i \in n..Len(b) : g[i] = f[i]
    OBVIOUS
  <2>3. ASSUME NEW c \in k..Len(b) PROVE g[c] = Pass(g, b, c)
    <3>1. c \in 0..Len(b) /\ \A i \in (c + 1)..Len(b) : f[i] = g[i]
      BY <2>1, <2>2
    <3>2. g[c] = Pass(f, b, c)
      BY <1>3, <2>1
    <3> HIDE DEF g
    <3> QED
      BY <3>1, <3>2, PassIsLocal
  <2>4. g = [c \in k..Len(b) |-> Pass(g, b, c)]
    BY <2>3
  <2>5. k \in T
    BY <2>1, <2>4
  <2>6. n <= k
    BY <1>2, <2>5
  <2> QED
    BY <2>1, <2>6
<1> QED
  BY <1>3, <1>4

\* What the passes after c make of b.
LEMMA ParseFacts ==
    ASSUME NEW b, Len(b) \in Nat
    PROVE  /\ Parse(b) = ParseFcn(b)[0]
           /\ \A c \in 0..Len(b) : ParseFcn(b)[c] = Pass(ParseFcn(b), b, c)
<1>1. ParseFcn(b) = [c \in 0..Len(b) |-> Pass(ParseFcn(b), b, c)]
  BY ParseExists DEF ParseFcn
<1> QED
  BY <1>1, ParseIs

-----------------------------------------------------------------------------
(* The stream.                                                               *)

FlattenFcn(s) ==
    CHOOSE f : f = [i \in 1..Len(s) |-> IF i = 1 THEN s[i] ELSE f[i - 1] \o s[i]]

\* FlattenSeq takes one sequence after the other.
LEMMA FlattenExists ==
    ASSUME NEW s, Len(s) \in Nat
    PROVE  \E f : f = [i \in 1..Len(s) |-> IF i = 1 THEN s[i] ELSE f[i - 1] \o s[i]]
<1> DEFINE Def(f, i) == IF i = 1 THEN s[i] ELSE f[i - 1] \o s[i]
           T == {n \in 0..Len(s) : ~\E f : f = [i \in 1..n |-> Def(f, i)]}
<1> SUFFICES ASSUME Len(s) \in T PROVE FALSE
  <2>1. Len(s) \in 0..Len(s)
    OBVIOUS
  <2> QED
    BY <2>1, Zenon
<1>1. PICK n \in T : \A m \in T : n <= m
  <2>1. T \subseteq 0..Len(s) /\ Len(s) \in T
    BY Zenon
  <2> HIDE DEF T
  <2>2. T \subseteq Nat /\ T # {}
    BY <2>1
  <2> QED
    BY <2>2, Least
<1>2. n \in 0..Len(s) /\ ~\E f : f = [i \in 1..n |-> Def(f, i)]
  BY Zenon
<1>3. n # 0
  <2> DEFINE f == [i \in 1..0 |-> 0]
  <2>1. f = [i \in 1..0 |-> Def(f, i)]
    OBVIOUS
  <2>2. \E h : h = [i \in 1..0 |-> Def(h, i)]
    BY <2>1, Zenon
  <2> QED
    BY <1>2, <2>2
<1> DEFINE k == n - 1
<1>4. k \in 0..Len(s) /\ n = k + 1 /\ ~(n <= k)
  BY <1>2, <1>3
<1>5. PICK f : f = [i \in 1..k |-> Def(f, i)]
  <2>1. k \notin T
    BY <1>1, <1>4
  <2> QED
    BY <1>4, <2>1, Zenon
<1> DEFINE g == [i \in 1..n |-> IF i = n THEN Def(f, n) ELSE f[i]]
<1>6. ASSUME NEW i \in 1..n PROVE g[i] = Def(g, i)
  <2>1. i \in 1..k \/ i = n
    BY <1>4
  <2>2. \A j \in 1..k : g[j] = f[j]
    BY <1>4
  <2>3. CASE i \in 1..k
    <3>1. f[i] = Def(f, i)
      BY <1>5, <2>3
    <3>2. i # 1 => g[i - 1] = f[i - 1]
      BY <1>4, <2>2, <2>3
    <3> QED
      BY <2>2, <2>3, <3>1, <3>2
  <2>4. CASE i = n
    <3>1. n # 1 => g[n - 1] = f[n - 1]
      BY <1>4, <2>2
    <3> QED
      BY <2>4, <3>1
  <2> QED
    BY <2>1, <2>3, <2>4
<1>7. g = [i \in 1..n |-> Def(g, i)]
  BY <1>6
<1>8. \E h : h = [i \in 1..n |-> Def(h, i)]
  BY <1>7, Zenon
<1> QED
  BY <1>2, <1>8

\* The flattening of a sequence of one, and of one more.
LEMMA FlattenSteps ==
    /\ \A s : Len(s) = 0 => FlattenSeq(s) = s
    /\ \A s : Len(s) = 1 => FlattenSeq(s) = s[1]
    /\ \A s, t : /\ Len(s) \in Nat \ {0} /\ Len(t) = Len(s) + 1
                 /\ \A i \in 1..Len(s) : s[i] = t[i]
                 => FlattenSeq(t) = FlattenSeq(s) \o t[Len(t)]
<1>1. ASSUME NEW s, Len(s) \in Nat \ {0}
      PROVE  /\ FlattenSeq(s) = FlattenFcn(s)[Len(s)]
             /\ \A i \in 1..Len(s) :
                   FlattenFcn(s)[i] = IF i = 1 THEN s[i] ELSE FlattenFcn(s)[i - 1] \o s[i]
  <2>1. FlattenSeq(s) = FlattenFcn(s)[Len(s)]
    BY <1>1 DEF FlattenSeq, FlattenFcn
  <2>2. FlattenFcn(s) = [i \in 1..Len(s) |-> IF i = 1 THEN s[i] ELSE FlattenFcn(s)[i - 1] \o s[i]]
    BY <1>1, FlattenExists DEF FlattenFcn
  <2> QED
    BY <2>1, <2>2
<1>2. \A s : Len(s) = 0 => FlattenSeq(s) = s
  BY DEF FlattenSeq
<1>3. ASSUME NEW s, Len(s) = 1 PROVE FlattenSeq(s) = s[1]
  <2>1. Len(s) \in Nat \ {0} /\ 1 \in 1..Len(s)
    BY <1>3
  <2>2. FlattenSeq(s) = FlattenFcn(s)[Len(s)]
    BY <1>1, <2>1
  <2>3. FlattenFcn(s)[1] = s[1]
    BY <1>1, <2>1
  <2> QED
    BY <1>3, <2>2, <2>3
<1>4. ASSUME NEW s, NEW t, Len(s) \in Nat \ {0}, Len(t) = Len(s) + 1,
             \A i \in 1..Len(s) : s[i] = t[i]
      PROVE  FlattenSeq(t) = FlattenSeq(s) \o t[Len(t)]
  <2> DEFINE f == FlattenFcn(s)
             g == FlattenFcn(t)
             T == {i \in 1..Len(s) : f[i] # g[i]}
  <2>1. /\ FlattenSeq(s) = f[Len(s)]
        /\ \A i \in 1..Len(s) : f[i] = IF i = 1 THEN s[i] ELSE f[i - 1] \o s[i]
    BY <1>1, <1>4
  <2>2. Len(t) \in Nat \ {0} /\ Len(t) # 1
    BY <1>4
  <2>3. /\ FlattenSeq(t) = g[Len(t)]
        /\ \A i \in 1..Len(t) : g[i] = IF i = 1 THEN t[i] ELSE g[i - 1] \o t[i]
    BY <1>1, <2>2
  <2> HIDE DEF f, g
  <2>4. T = {}
    <3> SUFFICES ASSUME T # {} PROVE FALSE
      OBVIOUS
    <3>1. PICK n \in T : \A m \in T : n <= m
      <4>1. T \subseteq Nat
        BY <1>4
      <4> HIDE DEF T
      <4> QED
        BY <4>1, Least
    <3>2. n \in 1..Len(s) /\ n \in 1..Len(t) /\ s[n] = t[n]
      BY <1>4
    <3>3. CASE n = 1
      BY <2>1, <2>3, <3>2, <3>3
    <3>4. CASE n # 1
      <4>1. n - 1 \in 1..Len(s) /\ n - 1 \notin T
        BY <3>1, <3>2, <3>4
      <4>2. f[n - 1] = g[n - 1]
        BY <4>1
      <4> QED
        BY <2>1, <2>3, <3>2, <3>4, <4>2
    <3> QED
      BY <3>3, <3>4
  <2>5. f[Len(s)] = g[Len(s)]
    BY <1>4, <2>4
  <2>6. g[Len(t)] = g[Len(s)] \o t[Len(t)]
    <3>1. Len(t) \in 1..Len(t) /\ Len(t) # 1 /\ Len(t) - 1 = Len(s)
      BY <1>4, <2>2
    <3> QED
      BY <2>3, <3>1
  <2> QED
    BY <2>1, <2>3, <2>5, <2>6
<1> QED
  BY <1>2, <1>3, <1>4

\* Induction up to a bound, over a set.
LEMMA Climb ==
    ASSUME NEW n \in Nat, NEW T, 0 \in T, \A i \in 0..(n - 1) : i \in T => i + 1 \in T
    PROVE  \A i \in 0..n : i \in T
<1> DEFINE U == {i \in 0..n : i \notin T}
<1> SUFFICES ASSUME U # {} PROVE FALSE
  OBVIOUS
<1>1. PICK k \in U : \A m \in U : k <= m
  <2>1. U \subseteq Nat
    OBVIOUS
  <2> HIDE DEF U
  <2> QED
    BY <2>1, Least
<1>2. k \in 0..n /\ k \notin T /\ k # 0
  OBVIOUS
<1>3. k - 1 \in 0..(n - 1) /\ k - 1 \notin U /\ (k - 1) + 1 = k
  BY <1>1, <1>2
<1> QED
  BY <1>2, <1>3

\* What a request is made of.
LEMMA LayoutFacts ==
    ASSUME NEW kind \in Kind
    PROVE  /\ Layout(kind) \in Seq(Part) /\ Len(Layout(kind)) \in 2..4
           /\ Layout(kind)[1] = "head" /\ Layout(kind)[2] = "crlf"
           /\ kind = "options" => Len(Layout(kind)) = 2
           /\ kind = "malformed" => Len(Layout(kind)) = 3 /\ Layout(kind)[3] = "body"
           /\ kind = "post" => /\ Len(Layout(kind)) = 4
                               /\ Layout(kind)[3] = "body" /\ Layout(kind)[4] = "body"
           /\ kind = "chunked" => /\ Len(Layout(kind)) = 4
                                  /\ Layout(kind)[3] = "chunk" /\ Layout(kind)[4] = "last"
<1>1. CASE kind = "options"
  BY <1>1 DEF Layout, Part
<1>2. CASE kind = "malformed"
  BY <1>2 DEF Layout, Part
<1>3. CASE kind = "post"
  BY <1>3 DEF Layout, Part
<1>4. CASE kind = "chunked"
  BY <1>4 DEF Layout, Part
<1> QED
  BY <1>1, <1>2, <1>3, <1>4 DEF Kind

Messages == messages \in [1..MaxMessages -> Kind]

\* The units of a request.
LEMMA UnitsFacts ==
    ASSUME Messages, NEW m \in 1..MaxMessages
    PROVE  /\ messages[m] \in Kind /\ Units(m) \in Seq(Unit)
           /\ Len(Units(m)) = Len(Layout(messages[m])) /\ Len(Units(m)) \in 2..4
           /\ \A i \in 1..Len(Units(m)) :
                 Units(m)[i] = [msg |-> m, part |-> Layout(messages[m])[i]]
<1>1. messages[m] \in Kind
  BY DEF Messages
<1> DEFINE parts == Layout(messages[m])
<1>2. parts \in Seq(Part) /\ Len(parts) \in 2..4
  BY <1>1, LayoutFacts
<1>3. Units(m) = [i \in 1..Len(parts) |-> [msg |-> m, part |-> parts[i]]]
  BY DEF Units
<1>4. \A i \in 1..Len(parts) : [msg |-> m, part |-> parts[i]] \in Unit
  BY <1>2 DEF Unit
<1> HIDE DEF parts
<1>5. Units(m) \in Seq(Unit) /\ Len(Units(m)) = Len(parts)
  BY <1>2, <1>3, <1>4
<1> QED
  BY <1>1, <1>2, <1>3, <1>5 DEF parts

\* One request more.
LEMMA UptoSteps ==
    ASSUME Messages
    PROVE  /\ Upto(0) = <<>>
           /\ \A n \in 1..MaxMessages : Upto(n) = Upto(n - 1) \o Units(n)
<1> DEFINE s(n) == [m \in 1..n |-> Units(m)]
<1>1. \A n \in Nat : Len(s(n)) = n /\ \A i \in 1..n : s(n)[i] = Units(i)
  OBVIOUS
<1>2. Upto(0) = <<>>
  <2>1. Len(s(0)) = 0 /\ s(0) = <<>>
    OBVIOUS
  <2> QED
    BY <2>1, FlattenSteps DEF Upto
<1>3. ASSUME NEW n \in 1..MaxMessages PROVE Upto(n) = Upto(n - 1) \o Units(n)
  <2>1. Upto(n) = FlattenSeq(s(n)) /\ Upto(n - 1) = FlattenSeq(s(n - 1))
    BY DEF Upto
  <2>2. n \in Nat /\ n - 1 \in Nat
    BY SizeAssumption
  <2> HIDE DEF s
  <2>3. CASE n = 1
    <3>0. Len(s(1)) = 1 /\ \A i \in 1..1 : s(1)[i] = Units(i)
      BY <1>1
    <3>1. FlattenSeq(s(n)) = Units(1)
      BY <2>3, <3>0, FlattenSteps
    <3>2. Units(1) \in Seq(Unit)
      BY <2>3, UnitsFacts
    <3> QED
      BY <1>2, <2>1, <2>3, <3>1, <3>2
  <2>4. CASE n # 1
    <3>1. /\ Len(s(n - 1)) = n - 1 /\ Len(s(n)) = n
          /\ \A i \in 1..(n - 1) : s(n - 1)[i] = s(n)[i]
          /\ s(n)[n] = Units(n)
      BY <1>1, <2>2
    <3>2. Len(s(n - 1)) \in Nat \ {0} /\ Len(s(n)) = Len(s(n - 1)) + 1
      BY <2>2, <2>4, <3>1
    <3>3. FlattenSeq(s(n)) = FlattenSeq(s(n - 1)) \o s(n)[Len(s(n))]
      BY <3>1, <3>2, FlattenSteps
    <3> QED
      BY <2>1, <3>1, <3>3
  <2> QED
    BY <2>3, <2>4
<1> QED
  BY <1>2, <1>3

\* The stream is one request behind the other.
LEMMA StreamFacts ==
    ASSUME Messages
    PROVE  /\ Stream = Upto(MaxMessages) /\ Stream \in Seq(Unit)
           /\ Len(Stream) = EndOf(MaxMessages)
           /\ EndOf(0) = 0
           /\ \A m \in 0..MaxMessages : EndOf(m) \in Nat
           /\ \A m \in 1..MaxMessages : /\ EndOf(m - 1) \in Nat
                                        /\ EndOf(m) = EndOf(m - 1) + Len(Units(m))
           /\ \A m \in 0..MaxMessages : \A k \in 0..m : EndOf(k) <= EndOf(m)
           /\ \A m \in 1..MaxMessages : \A i \in 1..Len(Units(m)) :
                 /\ EndOf(m - 1) + i \in 1..Len(Stream)
                 /\ Stream[EndOf(m - 1) + i] = Units(m)[i]
           /\ \A j \in 1..Len(Stream) :
                 \E m \in 1..MaxMessages : EndOf(m - 1) < j /\ j <= EndOf(m)
<1>0. MaxMessages \in Nat /\ \A m \in 1..MaxMessages : m - 1 \in 0..MaxMessages /\ (m - 1) + 1 = m
  BY SizeAssumption
<1>1. Upto(0) = <<>> /\ \A n \in 1..MaxMessages : Upto(n) = Upto(n - 1) \o Units(n)
  BY UptoSteps
<1>2. \A m \in 1..MaxMessages : Units(m) \in Seq(Unit) /\ Len(Units(m)) \in 2..4
  BY UnitsFacts
<1>3. \A n \in 0..MaxMessages : Upto(n) \in Seq(Unit)
  <2> DEFINE T == {n \in 0..MaxMessages : Upto(n) \in Seq(Unit)}
  <2>1. 0 \in T
    <3>1. Upto(0) \in Seq(Unit)
      BY <1>1, EmptySeq
    <3> QED
      BY <1>0, <3>1
  <2>2. ASSUME NEW i \in 0..(MaxMessages - 1), i \in T PROVE i + 1 \in T
    <3>1. i + 1 \in 1..MaxMessages /\ (i + 1) - 1 = i
      BY <1>0
    <3>2. Upto(i + 1) = Upto(i) \o Units(i + 1)
      BY <1>1, <3>1
    <3>3. Upto(i) \in Seq(Unit) /\ Units(i + 1) \in Seq(Unit)
      BY <1>2, <2>2, <3>1
    <3>4. Upto(i + 1) \in Seq(Unit)
      BY <3>2, <3>3, ConcatProperties
    <3> QED
      BY <1>0, <3>1, <3>4
  <2> HIDE DEF T
  <2>3. \A i \in 0..MaxMessages : i \in T
    BY <1>0, <2>1, <2>2, Climb
  <2> QED
    BY <2>3 DEF T
<1>4. EndOf(0) = 0 /\ \A m \in 0..MaxMessages : EndOf(m) \in Nat
  BY <1>1, <1>3 DEF EndOf
<1>5. ASSUME NEW m \in 1..MaxMessages
      PROVE  EndOf(m - 1) \in Nat /\ EndOf(m) = EndOf(m - 1) + Len(Units(m))
  <2>1. Upto(m - 1) \in Seq(Unit) /\ Units(m) \in Seq(Unit) /\ Upto(m) = Upto(m - 1) \o Units(m)
    BY <1>0, <1>1, <1>2, <1>3
  <2> QED
    BY <2>1 DEF EndOf
<1>6. \A m \in 0..MaxMessages : \A k \in 0..m : EndOf(k) <= EndOf(m)
  <2> DEFINE T == {m \in 0..MaxMessages : \A k \in 0..m : EndOf(k) <= EndOf(m)}
  <2>1. 0 \in T
    BY <1>0, <1>4
  <2>2. ASSUME NEW i \in 0..(MaxMessages - 1), i \in T PROVE i + 1 \in T
    <3>1. i + 1 \in 1..MaxMessages /\ (i + 1) - 1 = i
      BY <1>0
    <3>2. EndOf(i) \in Nat /\ EndOf(i + 1) \in Nat /\ EndOf(i) <= EndOf(i + 1)
      <4>1. EndOf(i + 1) = EndOf(i) + Len(Units(i + 1)) /\ EndOf(i) \in Nat
        BY <1>5, <3>1
      <4> QED
        BY <1>2, <3>1, <4>1
    <3>3. ASSUME NEW k \in 0..(i + 1) PROVE EndOf(k) <= EndOf(i + 1)
      <4>1. k \in 0..i \/ k = i + 1
        BY <3>1
      <4>2. k \in 0..MaxMessages /\ EndOf(k) \in Nat
        BY <1>0, <1>4, <3>1
      <4>3. k \in 0..i => EndOf(k) <= EndOf(i)
        BY <2>2
      <4> QED
        BY <3>2, <4>1, <4>2, <4>3
    <3> QED
      BY <3>1, <3>3
  <2> HIDE DEF T
  <2>3. \A i \in 0..MaxMessages : i \in T
    BY <1>0, <2>1, <2>2, Climb
  <2> QED
    BY <2>3 DEF T
<1>7. \A n \in 0..MaxMessages : \A m \in 1..n : \A i \in 1..Len(Units(m)) :
          Upto(n)[EndOf(m - 1) + i] = Units(m)[i]
  <2> DEFINE T == {n \in 0..MaxMessages : \A m \in 1..n : \A i \in 1..Len(Units(m)) :
                       Upto(n)[EndOf(m - 1) + i] = Units(m)[i]}
  <2>1. 0 \in T
    BY <1>0
  <2>2. ASSUME NEW n \in 0..(MaxMessages - 1), n \in T PROVE n + 1 \in T
    <3>1. n + 1 \in 1..MaxMessages /\ (n + 1) - 1 = n /\ n \in 0..MaxMessages
      BY <1>0
    <3>2. /\ Upto(n + 1) = Upto(n) \o Units(n + 1)
          /\ Upto(n) \in Seq(Unit) /\ Units(n + 1) \in Seq(Unit)
          /\ Len(Upto(n)) = EndOf(n)
      BY <1>1, <1>2, <1>3, <3>1 DEF EndOf
    <3>3. \A j \in 1..(EndOf(n) + Len(Units(n + 1))) :
             Upto(n + 1)[j] = IF j <= EndOf(n) THEN Upto(n)[j] ELSE Units(n + 1)[j - EndOf(n)]
      <4> DEFINE a == Upto(n)
                 z == Units(n + 1)
      <4>1. a \in Seq(Unit) /\ z \in Seq(Unit) /\ Len(a) = EndOf(n) /\ Upto(n + 1) = a \o z
        BY <3>2
      <4> HIDE DEF a, z
      <4>2. \A j \in 1..(Len(a) + Len(z)) : (a \o z)[j] = IF j <= Len(a) THEN a[j] ELSE z[j - Len(a)]
        BY <4>1, ConcatProperties
      <4>3. \A j \in 1..(EndOf(n) + Len(z)) :
               Upto(n + 1)[j] = IF j <= EndOf(n) THEN a[j] ELSE z[j - EndOf(n)]
        BY <4>1, <4>2
      <4> QED
        BY <4>3 DEF a, z
    <3>4. ASSUME NEW m \in 1..(n + 1), NEW i \in 1..Len(Units(m))
          PROVE  Upto(n + 1)[EndOf(m - 1) + i] = Units(m)[i]
      <4>1. m \in 1..MaxMessages /\ (m \in 1..n \/ m = n + 1)
        BY <1>0, <3>1
      <4>2. EndOf(n) \in Nat /\ Len(Units(n + 1)) \in Nat /\ EndOf(m - 1) \in Nat /\ EndOf(m) \in Nat
            /\ Len(Units(m)) \in Nat /\ EndOf(m) = EndOf(m - 1) + Len(Units(m))
        BY <1>0, <1>2, <1>4, <1>5, <3>1, <4>1
      <4>3. CASE m \in 1..n
        <5>1. EndOf(m) <= EndOf(n)
          BY <1>6, <3>1, <4>3
        <5>2. PICK j : j = EndOf(m - 1) + i
          OBVIOUS
        <5>3. j \in 1..EndOf(n)
          BY <4>2, <5>1, <5>2
        <5>4. Upto(n)[j] = Units(m)[i]
          BY <2>2, <4>3, <5>2
        <5>5. j \in 1..(EndOf(n) + Len(Units(n + 1))) /\ j <= EndOf(n)
          BY <4>2, <5>3
        <5>6. Upto(n + 1)[j] = Upto(n)[j]
          BY <3>3, <5>5
        <5> QED
          BY <5>2, <5>4, <5>6, Zenon
      <4>4. CASE m = n + 1
        <5>1. EndOf(m - 1) + i \in 1..(EndOf(n) + Len(Units(n + 1))) /\ ~(EndOf(m - 1) + i <= EndOf(n))
          BY <3>1, <4>2, <4>4
        <5>2. Upto(n + 1)[EndOf(m - 1) + i] = Units(n + 1)[i]
          <6>1. PICK j : j = EndOf(m - 1) + i
            OBVIOUS
          <6>2. j \in 1..(EndOf(n) + Len(Units(n + 1))) /\ ~(j <= EndOf(n))
            BY <5>1, <6>1
          <6>3. Upto(n + 1)[j] = Units(n + 1)[j - EndOf(n)]
            BY <3>3, <6>2
          <6>4. j - EndOf(n) = i
            BY <3>1, <4>2, <4>4, <6>1
          <6> QED
            BY <6>1, <6>3, <6>4, Zenon
        <5>3. Units(n + 1) = Units(m)
          BY <4>4
        <5> QED
          BY <5>1, <5>2, <5>3
      <4> QED
        BY <4>1, <4>3, <4>4
    <3> QED
      BY <3>1, <3>4
  <2> HIDE DEF T
  <2>3. \A i \in 0..MaxMessages : i \in T
    BY <1>0, <2>1, <2>2, Climb
  <2> QED
    BY <2>3 DEF T
<1>8. \A n \in 0..MaxMessages : \A j \in 1..EndOf(n) : \E m \in 1..n : EndOf(m - 1) < j /\ j <= EndOf(m)
  <2> DEFINE T == {n \in 0..MaxMessages : \A j \in 1..EndOf(n) :
                       \E m \in 1..n : EndOf(m - 1) < j /\ j <= EndOf(m)}
  <2>1. 0 \in T
    BY <1>0, <1>4
  <2>2. ASSUME NEW n \in 0..(MaxMessages - 1), n \in T PROVE n + 1 \in T
    <3>1. n + 1 \in 1..MaxMessages /\ (n + 1) - 1 = n /\ n \in 0..MaxMessages
      BY <1>0
    <3>2. EndOf(n) \in Nat /\ EndOf(n + 1) \in Nat
      BY <1>4, <1>0, <3>1
    <3>3. ASSUME NEW j \in 1..EndOf(n + 1)
          PROVE  \E m \in 1..(n + 1) : EndOf(m - 1) < j /\ j <= EndOf(m)
      <4>1. CASE j <= EndOf(n)
        <5>1. PICK m \in 1..n : EndOf(m - 1) < j /\ j <= EndOf(m)
          BY <2>2, <3>2, <4>1
        <5> QED
          BY <3>1, <5>1
      <4>2. CASE ~(j <= EndOf(n))
        <5>1. EndOf((n + 1) - 1) < j /\ j <= EndOf(n + 1) /\ n + 1 \in 1..(n + 1)
          BY <3>1, <3>2, <4>2
        <5> QED
          BY <5>1
      <4> QED
        BY <4>1, <4>2
    <3> QED
      BY <3>1, <3>3
  <2> HIDE DEF T
  <2>3. \A i \in 0..MaxMessages : i \in T
    BY <1>0, <2>1, <2>2, Climb
  <2> QED
    BY <2>3 DEF T
<1>9. Stream = Upto(MaxMessages) /\ Stream \in Seq(Unit) /\ Len(Stream) = EndOf(MaxMessages)
  <2>1. Len(messages) = MaxMessages
    BY <1>0 DEF Messages
  <2> QED
    BY <1>0, <1>3, <2>1 DEF Stream, EndOf
<1>10. ASSUME NEW m \in 1..MaxMessages, NEW i \in 1..Len(Units(m))
       PROVE  EndOf(m - 1) + i \in 1..Len(Stream) /\ Stream[EndOf(m - 1) + i] = Units(m)[i]
  <2>1. /\ EndOf(m - 1) \in Nat /\ EndOf(m) = EndOf(m - 1) + Len(Units(m))
        /\ EndOf(m) <= EndOf(MaxMessages) /\ Len(Units(m)) \in Nat
    BY <1>0, <1>2, <1>5, <1>6
  <2>2. EndOf(MaxMessages) \in Nat
    BY <1>0, <1>4
  <2>3. EndOf(m - 1) + i \in 1..EndOf(MaxMessages)
    BY <2>1, <2>2
  <2> QED
    BY <1>0, <1>7, <1>9, <2>1, <2>3
<1> QED
  BY <1>0, <1>4, <1>5, <1>6, <1>8, <1>9, <1>10

-----------------------------------------------------------------------------
(* The invariant.                                                            *)

Stub(b) == b # <<>> /\ b[1].part = "stub"

\* b is what arrived behind the first d units; of the first byte a request may be short.
Cut(b, d) ==
    /\ b \in Seq(Unit) /\ d \in Nat /\ d + Len(b) <= Len(Stream)
    /\ \A i \in 1..Len(b) :
          \/ b[i] = Stream[d + i]
          \/ /\ i = 1 /\ Stream[d + 1].part = "head"
             /\ b[1] = [msg |-> Stream[d + 1].msg, part |-> "stub"]

\* Nothing of request m but what is behind its first byte can still be in b.
Begun(m, b, d) == EndOf(m - 1) < d \/ (EndOf(m - 1) = d /\ Stub(b))

\* Where the loop may stop, when nothing was dropped.
Position(b, d) ==
    \/ ~Stub(b) /\ \E m \in 0..MaxMessages : d = EndOf(m)
    \/ /\ Stub(b)
       /\ \E m \in 1..MaxMessages : /\ d = EndOf(m - 1) /\ messages[m] = "chunked"
                                    /\ EndOf(m) <= d + Len(b)
    \/ /\ ~Stub(b)
       /\ \E m \in 1..MaxMessages :
             /\ d = EndOf(m - 1) + 2
             /\ \/ Spoiled(m) /\ messages[m] # "options"
                \/ messages[m] = "chunked" /\ EndOf(m) <= d + Len(b)

Increasing(h) == \A i, j \in 1..Len(h) : i < j => h[i] < h[j]

\* Request m is a chunked one, and the loop got to it.
Reached(m, d) == messages[m] = "chunked" /\ EndOf(m - 1) <= d

Consumed == arrived - Len(buffer)

IInv ==
    /\ TypeOK
    /\ Len(buffer) <= arrived /\ Cut(buffer, Consumed)
    /\ Increasing(handled)
    /\ \A i \in 1..Len(handled) : Begun(handled[i], buffer, Consumed)
    /\ Increasing(early) /\ \A i \in 1..Len(early) : Reached(early[i], Consumed)
    /\ dropped \/ /\ Position(buffer, Consumed)
                  /\ \A m \in 1..MaxMessages :
                        Begun(m, buffer, Consumed) => m \in ToSet(handled) \/ Spoiled(m)

\* The units of request m, where they are in the stream.
LEMMA RequestFacts ==
    ASSUME Messages, NEW m \in 1..MaxMessages, NEW p, p = EndOf(m - 1)
    PROVE  /\ messages[m] \in Kind /\ p \in Nat /\ EndOf(m) \in Nat /\ Len(Stream) \in Nat
           /\ EndOf(m) <= Len(Stream) /\ p + 2 <= EndOf(m)
           /\ EndOf(m) = p + Len(Units(m))
           /\ \A i \in 1..Len(Units(m)) : Stream[p + i].msg = m
           /\ Stream[p + 1] = [msg |-> m, part |-> "head"]
           /\ Stream[p + 2] = [msg |-> m, part |-> "crlf"]
           /\ \A i \in 1..Len(Units(m)) : Stream[p + i].part = "head" => i = 1
           /\ messages[m] = "options" => EndOf(m) = p + 2
           /\ messages[m] = "malformed" => EndOf(m) = p + 3 /\ Stream[p + 3].part = "body"
           /\ messages[m] = "post" => /\ EndOf(m) = p + 4
                                      /\ Stream[p + 3].part = "body" /\ Stream[p + 4].part = "body"
           /\ messages[m] = "chunked" => /\ EndOf(m) = p + 4
                                         /\ Stream[p + 3].part = "chunk" /\ Stream[p + 4].part = "last"
<1>1. /\ messages[m] \in Kind /\ Len(Units(m)) = Len(Layout(messages[m])) /\ Len(Units(m)) \in 2..4
      /\ \A i \in 1..Len(Units(m)) : Units(m)[i] = [msg |-> m, part |-> Layout(messages[m])[i]]
  BY UnitsFacts
<1>2. /\ p \in Nat /\ EndOf(m) = p + Len(Units(m)) /\ EndOf(m) <= EndOf(MaxMessages)
      /\ EndOf(MaxMessages) = Len(Stream) /\ Stream \in Seq(Unit)
      /\ \A i \in 1..Len(Units(m)) : Stream[p + i] = Units(m)[i]
  <2>1. MaxMessages \in 0..MaxMessages /\ m \in 0..MaxMessages /\ m \in 0..MaxMessages
    BY SizeAssumption
  <2>2. Stream \in Seq(Unit) /\ Len(Stream) = EndOf(MaxMessages)
    BY StreamFacts
  <2>3. p \in Nat /\ EndOf(m) = p + Len(Units(m))
    BY StreamFacts
  <2>4. EndOf(m) <= EndOf(MaxMessages)
    BY <2>1, StreamFacts
  <2>5. \A i \in 1..Len(Units(m)) : Stream[p + i] = Units(m)[i]
    BY StreamFacts
  <2> QED
    BY <2>2, <2>3, <2>4, <2>5
<1>3. Len(Stream) \in Nat /\ EndOf(m) \in Nat
  BY <1>1, <1>2
<1>4. \A i \in 1..Len(Units(m)) : Stream[p + i] = [msg |-> m, part |-> Layout(messages[m])[i]]
  BY <1>1, <1>2
<1>5. /\ Len(Layout(messages[m])) \in 2..4
      /\ Layout(messages[m])[1] = "head" /\ Layout(messages[m])[2] = "crlf"
      /\ messages[m] = "options" => Len(Layout(messages[m])) = 2
      /\ messages[m] = "malformed" => Len(Layout(messages[m])) = 3 /\ Layout(messages[m])[3] = "body"
      /\ messages[m] = "post" => /\ Len(Layout(messages[m])) = 4
                                 /\ Layout(messages[m])[3] = "body" /\ Layout(messages[m])[4] = "body"
      /\ messages[m] = "chunked" => /\ Len(Layout(messages[m])) = 4
                                    /\ Layout(messages[m])[3] = "chunk"
                                    /\ Layout(messages[m])[4] = "last"
  BY <1>1, LayoutFacts
<1> DEFINE l == Layout(messages[m])
           n == Len(Units(m))
<1> HIDE DEF l, n
<1>6. n \in 2..4 /\ \A i \in 1..n : i = 1 \/ i = 2 \/ i = 3 \/ i = 4
  BY <1>1 DEF n
<1>7. \A i \in 1..n : l[i] = "head" => i = 1
  <2>1. l[1] = "head" /\ l[2] = "crlf"
    BY <1>5 DEF l
  <2>2. CASE messages[m] = "options"
    BY <1>1, <1>5, <1>6, <2>1, <2>2 DEF l, n
  <2>3. CASE messages[m] = "malformed"
    BY <1>1, <1>5, <1>6, <2>1, <2>3 DEF l, n
  <2>4. CASE messages[m] = "post"
    BY <1>1, <1>5, <1>6, <2>1, <2>4 DEF l, n
  <2>5. CASE messages[m] = "chunked"
    BY <1>1, <1>5, <1>6, <2>1, <2>5 DEF l, n
  <2> QED
    BY <1>1, <2>2, <2>3, <2>4, <2>5 DEF Kind
<1>8. 1 \in 1..n /\ 2 \in 1..n /\ (n = 3 => 3 \in 1..n) /\ (n = 4 => 3 \in 1..n /\ 4 \in 1..n)
  BY <1>6
<1>9. /\ messages[m] = "options" => n = 2
      /\ messages[m] = "malformed" => n = 3
      /\ messages[m] \in {"post", "chunked"} => n = 4
  BY <1>1, <1>5 DEF n
<1>10. /\ Stream[p + 1] = [msg |-> m, part |-> l[1]] /\ Stream[p + 2] = [msg |-> m, part |-> l[2]]
       /\ n = 3 => Stream[p + 3] = [msg |-> m, part |-> l[3]]
       /\ n = 4 => /\ Stream[p + 3] = [msg |-> m, part |-> l[3]]
                   /\ Stream[p + 4] = [msg |-> m, part |-> l[4]]
  BY <1>4, <1>8 DEF l, n
<1>11. EndOf(m) = p + n /\ EndOf(m) <= Len(Stream) /\ p + 2 <= EndOf(m)
  <2>1. EndOf(m) = p + n /\ EndOf(m) <= Len(Stream)
    BY <1>2 DEF n
  <2> QED
    BY <1>2, <1>6, <2>1
<1>12. /\ \A i \in 1..Len(Units(m)) : Stream[p + i].msg = m
       /\ \A i \in 1..Len(Units(m)) : Stream[p + i].part = "head" => i = 1
  <2> SUFFICES ASSUME NEW i \in 1..Len(Units(m))
               PROVE  Stream[p + i].msg = m /\ (Stream[p + i].part = "head" => i = 1)
    OBVIOUS
  <2>1. Stream[p + i] = [msg |-> m, part |-> l[i]]
    BY <1>4 DEF l
  <2>2. l[i] = "head" => i = 1
    BY <1>7 DEF n
  <2> QED
    BY <2>1, <2>2
<1>13. /\ messages[m] = "options" => EndOf(m) = p + 2
       /\ messages[m] = "malformed" => EndOf(m) = p + 3 /\ Stream[p + 3].part = "body"
       /\ messages[m] = "post" => /\ EndOf(m) = p + 4
                                  /\ Stream[p + 3].part = "body" /\ Stream[p + 4].part = "body"
       /\ messages[m] = "chunked" => /\ EndOf(m) = p + 4
                                     /\ Stream[p + 3].part = "chunk" /\ Stream[p + 4].part = "last"
  BY <1>5, <1>9, <1>10, <1>11 DEF l
<1> QED
  BY <1>1, <1>2, <1>3, <1>5, <1>10, <1>11, <1>12, <1>13 DEF l

\* Where requests begin says which is before which.
LEMMA BeginFacts ==
    ASSUME Messages, NEW k \in 1..MaxMessages, NEW m \in 1..MaxMessages
    PROVE  /\ EndOf(k - 1) \in Nat /\ EndOf(m - 1) \in Nat
           /\ EndOf(k - 1) < EndOf(m - 1) => k < m
           /\ EndOf(k - 1) < EndOf(m - 1) + 2 => k <= m
           /\ EndOf(k - 1) < EndOf(m) => k <= m
           /\ k < m => EndOf(k) <= EndOf(m - 1) /\ EndOf(k - 1) < EndOf(m - 1)
<1>1. ASSUME NEW i \in 1..MaxMessages, NEW j \in 1..MaxMessages, i < j
      PROVE  EndOf(i) <= EndOf(j - 1) /\ EndOf(i - 1) + 2 <= EndOf(j - 1)
  <2>1. i \in 0..(j - 1) /\ j - 1 \in 0..MaxMessages
    BY <1>1, SizeAssumption
  <2>2. EndOf(i) <= EndOf(j - 1)
    BY <2>1, StreamFacts
  <2>3. EndOf(i - 1) + 2 <= EndOf(i) /\ EndOf(i) \in Nat /\ EndOf(i - 1) \in Nat /\ EndOf(j - 1) \in Nat
    BY RequestFacts
  <2> QED
    BY <2>2, <2>3
<1>2. /\ EndOf(k - 1) \in Nat /\ EndOf(m - 1) \in Nat /\ EndOf(m) \in Nat /\ EndOf(k) \in Nat
      /\ EndOf(m - 1) + 2 <= EndOf(m) /\ EndOf(k - 1) + 2 <= EndOf(k)
  BY RequestFacts
<1>3. k < m \/ k = m \/ m < k
  OBVIOUS
<1>4. k < m => EndOf(k) <= EndOf(m - 1) /\ EndOf(k - 1) + 2 <= EndOf(m - 1)
  BY <1>1
<1>5. m < k => EndOf(m) <= EndOf(k - 1) /\ EndOf(m - 1) + 2 <= EndOf(k - 1)
  BY <1>1
<1> QED
  BY <1>2, <1>3, <1>4, <1>5

\* The part that a unit of the stream is.
LEMMA PartFacts ==
    ASSUME Messages, NEW j \in 1..Len(Stream)
    PROVE  /\ Stream[j] \in Unit /\ Stream[j].part # "stub"
           /\ Stream[j].part = "head" =>
                 \E m \in 1..MaxMessages : j = EndOf(m - 1) + 1 /\ Stream[j].msg = m
<1>1. PICK m \in 1..MaxMessages : EndOf(m - 1) < j /\ j <= EndOf(m)
  BY StreamFacts
<1>2. /\ EndOf(m - 1) \in Nat /\ EndOf(m) = EndOf(m - 1) + Len(Units(m)) /\ Len(Stream) \in Nat
      /\ \A i \in 1..Len(Units(m)) : /\ Stream[EndOf(m - 1) + i].msg = m
                                     /\ Stream[EndOf(m - 1) + i].part = "head" => i = 1
  BY RequestFacts
<1>3. Len(Units(m)) \in 2..4 /\ messages[m] \in Kind
      /\ \A i \in 1..Len(Units(m)) : Units(m)[i] = [msg |-> m, part |-> Layout(messages[m])[i]]
      /\ Len(Units(m)) = Len(Layout(messages[m]))
  BY UnitsFacts
<1>4. PICK i \in 1..Len(Units(m)) : j = EndOf(m - 1) + i
  <2>1. j - EndOf(m - 1) \in 1..Len(Units(m)) /\ j = EndOf(m - 1) + (j - EndOf(m - 1))
    BY <1>1, <1>2, <1>3
  <2> QED
    BY <2>1
<1>5. Stream[j] = Units(m)[i] /\ Stream \in Seq(Unit)
  BY <1>4, StreamFacts
<1>6. Layout(messages[m])[i] # "stub"
  <2>1. i \in 1..Len(Layout(messages[m])) /\ messages[m] \in Kind
    BY <1>3
  <2>2. i = 1 \/ i = 2 \/ i = 3 \/ i = 4
    <3>1. i \in 1..Len(Units(m)) /\ Len(Units(m)) \in 2..4
      BY <1>3
    <3>2. PICK n : n = Len(Units(m))
      OBVIOUS
    <3> QED
      BY <3>1, <3>2
  <2>3. CASE messages[m] = "options"
    BY <2>1, <2>2, <2>3 DEF Layout
  <2>4. CASE messages[m] = "post"
    BY <2>1, <2>2, <2>4 DEF Layout
  <2>5. CASE messages[m] = "chunked"
    BY <2>1, <2>2, <2>5 DEF Layout
  <2>6. CASE messages[m] = "malformed"
    BY <2>1, <2>2, <2>6 DEF Layout
  <2> QED
    BY <2>1, <2>3, <2>4, <2>5, <2>6 DEF Kind
<1>7. Stream[j] \in Unit
  BY <1>5
<1>8. Stream[j].part # "stub"
  <2>1. Stream[j] = [msg |-> m, part |-> Layout(messages[m])[i]]
    BY <1>3, <1>5
  <2> QED
    BY <1>6, <2>1
<1>9. Stream[j].part = "head" => j = EndOf(m - 1) + 1 /\ Stream[j].msg = m
  BY <1>2, <1>4
<1> QED
  BY <1>7, <1>8, <1>9

-----------------------------------------------------------------------------
(* What a pass makes of the buffer.                                          *)

Rest(b, c) == SubSeq(b, c + 1, Len(b))

\* What is behind the first c units is cut where they end.
LEMMA RestFacts ==
    ASSUME Messages, NEW b, NEW d, Cut(b, d), NEW c \in 0..Len(b), NEW r, r = Rest(b, c)
    PROVE  /\ d \in Nat /\ Len(b) \in Nat /\ r \in Seq(Unit)
           /\ Len(r) = Len(b) - c /\ \A i \in 1..Len(r) : r[i] = b[c + i]
           /\ Cut(r, d + c) /\ (Stub(r) <=> c = 0 /\ Stub(b))
           /\ c = 0 => r = b
<1>1. b \in Seq(Unit) /\ Len(b) \in Nat /\ d \in Nat /\ c \in Nat /\ d + Len(b) <= Len(Stream)
  BY DEF Cut
<1>2. /\ r \in Seq(Unit) /\ Len(r) = Len(b) - c
      /\ \A i \in 1..Len(r) : r[i] = b[c + i]
  <2>1. c + 1 \in 1..(Len(b) + 1) /\ Len(b) \in c..Len(b)
    BY <1>1
  <2>2. /\ Len(r) = IF c + 1 <= Len(b) THEN Len(b) - (c + 1) + 1 ELSE 0
        /\ \A i \in 1..(Len(b) - (c + 1) + 1) : r[i] = b[(c + 1) + i - 1]
        /\ r \in Seq(Unit)
    BY <1>1, <2>1, SubSeqProperties DEF Rest
  <2>3. Len(r) = Len(b) - c
    BY <1>1, <2>2
  <2>4. ASSUME NEW i \in 1..Len(r) PROVE r[i] = b[c + i]
    <3>1. i \in 1..(Len(b) - (c + 1) + 1) /\ (c + 1) + i - 1 = c + i
      BY <1>1, <2>3
    <3> QED
      BY <2>2, <3>1
  <2> QED
    BY <2>2, <2>3, <2>4
<1>3. \A i \in 1..Len(b) :
         \/ b[i] = Stream[d + i]
         \/ /\ i = 1 /\ Stream[d + 1].part = "head"
            /\ b[1] = [msg |-> Stream[d + 1].msg, part |-> "stub"]
  BY DEF Cut
<1>4. c = 0 => r = b
  BY <1>1 DEF Rest
<1>5. ASSUME c # 0, NEW i \in 1..Len(r) PROVE r[i] = Stream[(d + c) + i] /\ c + i \in 2..Len(b)
  <2>1. c + i \in 2..Len(b) /\ d + (c + i) = (d + c) + i
    BY <1>1, <1>2, <1>5
  <2>2. r[i] = Stream[d + (c + i)]
    BY <1>1, <1>2, <1>3, <2>1
  <2> QED
    BY <2>1, <2>2
<1>6. Cut(r, d + c)
  <2>1. CASE c = 0
    BY <1>1, <1>4, <2>1
  <2>2. CASE c # 0
    <3>1. d + c \in Nat /\ (d + c) + Len(r) <= Len(Stream)
      BY <1>1, <1>2
    <3> QED
      BY <1>2, <1>5, <2>2, <3>1 DEF Cut
  <2> QED
    BY <2>1, <2>2
<1>7. Stub(r) <=> c = 0 /\ Stub(b)
  <2>1. CASE c = 0
    BY <1>4, <2>1
  <2>2. CASE c # 0
    <3>1. SUFFICES ASSUME Stub(r) PROVE FALSE
      BY <2>2
    <3>2. 1 \in 1..Len(r) /\ r[1].part = "stub"
      BY <1>2, <3>1 DEF Stub
    <3>3. r[1] = Stream[(d + c) + 1] /\ c + 1 \in 2..Len(b)
      BY <1>5, <2>2, <3>2
    <3>4. (d + c) + 1 \in 1..Len(Stream)
      BY <1>1, <3>3
    <3> QED
      BY <3>2, <3>3, <3>4, PartFacts
  <2> QED
    BY <2>1, <2>2
<1> QED
  BY <1>1, <1>2, <1>4, <1>6, <1>7

\* In the stream, nothing between where a pass begins and the end of the headers
\* ends any, and the headers that begin where a request does end behind its second unit.
LEMMA HeaderEnd ==
    ASSUME Messages, NEW b, NEW d, Cut(b, d), NEW c \in 0..Len(b),
           NEW e, e = EndOfHeaders(b, c), e # 0
    PROVE  /\ e \in (c + 1)..Len(b)
           /\ Stream[d + e].part \in {"crlf", "last"}
           /\ \A j \in (d + c + 1)..((d + e) - 1) : Stream[j].part \notin {"crlf", "last"}
           /\ \A m \in 1..MaxMessages : d + c = EndOf(m - 1) => e = c + 2
<1>1. d \in Nat /\ Len(b) \in Nat /\ d + Len(b) <= Len(Stream) /\ c \in Nat
  BY DEF Cut
<1>2. \A i \in 1..Len(b) :
         \/ b[i] = Stream[d + i]
         \/ Stream[d + i].part = "head" /\ b[i].part = "stub"
  BY <1>1 DEF Cut
<1>3. /\ e \in (c + 1)..Len(b) /\ b[e].part \in {"crlf", "last"}
      /\ \A i \in (c + 1)..(e - 1) : b[i].part \notin {"crlf", "last"}
  BY <1>1, EndOfHeadersFacts
<1>4. e \in Nat /\ e \in 1..Len(b)
  BY <1>1, <1>3
<1>5. Stream[d + e].part \in {"crlf", "last"}
  BY <1>2, <1>3, <1>4
<1>6. ASSUME NEW j \in (d + c + 1)..((d + e) - 1) PROVE Stream[j].part \notin {"crlf", "last"}
  <2>1. PICK i : i = j - d
    OBVIOUS
  <2>2. i \in (c + 1)..(e - 1) /\ i \in 1..Len(b) /\ j = d + i
    <3>1. j \in Int /\ (d + c) + 1 <= j /\ j <= (d + e) - 1
      BY <1>1, <1>4
    <3>2. i \in Int /\ j = d + i
      BY <1>1, <2>1, <3>1
    <3>3. c + 1 <= i
      BY <1>1, <2>1, <3>1
    <3>4. i <= e - 1
      BY <1>1, <1>4, <2>1, <3>1
    <3>5. e <= Len(b) /\ c + 1 >= 1
      BY <1>1, <1>3
    <3> QED
      BY <1>1, <1>4, <3>2, <3>3, <3>4, <3>5
  <2>3. b[i].part \notin {"crlf", "last"}
    BY <1>3, <2>2
  <2> QED
    BY <1>2, <2>2, <2>3
<1>7. ASSUME NEW m \in 1..MaxMessages, d + c = EndOf(m - 1) PROVE e = c + 2
  <2>1. PICK p : p = d + c
    OBVIOUS
  <2>2. p \in Nat /\ Stream[p + 1].part = "head" /\ Stream[p + 2].part = "crlf"
    <3>1. /\ p \in Nat /\ Stream[p + 1] = [msg |-> m, part |-> "head"]
          /\ Stream[p + 2] = [msg |-> m, part |-> "crlf"]
      BY <1>7, <2>1, RequestFacts
    <3> QED
      BY <3>1
  <2>3. d + e # p + 1
    BY <1>5, <2>2
  <2>4. ~(p + 2 \in (d + c + 1)..((d + e) - 1))
    BY <1>6, <2>2
  <2>5. e >= c + 1 /\ e # c + 1
    BY <1>1, <1>3, <1>4, <2>1, <2>3
  <2>6. p + 2 >= d + c + 1 /\ p + 2 \in Nat
    BY <1>1, <2>1, <2>2
  <2>7. ~(d + c + 2 <= d + e - 1)
    BY <1>1, <1>4, <2>1, <2>4, <2>6
  <2> QED
    BY <1>1, <1>4, <2>5, <2>7
<1> QED
  BY <1>3, <1>5, <1>6, <1>7

\* A request of which the first byte is gone.
LEMMA BittenFacts ==
    ASSUME Messages, NEW b, NEW d, Cut(b, d), NEW c \in 0..(Len(b) - 1),
           b[c + 1].part = "head", NEW s, s = Bitten(b, c)
    PROVE  /\ s \in Seq(Unit) /\ Len(s) = Len(b)
           /\ Len(Rest(s, c)) = Len(b) - c /\ Cut(Rest(s, c), d + c) /\ Stub(Rest(s, c))
           /\ \A e \in (c + 1)..Len(b) : Rest(s, e) = Rest(b, e)
<1>1. b \in Seq(Unit) /\ Len(b) \in Nat /\ d \in Nat /\ c \in Nat /\ d + Len(b) <= Len(Stream)
  BY DEF Cut
<1>2. c + 1 \in 1..Len(b) /\ b[c + 1] \in Unit
  BY <1>1
<1>3. b[c + 1] = Stream[d + (c + 1)]
  BY <1>2 DEF Cut
<1>4. s = [b EXCEPT ![c + 1] = [msg |-> b[c + 1].msg, part |-> "stub"]]
  <2>1. PICK u : u = b[c + 1]
    OBVIOUS
  <2>2. [u EXCEPT !.part = "stub"] = [msg |-> u.msg, part |-> "stub"]
    BY <1>2, <2>1 DEF Unit
  <2>3. s = [b EXCEPT ![c + 1] = [b[c + 1] EXCEPT !.part = "stub"]]
    BY <1>1 DEF Bitten
  <2> QED
    BY <2>1, <2>2, <2>3
<1>5. [msg |-> b[c + 1].msg, part |-> "stub"] \in Unit
  BY <1>2 DEF Unit, Part
<1>6. /\ s \in Seq(Unit) /\ Len(s) = Len(b)
      /\ s[c + 1] = [msg |-> b[c + 1].msg, part |-> "stub"]
      /\ \A i \in 1..Len(b) : i # c + 1 => s[i] = b[i]
  BY <1>1, <1>2, <1>4, <1>5
<1>7. /\ Rest(s, c) \in Seq(Unit) /\ Len(Rest(s, c)) = Len(b) - c
      /\ \A i \in 1..(Len(b) - c) : Rest(s, c)[i] = s[c + i]
  BY <1>1, <1>2, <1>6 DEF Rest
<1>8. /\ Rest(s, c)[1] = [msg |-> Stream[(d + c) + 1].msg, part |-> "stub"]
      /\ Stream[(d + c) + 1].part = "head"
  BY <1>1, <1>2, <1>3, <1>6, <1>7
<1>9. ASSUME NEW i \in 2..(Len(b) - c) PROVE Rest(s, c)[i] = Stream[(d + c) + i]
  <2>1. c + i \in 1..Len(b) /\ c + i # c + 1 /\ c + i # 1 /\ d + (c + i) = (d + c) + i
        /\ i \in 1..(Len(b) - c)
    BY <1>1
  <2>2. Rest(s, c)[i] = b[c + i]
    BY <1>6, <1>7, <2>1
  <2>3. b[c + i] = Stream[d + (c + i)]
    BY <2>1 DEF Cut
  <2> QED
    BY <2>1, <2>2, <2>3
<1>10. Cut(Rest(s, c), d + c)
  BY <1>1, <1>2, <1>7, <1>8, <1>9 DEF Cut
<1>11. Stub(Rest(s, c))
  BY <1>1, <1>2, <1>7, <1>8 DEF Stub
<1>12. ASSUME NEW e \in (c + 1)..Len(b) PROVE Rest(s, e) = Rest(b, e)
  <2>1. e \in Nat /\ e + 1 > c + 1 /\ e + 1 \in 1..(Len(b) + 1)
    BY <1>1
  <2>2. /\ Rest(s, e) \in Seq(Unit) /\ Len(Rest(s, e)) = Len(b) - e
        /\ \A i \in 1..(Len(b) - e) : Rest(s, e)[i] = s[e + i]
    BY <1>1, <1>6, <2>1 DEF Rest
  <2>3. /\ Rest(b, e) \in Seq(Unit) /\ Len(Rest(b, e)) = Len(b) - e
        /\ \A i \in 1..(Len(b) - e) : Rest(b, e)[i] = b[e + i]
    BY <1>1, <2>1 DEF Rest
  <2>4. \A i \in 1..(Len(b) - e) : e + i \in 1..Len(b) /\ e + i # c + 1
    BY <1>1, <2>1
  <2>5. \A i \in 1..(Len(b) - e) : Rest(s, e)[i] = Rest(b, e)[i]
    BY <1>6, <2>2, <2>3, <2>4
  <2> QED
    BY <2>2, <2>3, <2>5, SeqEqual
<1> QED
  BY <1>6, <1>7, <1>10, <1>11, <1>12

\* A malformed request is spoiled; the content of a spoiled one spoils the next.
LEMMA SpoiledFacts ==
    ASSUME NEW m \in 1..MaxMessages
    PROVE  /\ messages[m] = "malformed" => Spoiled(m)
           /\ Spoiled(m) /\ messages[m] \in {"malformed", "post"} => Spoiled(m + 1)
<1>0. m \in Nat
  OBVIOUS
<1>1. messages[m] = "malformed" => Spoiled(m)
  <2>1. m \in 1..m /\ m..(m - 1) = {}
    BY <1>0
  <2> QED
    BY <2>1 DEF Spoiled
<1>2. ASSUME Spoiled(m), messages[m] \in {"malformed", "post"} PROVE Spoiled(m + 1)
  <2>1. PICK k \in 1..m : /\ messages[k] = "malformed"
                          /\ \A j \in k..(m - 1) : messages[j] \in {"malformed", "post"}
    BY <1>2 DEF Spoiled
  <2>2. k \in 1..(m + 1) /\ \A j \in k..((m + 1) - 1) : j \in k..(m - 1) \/ j = m
    BY <1>0
  <2> QED
    BY <1>2, <2>1, <2>2 DEF Spoiled
<1> QED
  BY <1>1, <1>2

\* The first place where a request may begin whose first byte is not consumed.
Mark(b, d) == IF Stub(b) THEN d + 1 ELSE d

\* Request m, a chunked one, stands at the front, and its end has not arrived.
Unfinished(m, b, d) ==
    /\ b # <<>> /\ b[1] = [msg |-> m, part |-> "head"] /\ messages[m] = "chunked"
    /\ d = EndOf(m - 1) /\ d + Len(b) < EndOf(m)

\* From r, which begins at p, a run of the loop gets to o, whose buffer begins at q.
Reach(r, p, o, q) ==
    /\ q \in Nat /\ p <= q /\ q + Len(o.buffer) = p + Len(r) /\ Mark(r, p) <= Mark(o.buffer, q)
    /\ o = [buffer |-> o.buffer, handled |-> o.handled, early |-> o.early]
    /\ o.early = "no" \/ \E m \in 1..MaxMessages : Unfinished(m, o.buffer, q)
    /\ Cut(o.buffer, q)
    /\ o.handled \in Seq(1..MaxMessages) /\ Increasing(o.handled)
    /\ \A i \in 1..Len(o.handled) : /\ Mark(r, p) <= EndOf(o.handled[i] - 1)
                                    /\ EndOf(o.handled[i] - 1) < Mark(o.buffer, q)
    /\ Position(r, p) =>
          /\ Position(o.buffer, q)
          /\ \A m \in 1..MaxMessages :
                Mark(r, p) <= EndOf(m - 1) /\ EndOf(m - 1) < Mark(o.buffer, q) =>
                    m \in ToSet(o.handled) \/ Spoiled(m)

Good(r, p, o) == \E q \in Nat : Reach(r, p, o, q)

\* The loop stops without having consumed anything more.
LEMMA Stays ==
    ASSUME Messages, NEW r, NEW p, Cut(r, p),
           NEW a, a = "no" \/ \E m \in 1..MaxMessages : Unfinished(m, r, p)
    PROVE  Reach(r, p, [buffer |-> r, handled |-> <<>>, early |-> a], p)
<1> DEFINE o == [buffer |-> r, handled |-> <<>>, early |-> a]
<1>1. p \in Nat /\ Mark(r, p) \in Nat
  BY DEF Cut, Mark
<1>2. /\ o.buffer = r /\ o.handled = <<>> /\ o.early = a
      /\ o = [buffer |-> o.buffer, handled |-> o.handled, early |-> o.early]
  OBVIOUS
<1> HIDE DEF o
<1>3. ASSUME NEW m \in 1..MaxMessages, Mark(r, p) <= EndOf(m - 1), EndOf(m - 1) < Mark(r, p)
      PROVE  FALSE
  <2>1. EndOf(m - 1) \in Nat
    BY RequestFacts
  <2> QED
    BY <1>1, <1>3, <2>1
<1>4. Increasing(o.handled) /\ o.handled \in Seq(1..MaxMessages) /\ 1..Len(o.handled) = {}
  BY <1>2 DEF Increasing
<1>5. Reach(r, p, o, p)
  BY <1>1, <1>2, <1>3, <1>4 DEF Reach
<1> QED
  BY <1>5 DEF o

\* Request m is analysed, and what it leaves is run through on.
LEMMA Prepends ==
    ASSUME Messages, NEW r, NEW p, NEW m \in 1..MaxMessages, p = EndOf(m - 1), ~Stub(r),
           NEW r2, NEW p2 \in Nat, p <= p2, p2 + Len(r2) = p + Len(r),
           p < Mark(r2, p2), Mark(r2, p2) <= EndOf(m), Position(r2, p2),
           NEW o, NEW q, Reach(r2, p2, o, q)
    PROVE  Reach(r, p, [o EXCEPT !.handled = <<m>> \o @], q)
<1> DEFINE g == <<m>> \o o.handled
           new == [o EXCEPT !.handled = <<m>> \o @]
           k == Mark(r2, p2)
           l == Mark(o.buffer, q)
           h == o.handled
<1>1. new = [buffer |-> o.buffer, handled |-> g, early |-> o.early]
  <2>1. o = [buffer |-> o.buffer, handled |-> o.handled, early |-> o.early]
    BY DEF Reach
  <2>2. PICK u, v, a : u = o.buffer /\ v = o.handled /\ a = o.early
    OBVIOUS
  <2>3. o = [buffer |-> u, handled |-> v, early |-> a]
    BY <2>1, <2>2, Zenon
  <2>4. new = [[buffer |-> u, handled |-> v, early |-> a] EXCEPT !.handled = <<m>> \o v]
    BY <2>2, <2>3
  <2>5. new = [buffer |-> u, handled |-> <<m>> \o v, early |-> a]
    <3> HIDE DEF new
    <3> QED
      BY <2>4
  <2> QED
    BY <2>2, <2>5
<1>2. /\ q \in Nat /\ p2 <= q /\ q + Len(o.buffer) = p2 + Len(r2) /\ k <= l
      /\ Cut(o.buffer, q) /\ h \in Seq(1..MaxMessages) /\ Increasing(h)
      /\ \A i \in 1..Len(h) : k <= EndOf(h[i] - 1) /\ EndOf(h[i] - 1) < l
      /\ Position(o.buffer, q)
      /\ \A j \in 1..MaxMessages : k <= EndOf(j - 1) /\ EndOf(j - 1) < l => j \in ToSet(h) \/ Spoiled(j)
      /\ o.early = "no" \/ \E j \in 1..MaxMessages : Unfinished(j, o.buffer, q)
  BY DEF Reach
<1>3. p \in Nat /\ k \in Nat /\ l \in Nat /\ EndOf(m) \in Nat /\ Mark(r, p) = p
  <2>1. p \in Nat /\ EndOf(m) \in Nat
    BY RequestFacts
  <2>2. p2 \in Nat /\ q \in Nat
    BY <1>2
  <2> QED
    BY <2>1, <2>2 DEF Mark
<1>4. /\ g \in Seq(1..MaxMessages) /\ Len(g) = Len(h) + 1 /\ Len(h) \in Nat /\ g[1] = m
      /\ \A i \in 2..Len(g) : i - 1 \in 1..Len(h) /\ g[i] = h[i - 1]
  <2>1. <<m>> \in Seq(1..MaxMessages) /\ Len(<<m>>) = 1 /\ <<m>>[1] = m
    OBVIOUS
  <2>2. h \in Seq(1..MaxMessages) /\ Len(h) \in Nat
    BY <1>2
  <2>3. /\ g \in Seq(1..MaxMessages) /\ Len(g) = Len(<<m>>) + Len(h)
        /\ \A i \in 1..(Len(<<m>>) + Len(h)) :
              g[i] = IF i <= Len(<<m>>) THEN <<m>>[i] ELSE h[i - Len(<<m>>)]
    BY <2>1, <2>2, ConcatProperties
  <2> HIDE DEF g, h
  <2> QED
    BY <2>1, <2>2, <2>3
<1>5. /\ new.buffer = o.buffer /\ new.handled = g /\ new.early = o.early
      /\ new = [buffer |-> new.buffer, handled |-> new.handled, early |-> new.early]
  BY <1>1
<1> HIDE DEF new, g, k, l, h
<1>6. \A i \in 1..Len(h) : h[i] \in 1..MaxMessages /\ m < h[i]
  <2> SUFFICES ASSUME NEW i \in 1..Len(h) PROVE h[i] \in 1..MaxMessages /\ m < h[i]
    OBVIOUS
  <2>1. h[i] \in 1..MaxMessages
    <3>1. h \in Seq(1..MaxMessages)
      BY <1>2
    <3> QED
      BY <3>1, ElementOfSeq
  <2>2. PICK j \in 1..MaxMessages : j = h[i]
    BY <2>1
  <2>3. k <= EndOf(j - 1)
    BY <1>2, <2>2
  <2>4. EndOf(j - 1) \in Nat /\ (EndOf(m - 1) < EndOf(j - 1) => m < j)
    BY BeginFacts
  <2>5. p < k
    BY DEF k
  <2>6. m < j
    BY <1>3, <2>3, <2>4, <2>5
  <2> QED
    BY <2>2, <2>6
<1>7. Increasing(g)
  <2> SUFFICES ASSUME NEW i \in 1..Len(g), NEW j \in 1..Len(g), i < j PROVE g[i] < g[j]
    BY DEF Increasing
  <2>1. j \in 2..Len(g) /\ g[j] = h[j - 1] /\ j - 1 \in 1..Len(h)
    BY <1>4
  <2>2. CASE i = 1
    BY <1>4, <1>6, <2>1, <2>2
  <2>3. CASE i # 1
    <3>1. i \in 2..Len(g) /\ g[i] = h[i - 1] /\ i - 1 \in 1..Len(h) /\ i - 1 < j - 1
      BY <1>4, <2>3
    <3> QED
      BY <1>2, <2>1, <3>1 DEF Increasing
  <2> QED
    BY <2>2, <2>3
<1>8. p < k /\ k <= EndOf(m) /\ p < l
  <2>1. p < k /\ k <= EndOf(m)
    BY DEF k
  <2> QED
    BY <1>2, <1>3, <2>1
<1>9. ASSUME NEW i \in 1..Len(g) PROVE p <= EndOf(g[i] - 1) /\ EndOf(g[i] - 1) < l
  <2>1. CASE i = 1
    BY <1>3, <1>4, <1>8, <2>1
  <2>2. CASE i # 1
    <3>1. i \in 2..Len(g) /\ g[i] = h[i - 1] /\ i - 1 \in 1..Len(h)
      BY <1>4, <2>2
    <3>2. g[i] \in 1..MaxMessages
      BY <1>6, <3>1
    <3>3. EndOf(g[i] - 1) \in Nat
      BY <3>2, RequestFacts
    <3>4. k <= EndOf(g[i] - 1) /\ EndOf(g[i] - 1) < l
      BY <1>2, <3>1
    <3> QED
      BY <1>3, <1>8, <3>3, <3>4
  <2> QED
    BY <2>1, <2>2
<1>10. ASSUME NEW j \in 1..MaxMessages, p <= EndOf(j - 1), EndOf(j - 1) < l
       PROVE  j \in ToSet(g) \/ Spoiled(j)
  <2>1. /\ EndOf(m - 1) < EndOf(j - 1) => m < j
        /\ m < j => EndOf(m) <= EndOf(j - 1)
        /\ j < m => EndOf(j - 1) < EndOf(m - 1)
        /\ EndOf(j - 1) \in Nat
    BY BeginFacts
  <2>2. CASE EndOf(j - 1) < k
    <3>1. ~(m < j)
      BY <1>3, <1>8, <2>1, <2>2
    <3>2. ~(j < m)
      BY <1>3, <1>10, <2>1
    <3>3. j = m /\ 1 \in DOMAIN g
      BY <1>4, <3>1, <3>2
    <3> QED
      BY <1>4, <3>3 DEF ToSet
  <2>3. CASE k <= EndOf(j - 1)
    <3>1. j \in ToSet(h) \/ Spoiled(j)
      BY <1>2, <1>10, <2>3
    <3>2. ASSUME j \in ToSet(h) PROVE j \in ToSet(g)
      <4>1. PICK i \in DOMAIN h : h[i] = j
        BY <3>2 DEF ToSet
      <4>2. i \in 1..Len(h)
        BY <1>2, <4>1
      <4>3. i + 1 \in 2..Len(g) /\ (i + 1) - 1 = i /\ i + 1 \in DOMAIN g
        BY <1>4, <4>2
      <4>4. g[i + 1] = j
        BY <1>4, <4>1, <4>3
      <4> QED
        BY <4>3, <4>4 DEF ToSet
    <3> QED
      BY <3>1, <3>2
  <2> QED
    BY <1>3, <2>1, <2>2, <2>3
<1>11. p <= q /\ q + Len(new.buffer) = p + Len(r)
  BY <1>2, <1>3, <1>5
<1>12. Mark(r, p) <= Mark(new.buffer, q) /\ Mark(new.buffer, q) = l
  BY <1>3, <1>5, <1>8 DEF l
<1>13. Reach(r, p, new, q)
  BY <1>2, <1>3, <1>4, <1>5, <1>7, <1>9, <1>10, <1>11, <1>12 DEF Reach
<1> QED
  BY <1>13 DEF new

\* Places of the buffer and of the stream.
LEMMA Distances ==
    ASSUME NEW d \in Nat, NEW c \in Nat, NEW e \in Nat, NEW n \in Nat, c + 1 <= e, e <= n
    PROVE  /\ d + c \in Nat /\ d + e \in Nat /\ (d + c) + 1 <= d + e
           /\ e = c + 2 => d + e = (d + c) + 2
           /\ (d + e) + (n - e) = (d + c) + (n - c)
           /\ d + c < (d + c) + (n - c)
           /\ n - e \in Nat
<1>1. d + c \in Nat /\ d + e \in Nat /\ (d + c) + 1 <= d + e
  OBVIOUS
<1>2. e = c + 2 => d + e = (d + c) + 2
  OBVIOUS
<1>3. (d + e) + (n - e) = (d + c) + (n - c)
  OBVIOUS
<1>4. d + c < (d + c) + (n - c)
  OBVIOUS
<1>5. n - e \in Nat
  OBVIOUS
<1> QED
  BY <1>1, <1>2, <1>3, <1>4, <1>5

\* The loop stops behind headers that are not a request's.
LEMMA Skips ==
    ASSUME Messages, NEW b, NEW d, Cut(b, d), NEW c \in 0..Len(b),
           NEW e, e = EndOfHeaders(b, c), e # 0,
           b[c + 1].part = "stub" \/ ~Parsed(b, c)
    PROVE  Good(Rest(b, c), d + c, Left(b, e))
<1> DEFINE r == Rest(b, c)
           p == d + c
           o == Left(b, e)
           q == d + e
           t == Rest(b, e)
<1>1. /\ e \in (c + 1)..Len(b) /\ Stream[q].part \in {"crlf", "last"}
      /\ \A j \in (p + 1)..(q - 1) : Stream[j].part \notin {"crlf", "last"}
      /\ \A m \in 1..MaxMessages : p = EndOf(m - 1) => e = c + 2
  <2>1. e \in (c + 1)..Len(b) /\ Stream[q].part \in {"crlf", "last"}
    BY HeaderEnd
  <2>2. \A j \in (p + 1)..(q - 1) : Stream[j].part \notin {"crlf", "last"}
    BY HeaderEnd
  <2>3. \A m \in 1..MaxMessages : p = EndOf(m - 1) => e = c + 2
    BY HeaderEnd
  <2> QED
    BY <2>1, <2>2, <2>3
<1>2. d \in Nat /\ Len(b) \in Nat /\ Cut(r, p) /\ Len(r) = Len(b) - c /\ (Stub(r) <=> c = 0 /\ Stub(b))
  BY RestFacts
<1>3. e \in 0..Len(b) /\ e # 0 /\ e \in Nat
  BY <1>1, <1>2
<1>4. Cut(t, q) /\ Len(t) = Len(b) - e /\ ~Stub(t)
  BY <1>3, RestFacts
<1>5. /\ o.buffer = t /\ o.handled = <<>> /\ o.early = "no"
      /\ o = [buffer |-> o.buffer, handled |-> o.handled, early |-> o.early]
  BY DEF Left, Rest
<1>6. p \in Nat /\ q \in Nat /\ p + 1 <= q /\ q + Len(t) = p + Len(r) /\ q <= Len(Stream)
      /\ p < p + Len(r) /\ (e = c + 2 => q = p + 2) /\ Len(t) \in Nat
  <2>1. q + Len(t) <= Len(Stream) /\ Len(t) = Len(b) - e /\ Len(r) = Len(b) - c /\ e >= c + 1
        /\ c \in Nat /\ e \in Nat /\ d \in Nat /\ Len(b) \in Nat /\ e <= Len(b)
    BY <1>1, <1>2, <1>3, <1>4 DEF Cut
  <2>2. Len(Stream) \in Nat
    BY StreamFacts
  <2> HIDE DEF r, t
  <2>3. /\ p \in Nat /\ q \in Nat /\ p + 1 <= q /\ (e = c + 2 => q = p + 2)
        /\ q + Len(t) = p + Len(r) /\ p < p + Len(r) /\ Len(t) \in Nat
    <3> DEFINE n == Len(b)
    <3>1. d \in Nat /\ c \in Nat /\ e \in Nat /\ n \in Nat /\ c + 1 <= e /\ e <= n
      BY <1>1, <2>1
    <3>2. Len(t) = n - e /\ Len(r) = n - c
      BY <2>1
    <3> HIDE DEF n
    <3>3. /\ d + c \in Nat /\ d + e \in Nat /\ (d + c) + 1 <= d + e
          /\ e = c + 2 => d + e = (d + c) + 2
          /\ (d + e) + (n - e) = (d + c) + (n - c)
          /\ d + c < (d + c) + (n - c)
          /\ n - e \in Nat
      BY <3>1, Distances
    <3> QED
      BY <3>2, <3>3
  <2> HIDE DEF p, q
  <2>4. q <= Len(Stream)
    BY <2>1, <2>2, <2>3
  <2> QED
    BY <2>3, <2>4
<1>7. Len(r) > 0 /\ r[1] = b[c + 1]
  <2>1. Len(r) > 0
    BY <1>1, <1>2, <1>3
  <2>2. 1 \in 1..Len(r)
    BY <1>2, <2>1
  <2>3. \A i \in 1..Len(r) : r[i] = b[c + i]
    BY RestFacts
  <2> QED
    BY <2>1, <2>2, <2>3
<1>8. Stub(r) <=> b[c + 1].part = "stub"
  BY <1>7, <1>2 DEF Stub, Cut
<1>9. Stub(r) \/ ~Parsed(b, c)
  BY <1>8
<1>10. ~Stub(r) => b[c + 1] = Stream[p + 1]
  <2>1. 1 \in 1..Len(r)
    BY <1>2, <1>7
  <2> QED
    BY <1>2, <1>7, <1>8, <2>1 DEF Cut
<1> HIDE DEF r, p, o, q, t
<1>11. ASSUME Position(r, p)
       PROVE  /\ Position(t, q)
              /\ \A m \in 1..MaxMessages :
                    Mark(r, p) <= EndOf(m - 1) /\ EndOf(m - 1) < q => Spoiled(m)
  <2>1. CASE Stub(r)
    <3>1. PICK m \in 1..MaxMessages : /\ p = EndOf(m - 1) /\ messages[m] = "chunked"
                                      /\ EndOf(m) <= p + Len(r)
      BY <1>11, <2>1 DEF Position
    <3>2. q = p + 2
      BY <1>1, <1>6, <3>1
    <3>3. Position(t, q)
      BY <1>4, <1>6, <3>1, <3>2 DEF Position
    <3>4. ASSUME NEW j \in 1..MaxMessages, p + 1 <= EndOf(j - 1), EndOf(j - 1) < q
          PROVE  FALSE
      <4>1. EndOf(j - 1) \in Nat /\ (EndOf(m - 1) < EndOf(j - 1) => m < j)
            /\ (m < j => EndOf(m) <= EndOf(j - 1))
        BY BeginFacts
      <4>2. p + 2 <= EndOf(m) /\ EndOf(m) \in Nat
        BY <3>1, RequestFacts
      <4>3. p \in Nat /\ EndOf(m - 1) < EndOf(j - 1)
        BY <1>6, <3>1, <3>4, <4>1
      <4>4. EndOf(m) <= EndOf(j - 1) /\ EndOf(j - 1) < p + 2
        BY <3>2, <3>4, <4>1, <4>3
      <4> QED
        BY <4>1, <4>2, <4>3, <4>4
    <3> QED
      BY <2>1, <3>3, <3>4 DEF Mark
  <2>2. CASE ~Stub(r)
    <3>1. Mark(r, p) = p /\ ~Parsed(b, c)
      BY <1>9, <2>2 DEF Mark
    <3>2. CASE \E m \in 1..MaxMessages : p = EndOf(m - 1)
      <4>1. PICK m \in 1..MaxMessages : p = EndOf(m - 1)
        BY <3>2
      <4>2. q = p + 2 /\ b[c + 1] = Stream[p + 1] /\ Stream[p + 1] = [msg |-> m, part |-> "head"]
        BY <1>1, <1>6, <1>10, <2>2, <4>1, RequestFacts
      <4>3. messages[m] = "malformed"
        BY <3>1, <4>2 DEF Parsed
      <4>4. Spoiled(m) /\ messages[m] # "options"
        BY <4>3, SpoiledFacts
      <4>5. Position(t, q)
        BY <1>4, <4>1, <4>2, <4>4 DEF Position
      <4>6. ASSUME NEW j \in 1..MaxMessages, p <= EndOf(j - 1), EndOf(j - 1) < q
            PROVE  Spoiled(j)
        <5>1. /\ EndOf(m - 1) < EndOf(j - 1) => m < j
              /\ m < j => EndOf(m) <= EndOf(j - 1)
              /\ j < m => EndOf(j - 1) < EndOf(m - 1)
              /\ EndOf(j - 1) \in Nat
          BY BeginFacts
        <5>2. p + 2 <= EndOf(m) /\ EndOf(m) \in Nat
          BY <4>1, RequestFacts
        <5>3. p \in Nat /\ EndOf(j - 1) < p + 2 /\ p <= EndOf(j - 1)
          BY <1>6, <4>2, <4>6
        <5>4. ~(EndOf(m) <= EndOf(j - 1)) /\ ~(EndOf(j - 1) < EndOf(m - 1))
          BY <4>1, <5>1, <5>2, <5>3
        <5>5. j = m
          BY <5>1, <5>4
        <5> QED
          BY <4>4, <5>5
      <4> QED
        BY <3>1, <4>5, <4>6
    <3>3. CASE \E m \in 0..MaxMessages : p = EndOf(m)
      <4>1. PICK m \in 0..MaxMessages : p = EndOf(m)
        BY <3>3
      <4>2. m # MaxMessages
        BY <1>6, <4>1, StreamFacts
      <4>3. m + 1 \in 1..MaxMessages /\ (m + 1) - 1 = m
        BY <4>2, SizeAssumption
      <4>4. \E k \in 1..MaxMessages : p = EndOf(k - 1)
        BY <4>1, <4>3
      <4> QED
        BY <3>2, <4>4
    <3>4. CASE \E m \in 1..MaxMessages : /\ p = EndOf(m - 1) + 2
                                         /\ Spoiled(m) /\ messages[m] \in {"malformed", "post"}
      <4>1. PICK m \in 1..MaxMessages : /\ p = EndOf(m - 1) + 2
                                        /\ Spoiled(m) /\ messages[m] \in {"malformed", "post"}
        BY <3>4
      <4>2. /\ EndOf(m - 1) \in Nat /\ EndOf(m) \in Nat
            /\ messages[m] = "malformed" => EndOf(m) = p + 1 /\ Stream[p + 1].part = "body"
            /\ messages[m] = "post" => /\ EndOf(m) = p + 2
                                       /\ Stream[p + 1].part = "body" /\ Stream[p + 2].part = "body"
        <5>1. /\ EndOf(m - 1) \in Nat /\ EndOf(m) \in Nat
              /\ messages[m] = "malformed" => /\ EndOf(m) = EndOf(m - 1) + 3
                                              /\ Stream[EndOf(m - 1) + 3].part = "body"
              /\ messages[m] = "post" => /\ EndOf(m) = EndOf(m - 1) + 4
                                         /\ Stream[EndOf(m - 1) + 3].part = "body"
                                         /\ Stream[EndOf(m - 1) + 4].part = "body"
          BY RequestFacts
        <5>2. EndOf(m - 1) + 3 = p + 1 /\ EndOf(m - 1) + 4 = p + 2
          BY <4>1, <5>1
        <5> QED
          BY <5>1, <5>2
      <4>3. p < EndOf(m) /\ EndOf(m) < q
        <5>1. q # p + 1
          BY <1>1, <4>1, <4>2
        <5>2. messages[m] = "post" => q # p + 2
          BY <1>1, <4>2
        <5>3. p \in Nat /\ q \in Nat /\ p + 1 <= q
          BY <1>6
        <5>4. CASE messages[m] = "malformed"
          <6>1. EndOf(m) = p + 1
            BY <4>2, <5>4
          <6> QED
            BY <5>1, <5>3, <6>1
        <5>5. CASE messages[m] = "post"
          <6>1. EndOf(m) = p + 2 /\ q # p + 2
            BY <4>2, <5>2, <5>5
          <6> QED
            BY <5>1, <5>3, <6>1
        <5> QED
          BY <4>1, <5>4, <5>5
      <4>4. m + 1 \in 1..MaxMessages /\ (m + 1) - 1 = m
        <5>1. m # MaxMessages
          BY <1>6, <4>2, <4>3, StreamFacts
        <5> QED
          BY <5>1, SizeAssumption
      <4>5. PICK n \in 1..MaxMessages : n = m + 1
        BY <4>4
      <4>6. n - 1 = m /\ Spoiled(n)
        BY <4>1, <4>4, <4>5, SpoiledFacts
      <4>7. /\ Stream[EndOf(m) + 1] = [msg |-> n, part |-> "head"]
            /\ Stream[EndOf(m) + 2] = [msg |-> n, part |-> "crlf"]
            /\ EndOf(m) + 2 <= EndOf(n) /\ EndOf(n) \in Nat /\ messages[n] \in Kind
            /\ messages[n] = "options" => EndOf(n) = EndOf(m) + 2
        BY <4>6, RequestFacts
      <4>8. q = EndOf(m) + 2
        <5>1. q # EndOf(m) + 1
          BY <1>1, <4>7
        <5>2. ~(EndOf(m) + 2 \in (p + 1)..(q - 1))
          BY <1>1, <4>7
        <5>3. p \in Nat /\ q \in Nat /\ EndOf(m) \in Nat
          BY <1>6, <4>2
        <5>4. ~(EndOf(m) + 2 <= q - 1)
          BY <4>3, <5>2, <5>3
        <5> QED
          BY <4>3, <5>1, <5>3, <5>4
      <4>9. Position(t, q)
        <5>1. CASE messages[n] = "options"
          <6>1. q = EndOf(n) /\ n \in 0..MaxMessages
            BY <4>7, <4>8, <5>1
          <6> QED
            BY <1>4, <6>1 DEF Position
        <5>2. CASE messages[n] # "options"
          BY <1>4, <4>6, <4>8, <5>2 DEF Position
        <5> QED
          BY <5>1, <5>2
      <4>10. ASSUME NEW j \in 1..MaxMessages, p <= EndOf(j - 1), EndOf(j - 1) < q
             PROVE  Spoiled(j)
        <5>1. /\ EndOf(m - 1) < EndOf(j - 1) => m < j
              /\ n < j => EndOf(n) <= EndOf(j - 1)
              /\ EndOf(j - 1) \in Nat
          BY BeginFacts
        <5>2. j = n
          <6>1. m < j
            BY <4>1, <4>2, <4>10, <5>1
          <6>2. ~(n < j)
            BY <4>2, <4>7, <4>8, <4>10, <5>1
          <6> QED
            BY <4>5, <6>1, <6>2
        <5> QED
          BY <4>6, <5>2
      <4> QED
        BY <3>1, <4>9, <4>10
    <3>5. CASE \E m \in 1..MaxMessages : p = EndOf(m - 1) + 2 /\ messages[m] = "chunked"
      <4>1. PICK m \in 1..MaxMessages : p = EndOf(m - 1) + 2 /\ messages[m] = "chunked"
        BY <3>5
      <4>2. /\ EndOf(m - 1) \in Nat /\ EndOf(m) = EndOf(m - 1) + 4
            /\ Stream[EndOf(m - 1) + 3].part = "chunk" /\ Stream[EndOf(m - 1) + 4].part = "last"
        BY <4>1, RequestFacts
      <4>3. EndOf(m - 1) + 3 = p + 1 /\ EndOf(m - 1) + 4 = p + 2
        BY <4>1, <4>2
      <4>4. q # p + 1 /\ ~(p + 2 \in (p + 1)..(q - 1))
        BY <1>1, <4>2, <4>3
      <4>5. q = EndOf(m)
        BY <1>6, <4>2, <4>3, <4>4
      <4>6. Position(t, q)
        <5>1. m \in 0..MaxMessages
          OBVIOUS
        <5> QED
          BY <1>4, <4>5, <5>1 DEF Position
      <4>7. ASSUME NEW j \in 1..MaxMessages, p <= EndOf(j - 1), EndOf(j - 1) < q
            PROVE  FALSE
        <5>1. /\ EndOf(m - 1) < EndOf(j - 1) => m < j
              /\ m < j => EndOf(m) <= EndOf(j - 1)
              /\ EndOf(j - 1) \in Nat
          BY BeginFacts
        <5> QED
          BY <4>1, <4>2, <4>5, <4>7, <5>1
      <4> QED
        BY <3>1, <4>6, <4>7
    <3>6. /\ (\E m \in 0..MaxMessages : p = EndOf(m)) \/ (\E m \in 1..MaxMessages :
                /\ p = EndOf(m - 1) + 2
                /\ \/ Spoiled(m) /\ messages[m] # "options"
                   \/ messages[m] = "chunked")
      BY <1>11, <2>2 DEF Position
    <3>7. \A m \in 1..MaxMessages : messages[m] \in Kind
      BY RequestFacts
    <3> QED
      BY <3>3, <3>4, <3>5, <3>6, <3>7 DEF Kind
  <2> QED
    BY <2>1, <2>2
<1>12. Increasing(o.handled) /\ o.handled \in Seq(1..MaxMessages) /\ 1..Len(o.handled) = {}
  BY <1>5 DEF Increasing
<1>13. Mark(t, q) = q /\ Mark(r, p) <= q
  BY <1>4, <1>6 DEF Mark
<1>14. Reach(r, p, o, q)
  BY <1>4, <1>5, <1>6, <1>11, <1>12, <1>13 DEF Reach
<1> QED
  BY <1>6, <1>14 DEF Good, r, p, o

\* Headers that the parser accepts are where a request begins, and end with its second unit.
LEMMA ParsedFacts ==
    ASSUME Messages, NEW b, NEW d, Cut(b, d), NEW c \in 0..Len(b),
           NEW e, e = EndOfHeaders(b, c), e # 0, Parsed(b, c)
    PROVE  /\ b[c + 1].part = "head" /\ ~Stub(Rest(b, c))
           /\ e = c + 2 /\ e \in (c + 1)..Len(b) /\ c \in 0..(Len(b) - 1)
           /\ \E m \in 1..MaxMessages : /\ m = b[c + 1].msg /\ d + c = EndOf(m - 1)
                                        /\ messages[m] \in {"options", "post", "chunked"}
<1>1. b \in Seq(Unit) /\ d \in Nat /\ Len(b) \in Nat /\ d + Len(b) <= Len(Stream) /\ c \in Nat
  BY DEF Cut
<1>2. b[c + 1].part = "head" /\ messages[b[c + 1].msg] # "malformed"
  BY DEF Parsed
<1>3. e \in (c + 1)..Len(b)
  BY HeaderEnd
<1>4. c + 1 \in 1..Len(b) /\ c \in 0..(Len(b) - 1)
  BY <1>1, <1>3
<1>5. (b[c + 1] = Stream[d + (c + 1)] /\ ~Stub(b)) \/ c # 0
  <2>1. CASE c = 0
    <3>1. b[1].part = "head" /\ c + 1 = 1
      BY <1>1, <1>2, <2>1
    <3>2. b[1] = Stream[d + 1] /\ ~Stub(b)
      BY <1>4, <3>1 DEF Cut, Stub
    <3> QED
      BY <2>1, <3>1, <3>2
  <2> QED
    BY <2>1
<1>6. b[c + 1] = Stream[d + (c + 1)]
  <2>1. c # 0 => c + 1 # 1
    BY <1>1
  <2>2. c # 0 => b[c + 1] = Stream[d + (c + 1)]
    BY <1>4, <2>1 DEF Cut
  <2> QED
    BY <1>5, <2>2
<1>7. ~Stub(Rest(b, c))
  BY <1>5, RestFacts
<1>8. d + (c + 1) \in 1..Len(Stream)
  BY <1>1, <1>4
<1>9. PICK m \in 1..MaxMessages : d + (c + 1) = EndOf(m - 1) + 1 /\ b[c + 1].msg = m
  BY <1>2, <1>6, <1>8, PartFacts
<1>10. d + c = EndOf(m - 1) /\ messages[m] \in Kind
  <2>1. EndOf(m - 1) \in Nat /\ messages[m] \in Kind
    BY RequestFacts
  <2>2. d \in Nat /\ c \in Nat /\ d + (c + 1) = EndOf(m - 1) + 1
    BY <1>1, <1>9
  <2>3. d + c = EndOf(m - 1)
    BY <2>1, <2>2
  <2> QED
    BY <2>1, <2>3
<1>11. e = c + 2
  BY <1>10, HeaderEnd
<1>12. messages[m] \in {"options", "post", "chunked"}
  BY <1>2, <1>9, <1>10 DEF Kind
<1> QED
  BY <1>2, <1>3, <1>4, <1>7, <1>9, <1>10, <1>11, <1>12

\* A chunked request loses a byte, or its headers.
LEMMA ChunkedReaches ==
    ASSUME Messages, NEW b, NEW d, Cut(b, d), NEW c \in 0..Len(b),
           NEW e, e = EndOfHeaders(b, c), e # 0, Parsed(b, c),
           NEW m, m = b[c + 1].msg, messages[m] = "chunked", LastChunkAfter(b, e),
           NEW u \in {Left(Bitten(b, c), c), Left(Bitten(b, c), e)},
           NEW o, o = [u EXCEPT !.handled = <<m>> \o @]
    PROVE  Good(Rest(b, c), d + c, o)
<1> DEFINE p == d + c
           r == Rest(b, c)
           s == Bitten(b, c)
           t == Rest(s, c)
           v == Rest(b, e)
<1>1. /\ b[c + 1].part = "head" /\ ~Stub(r)
      /\ e = c + 2 /\ e \in (c + 1)..Len(b) /\ c \in 0..(Len(b) - 1)
      /\ m \in 1..MaxMessages /\ p = EndOf(m - 1)
  BY ParsedFacts
<1>2. /\ EndOf(m) = p + 4 /\ Stream[p + 3].part = "chunk" /\ EndOf(m) <= Len(Stream)
      /\ p \in Nat /\ Len(Stream) \in Nat
  BY <1>1, RequestFacts
<1>3. /\ Len(s) = Len(b) /\ Len(t) = Len(b) - c /\ Cut(t, p) /\ Stub(t) /\ Rest(s, e) = v
  BY <1>1, BittenFacts
<1>4. Len(r) = Len(b) - c /\ d \in Nat /\ Len(b) \in Nat
  BY RestFacts
<1>5. e \in 0..Len(b) /\ e # 0
  BY <1>1, <1>4
<1>6. Cut(v, d + e) /\ Len(v) = Len(b) - e /\ ~Stub(v)
  BY <1>5, RestFacts
<1>7. PICK i \in (e + 1)..Len(b) : b[i].part = "last"
  BY DEF LastChunkAfter
<1>8. b[i] = Stream[d + i]
  <2>1. i \in 1..Len(b) /\ i # 1
    BY <1>4, <1>5, <1>7
  <2> QED
    BY <2>1 DEF Cut
<1>9. d + i # p + 3 /\ d + i > p + 2 /\ i <= Len(b)
  <2>1. d + i # p + 3
    BY <1>2, <1>7, <1>8
  <2>2. e = c + 2 /\ i >= e + 1 /\ i <= Len(b) /\ i \in Int /\ c \in Nat
    BY <1>1, <1>4, <1>5, <1>7
  <2>3. d \in Nat /\ p = d + c
    BY <1>4
  <2> HIDE DEF p, r, s, t, v
  <2> QED
    BY <2>1, <2>2, <2>3
<1> HIDE DEF r, s, t, v
<1>10. EndOf(m) <= d + Len(b)
  <2>1. EndOf(m) = p + 4 /\ p \in Nat /\ d \in Nat /\ Len(b) \in Nat /\ i \in Int
    BY <1>2, <1>4, <1>7
  <2>2. p + 4 <= d + i
    BY <1>9, <2>1
  <2> HIDE DEF p
  <2> QED
    BY <1>9, <2>1, <2>2
<1>11. p + Len(r) = d + Len(b) /\ d + e = p + 2 /\ p + Len(t) = p + Len(r)
       /\ (d + e) + Len(v) = p + Len(r)
  <2>1. /\ d \in Nat /\ c \in Nat /\ Len(b) \in Nat /\ e = c + 2
        /\ Len(r) = Len(b) - c /\ Len(t) = Len(b) - c /\ Len(v) = Len(b) - e
    BY <1>1, <1>3, <1>4, <1>6
  <2>2. e \in Nat /\ d + e = p + 2
    <3>1. d + (c + 2) = (d + c) + 2 /\ c + 2 \in Nat
      BY <2>1
    <3> QED
      BY <2>1, <3>1, Zenon
  <2>3. p + Len(r) = d + Len(b)
    BY <2>1
  <2>4. p + Len(t) = d + Len(b)
    BY <2>1
  <2>5. (d + e) + Len(v) = d + Len(b)
    BY <2>1, <2>2
  <2> QED
    BY <2>2, <2>3, <2>4, <2>5
<1> HIDE DEF p
<1>12. CASE u = Left(s, c)
  <2>1. u = [buffer |-> t, handled |-> <<>>, early |-> "no"]
    BY <1>12 DEF Left, t, Rest
  <2>2. Reach(t, p, u, p)
    BY <1>3, <2>1, Stays
  <2>3. Mark(t, p) = p + 1
    BY <1>3 DEF Mark
  <2>4. Position(t, p)
    BY <1>1, <1>3, <1>10, <1>11 DEF Position
  <2>5. Reach(r, p, o, p)
    <3>1. p <= p /\ p < Mark(t, p) /\ Mark(t, p) <= EndOf(m)
      BY <1>2, <2>3
    <3> QED
      BY <1>1, <1>2, <1>11, <2>2, <2>4, <3>1, Prepends
  <2> QED
    BY <1>2, <2>5 DEF Good, r, p
<1>13. CASE u = Left(s, e)
  <2>1. u = [buffer |-> v, handled |-> <<>>, early |-> "no"]
    BY <1>3, <1>13 DEF Left, Rest
  <2> DEFINE q == d + e
  <2>2. Reach(v, q, u, q)
    BY <1>6, <2>1, Stays
  <2>3. Mark(v, q) = q /\ q \in Nat /\ q = p + 2
    <3>1. Mark(v, q) = q
      BY <1>6 DEF Mark
    <3>2. q = p + 2
      BY <1>11
    <3> HIDE DEF q
    <3>3. q \in Nat
      BY <1>2, <3>2
    <3> QED
      BY <3>1, <3>2, <3>3
  <2>4. q + Len(v) = p + Len(r)
    BY <1>11
  <2>5. Position(v, q)
    BY <1>1, <1>6, <1>10, <1>11 DEF Position
  <2> HIDE DEF q
  <2>6. Reach(r, p, o, q)
    <3>1. p <= q /\ p < Mark(v, q) /\ Mark(v, q) <= EndOf(m)
      BY <1>2, <2>3
    <3> QED
      BY <1>1, <2>2, <2>3, <2>4, <2>5, <3>1, Prepends
  <2> QED
    BY <2>3, <2>6 DEF Good, r, p
<1> QED
  BY <1>12, <1>13 DEF s

\* A request without chunks is consumed, whatever the loop makes of what is behind it.
LEMMA PlainReaches ==
    ASSUME Messages, NEW b, NEW d, Cut(b, d), NEW c \in 0..Len(b),
           NEW e, e = EndOfHeaders(b, c), e # 0, Parsed(b, c),
           NEW m, m = b[c + 1].msg, messages[m] # "chunked",
           NEW end, end = e + ContentLength(b, c), end <= Len(b),
           NEW u, Good(Rest(b, end), d + end, u),
           NEW o, o = [u EXCEPT !.handled = <<m>> \o @]
    PROVE  Good(Rest(b, c), d + c, o) /\ end \in (c + 1)..Len(b)
<1> DEFINE p == d + c
           r == Rest(b, c)
           v == Rest(b, end)
           p2 == d + end
<1>1. /\ ~Stub(r) /\ e = c + 2
      /\ m \in 1..MaxMessages /\ p = EndOf(m - 1) /\ messages[m] \in {"options", "post"}
  BY ParsedFacts
<1>2. Len(r) = Len(b) - c /\ d \in Nat /\ Len(b) \in Nat /\ c \in Nat
  BY RestFacts
<1>3. /\ messages[m] = "options" => end = c + 2
      /\ messages[m] = "post" => end = c + 4
  BY <1>1, <1>2 DEF ContentLength
<1>4. /\ messages[m] = "options" => EndOf(m) = p + 2
      /\ messages[m] = "post" => EndOf(m) = p + 4
      /\ p \in Nat
  BY <1>1, RequestFacts
<1>5. p2 = EndOf(m) /\ p2 \in Nat /\ p < p2 /\ end \in (c + 1)..Len(b) /\ end # 0 /\ end \in 0..Len(b)
  <2>1. d \in Nat /\ c \in Nat /\ Len(b) \in Nat /\ end <= Len(b) /\ EndOf(m) \in Nat
    BY <1>1, <1>2, RequestFacts
  <2> HIDE DEF r, v
  <2>2. CASE messages[m] = "options"
    BY <1>3, <1>4, <2>1, <2>2
  <2>3. CASE messages[m] = "post"
    BY <1>3, <1>4, <2>1, <2>3
  <2> QED
    BY <1>1, <2>2, <2>3
<1>6. Cut(v, p2) /\ Len(v) = Len(b) - end /\ ~Stub(v)
  BY <1>5, RestFacts
<1>7. Mark(v, p2) = p2 /\ p2 + Len(v) = p + Len(r)
  BY <1>2, <1>5, <1>6 DEF Mark
<1>8. m \in 0..MaxMessages
  BY <1>1
<1> HIDE DEF p, r, v, p2
<1>9. Position(v, p2)
  BY <1>5, <1>6, <1>8 DEF Position
<1>10. PICK q \in Nat : Reach(v, p2, u, q)
  BY DEF Good, v, p2
<1>11. Reach(r, p, o, q)
  <2>1. p <= p2 /\ p < Mark(v, p2) /\ Mark(v, p2) <= EndOf(m)
    BY <1>4, <1>5, <1>7
  <2> QED
    BY <1>1, <1>5, <1>7, <1>9, <1>10, <2>1, Prepends
<1>12. Good(r, p, o)
  BY <1>11 DEF Good
<1> QED
  BY <1>5, <1>12 DEF r, p

\* What stands after c can be analysed.
Able(b, c) ==
    LET e == EndOfHeaders(b, c)
    IN  /\ e # 0 /\ Parsed(b, c)
        /\ \/ messages[b[c + 1].msg] = "chunked" /\ LastChunkAfter(b, e)
           \/ messages[b[c + 1].msg] # "chunked" /\ Whole(b, e + ContentLength(b, c))

\* A pass stops, or analyses a request of which a part is there, or skips headers, or
\* analyses a request and may go on.
LEMMA PassOutcomes ==
    ASSUME NEW b, NEW c, NEW f, NEW o \in Pass(f, b, c), NEW e, e = EndOfHeaders(b, c),
           NEW m, m = b[c + 1].msg, NEW end, end = e + ContentLength(b, c)
    PROVE  \/ ~Able(b, c) /\ o = Left(b, c)
           \/ /\ ~Able(b, c) /\ e # 0 /\ Parsed(b, c) /\ messages[m] = "chunked"
              /\ ~LastChunkAfter(b, e) /\ HaveAllContent(c) /\ o = AnalysedEarly(b, c)
           \/ ~Able(b, c) /\ e # 0 /\ ~Parsed(b, c) /\ o = Left(b, e)
           \/ /\ Able(b, c) /\ messages[m] = "chunked"
              /\ \E v \in {Left(Bitten(b, c), c), Left(Bitten(b, c), e)} :
                    o = [v EXCEPT !.handled = <<m>> \o @]
           \/ /\ Able(b, c) /\ messages[m] # "chunked"
              /\ \E v : /\ o = [v EXCEPT !.handled = <<m>> \o @]
                        /\ \/ v \in f[end]
                           \/ v = Left(b, end) /\ ~GoesOn(Len(b) - c, end)
<1> DEFINE size == Len(b) - c
           stub == Bitten(b, c)
<1>1. CASE e = 0
  BY <1>1 DEF Pass, Able
<1>2. CASE e # 0 /\ ~Parsed(b, c)
  <2>1. CASE b[c + 1].part = "stub"
    <3>1. o \in {Left(b, c), Left(b, e)}
      BY <1>2, <2>1 DEF Pass, ParseStub
    <3> QED
      BY <1>2, <3>1 DEF Able
  <2>2. CASE b[c + 1].part # "stub"
    <3>1. o = Left(b, e)
      BY <1>2, <2>2 DEF Pass
    <3> QED
      BY <1>2, <3>1 DEF Able
  <2> QED
    BY <2>1, <2>2
<1>3. CASE e # 0 /\ Parsed(b, c) /\ messages[m] = "chunked"
  <2>0. b[c + 1].part = "head"
    BY <1>3 DEF Parsed
  <2>1. CASE ~LastChunkAfter(b, e)
    <3>1. o = IF HaveAllContent(c) THEN AnalysedEarly(b, c) ELSE Left(b, c)
      BY <1>3, <2>0, <2>1 DEF Pass
    <3>2. ~Able(b, c)
      BY <1>3, <2>1 DEF Able
    <3> QED
      BY <1>3, <2>1, <3>1, <3>2
  <2>2. CASE LastChunkAfter(b, e)
    <3>1. o \in Analysed(m, IF GoesOn(size, c) THEN ParseStub(stub, c, e) ELSE {Left(stub, c)})
      BY <1>3, <2>0, <2>2 DEF Pass
    <3>2. PICK v \in {Left(stub, c), Left(stub, e)} : o = [v EXCEPT !.handled = <<m>> \o @]
      BY <3>1 DEF Analysed, ParseStub
    <3>3. Able(b, c)
      BY <1>3, <2>2 DEF Able
    <3> QED
      BY <1>3, <3>2, <3>3
  <2> QED
    BY <2>1, <2>2
<1>4. CASE e # 0 /\ Parsed(b, c) /\ messages[m] # "chunked"
  <2>0. b[c + 1].part = "head"
    BY <1>4 DEF Parsed
  <2>1. CASE ~Whole(b, end)
    <3>1. o = Left(b, c)
      BY <1>4, <2>0, <2>1 DEF Pass
    <3> QED
      BY <1>4, <2>1, <3>1 DEF Able
  <2>2. CASE Whole(b, end)
    <3>1. o \in Analysed(m, IF GoesOn(size, end) THEN f[end] ELSE {Left(b, end)})
      BY <1>4, <2>0, <2>2 DEF Pass
    <3>2. PICK v : /\ o = [v EXCEPT !.handled = <<m>> \o @]
                   /\ \/ v \in f[end]
                      \/ v = Left(b, end) /\ ~GoesOn(size, end)
      BY <3>1 DEF Analysed
    <3>3. Able(b, c)
      BY <1>4, <2>2 DEF Able
    <3> QED
      BY <1>4, <3>2, <3>3
  <2> QED
    BY <2>1, <2>2
<1> QED
  BY <1>1, <1>2, <1>3, <1>4

\* Where a request that is analysed without chunks ends.
LEMMA EndFacts ==
    ASSUME NEW b, Len(b) \in Nat, NEW c \in 0..Len(b), NEW e, e = EndOfHeaders(b, c), e # 0,
           NEW end, end = e + ContentLength(b, c), Whole(b, end)
    PROVE  end \in (c + 1)..Len(b) /\ end <= Len(b) /\ end \in 0..Len(b)
<1>1. e \in (c + 1)..Len(b)
  BY EndOfHeadersFacts
<1>2. ContentLength(b, c) \in Nat /\ end <= Len(b)
  BY DEF ContentLength, Whole
<1>3. PICK l \in Nat : l = ContentLength(b, c)
  BY <1>2
<1>4. end = e + l
  BY <1>3
<1> QED
  BY <1>1, <1>2, <1>4

\* A chunked request that is analysed before its last chunk is there is an unfinished one.
LEMMA EarlyIsUnfinished ==
    ASSUME Messages, NEW b, NEW d, Cut(b, d), NEW c \in 0..Len(b),
           NEW e, e = EndOfHeaders(b, c), e # 0, Parsed(b, c),
           NEW m, m = b[c + 1].msg, messages[m] = "chunked", ~LastChunkAfter(b, e)
    PROVE  m \in 1..MaxMessages /\ Unfinished(m, Rest(b, c), d + c)
<1> DEFINE r == Rest(b, c)
           p == d + c
<1>1. /\ b[c + 1].part = "head" /\ e = c + 2 /\ c \in 0..(Len(b) - 1)
      /\ m \in 1..MaxMessages /\ p = EndOf(m - 1)
  BY ParsedFacts
<1>2. EndOf(m) = p + 4 /\ Stream[p + 4].part = "last" /\ p \in Nat
  BY <1>1, RequestFacts
<1>3. /\ b \in Seq(Unit) /\ d \in Nat /\ Len(b) \in Nat /\ c \in Nat
      /\ \A i \in 2..Len(b) : b[i] = Stream[d + i]
  BY DEF Cut
<1>4. r \in Seq(Unit) /\ Len(r) = Len(b) - c /\ \A i \in 1..Len(r) : r[i] = b[c + i]
  BY RestFacts
<1>5. r # <<>> /\ r[1] = [msg |-> m, part |-> "head"]
  <2>1. c + 1 \in 1..Len(b) /\ 1 \in 1..Len(r)
    BY <1>1, <1>3, <1>4
  <2>2. b[c + 1] \in Unit /\ r[1] = b[c + 1]
    BY <1>3, <1>4, <2>1
  <2>3. b[c + 1] = [msg |-> m, part |-> "head"]
    BY <1>1, <2>2 DEF Unit
  <2> QED
    BY <2>1, <2>2, <2>3
<1> HIDE DEF r
<1>6. p + Len(r) < EndOf(m)
  <2> SUFFICES ASSUME EndOf(m) <= d + Len(b) PROVE FALSE
    <3>1. p + Len(r) = d + Len(b)
      BY <1>3, <1>4
    <3> QED
      BY <1>2, <1>3, <3>1
  <2>1. d + (c + 4) = p + 4 /\ c + 4 \in 2..Len(b) /\ c + 4 \in (e + 1)..Len(b)
    BY <1>1, <1>2, <1>3
  <2>2. b[c + 4].part = "last"
    BY <1>2, <1>3, <2>1
  <2> QED
    BY <2>1, <2>2 DEF LastChunkAfter
<1> QED
  BY <1>1, <1>5, <1>6 DEF Unfinished, r, p

\* What the loop leaves when it stops.
LEMMA LeftFacts ==
    ASSUME NEW b, NEW c
    PROVE  /\ Left(b, c) = [buffer |-> Rest(b, c), handled |-> <<>>, early |-> "no"]
           /\ \E a : AnalysedEarly(b, c) = [buffer |-> Rest(b, c), handled |-> <<>>, early |-> a]
<1>1. Left(b, c) = [buffer |-> Rest(b, c), handled |-> <<>>, early |-> "no"]
  BY DEF Left, Rest
<1>2. PICK a : AnalysedEarly(b, c) = [Left(b, c) EXCEPT !.early = a]
  BY DEF AnalysedEarly
<1>3. AnalysedEarly(b, c) = [buffer |-> Rest(b, c), handled |-> <<>>, early |-> a]
  BY <1>1, <1>2
<1> QED
  BY <1>1, <1>3

\* One pass, if the later ones do well.
LEMMA PassReaches ==
    ASSUME Messages, NEW b, NEW d, Cut(b, d), NEW c \in 0..Len(b), NEW f,
           \A i \in (c + 1)..Len(b) : \A u \in f[i] : Good(Rest(b, i), d + i, u),
           NEW o \in Pass(f, b, c)
    PROVE  Good(Rest(b, c), d + c, o)
<1> DEFINE e == EndOfHeaders(b, c)
           m == b[c + 1].msg
           end == e + ContentLength(b, c)
<1>0. Len(b) \in Nat /\ d \in Nat
  BY DEF Cut
<1>1. \A i \in 0..Len(b) : Good(Rest(b, i), d + i, Left(b, i))
  <2> SUFFICES ASSUME NEW i \in 0..Len(b) PROVE Good(Rest(b, i), d + i, Left(b, i))
    OBVIOUS
  <2>1. Cut(Rest(b, i), d + i) /\ d + i \in Nat
    BY <1>0, RestFacts
  <2>2. Left(b, i) = [buffer |-> Rest(b, i), handled |-> <<>>, early |-> "no"]
    BY DEF Left, Rest
  <2> QED
    BY <2>1, <2>2, Stays DEF Good
<1>2. CASE o = Left(b, c)
  BY <1>1, <1>2
<1>6. CASE /\ e # 0 /\ Parsed(b, c) /\ messages[m] = "chunked" /\ ~LastChunkAfter(b, e)
           /\ o = AnalysedEarly(b, c)
  <2>1. m \in 1..MaxMessages /\ Unfinished(m, Rest(b, c), d + c)
    BY <1>6, EarlyIsUnfinished
  <2>2. PICK a : o = [buffer |-> Rest(b, c), handled |-> <<>>, early |-> a]
    BY <1>6, LeftFacts
  <2>3. Cut(Rest(b, c), d + c) /\ d + c \in Nat
    BY <1>0, RestFacts
  <2> HIDE DEF m
  <2>4. Reach(Rest(b, c), d + c, o, d + c)
    BY <2>1, <2>2, <2>3, Stays
  <2> QED
    BY <2>3, <2>4 DEF Good
<1>3. CASE e # 0 /\ ~Parsed(b, c) /\ o = Left(b, e)
  BY <1>3, Skips
<1>4. CASE /\ Able(b, c) /\ messages[m] = "chunked"
           /\ \E v \in {Left(Bitten(b, c), c), Left(Bitten(b, c), e)} :
                 o = [v EXCEPT !.handled = <<m>> \o @]
  BY <1>4, ChunkedReaches DEF Able
<1>5. CASE /\ Able(b, c) /\ messages[m] # "chunked"
           /\ \E v : /\ o = [v EXCEPT !.handled = <<m>> \o @]
                     /\ v \in f[end] \/ v = Left(b, end)
  <2>1. PICK v : /\ o = [v EXCEPT !.handled = <<m>> \o @]
                 /\ v \in f[end] \/ v = Left(b, end)
    BY <1>5
  <2>2. e # 0 /\ Parsed(b, c) /\ Whole(b, end)
    BY <1>5 DEF Able
  <2>3. end \in (c + 1)..Len(b) /\ end <= Len(b) /\ end \in 0..Len(b)
    BY <1>0, <2>2, EndFacts
  <2> HIDE DEF end
  <2>4. Good(Rest(b, end), d + end, v)
    BY <1>1, <2>1, <2>3
  <2> QED
    BY <1>5, <2>1, <2>2, <2>3, <2>4, PlainReaches DEF end
<1>7. \/ o = Left(b, c)
      \/ /\ e # 0 /\ Parsed(b, c) /\ messages[m] = "chunked" /\ ~LastChunkAfter(b, e)
         /\ o = AnalysedEarly(b, c)
      \/ e # 0 /\ ~Parsed(b, c) /\ o = Left(b, e)
      \/ /\ Able(b, c) /\ messages[m] = "chunked"
         /\ \E v \in {Left(Bitten(b, c), c), Left(Bitten(b, c), e)} :
               o = [v EXCEPT !.handled = <<m>> \o @]
      \/ /\ Able(b, c) /\ messages[m] # "chunked"
         /\ \E v : /\ o = [v EXCEPT !.handled = <<m>> \o @]
                   /\ v \in f[end] \/ v = Left(b, end)
  <2>1. e = EndOfHeaders(b, c) /\ m = b[c + 1].msg /\ end = e + ContentLength(b, c)
    OBVIOUS
  <2> HIDE DEF e, m, end
  <2> QED
    BY <2>1, PassOutcomes
<1> HIDE DEF e, m, end
<1> QED
  BY <1>2, <1>3, <1>4, <1>5, <1>6, <1>7

\* The whole loop.
LEMMA ParseReaches ==
    ASSUME Messages, NEW b, NEW d, Cut(b, d)
    PROVE  /\ \A c \in 0..Len(b) : \A u \in ParseFcn(b)[c] : Good(Rest(b, c), d + c, u)
           /\ \A o \in Parse(b) : Good(b, d, o)
<1>1. Len(b) \in Nat /\ d \in Nat
  BY DEF Cut
<1> DEFINE P(c) == \A u \in ParseFcn(b)[c] : Good(Rest(b, c), d + c, u)
           U == {n \in 0..Len(b) : ~P(Len(b) - n)}
<1>2. U = {}
  <2> SUFFICES ASSUME U # {} PROVE FALSE
    OBVIOUS
  <2>1. PICK n \in U : \A k \in U : n <= k
    <3>1. U \subseteq Nat
      BY <1>1
    <3> HIDE DEF U
    <3> QED
      BY <3>1, Least
  <2>2. n \in 0..Len(b) /\ ~P(Len(b) - n)
    OBVIOUS
  <2> DEFINE c == Len(b) - n
  <2>3. c \in 0..Len(b)
    BY <1>1, <2>2
  <2>4. ASSUME NEW i \in (c + 1)..Len(b) PROVE P(i)
    <3>1. Len(b) - i \in 0..Len(b) /\ ~(n <= Len(b) - i) /\ Len(b) - (Len(b) - i) = i
      BY <1>1, <2>2, <2>3
    <3>2. P(Len(b) - (Len(b) - i))
      BY <2>1, <3>1
    <3> HIDE DEF P
    <3> QED
      BY <3>1, <3>2
  <2>5. ParseFcn(b)[c] = Pass(ParseFcn(b), b, c)
    BY <1>1, <2>3, ParseFacts
  <2> HIDE DEF c
  <2>6. P(c)
    BY <2>3, <2>4, <2>5, PassReaches
  <2> QED
    BY <2>2, <2>6 DEF c
<1>3. ASSUME NEW c \in 0..Len(b) PROVE P(c)
  <2>1. Len(b) - c \in 0..Len(b) /\ Len(b) - (Len(b) - c) = c
    BY <1>1
  <2>2. Len(b) - c \notin U
    BY <1>2, Zenon
  <2> HIDE DEF P
  <2> QED
    BY <2>1, <2>2
<1>4. Rest(b, 0) = b /\ d + 0 = d
  <2>1. 0 \in 0..Len(b)
    BY <1>1
  <2> QED
    BY <1>1, <2>1, RestFacts
<1>5. Parse(b) = ParseFcn(b)[0] /\ 0 \in 0..Len(b)
  BY <1>1, ParseIs
<1> QED
  BY <1>3, <1>4, <1>5

\* What is analysed comes first in the history.
HasAnalysed(m, v, o) == o = [v EXCEPT !.handled = <<m>> \o @]

LEMMA AnalysedFacts ==
    ASSUME NEW m \in 1..MaxMessages, NEW v, v.handled \in Seq(1..MaxMessages),
           v = [buffer |-> v.buffer, handled |-> v.handled, early |-> v.early],
           NEW o, HasAnalysed(m, v, o)
    PROVE  /\ o.buffer = v.buffer /\ o.handled \in Seq(1..MaxMessages) /\ m \in ToSet(o.handled)
           /\ Len(o.handled) = Len(v.handled) + 1 /\ Len(v.handled) \in Nat
<1>1. PICK x, y, a : x = v.buffer /\ y = v.handled /\ a = v.early
  OBVIOUS
<1>2. v = [buffer |-> x, handled |-> y, early |-> a]
  BY <1>1, Zenon
<1>3. o = [[buffer |-> x, handled |-> y, early |-> a] EXCEPT !.handled = <<m>> \o y]
  BY <1>1, <1>2 DEF HasAnalysed
<1>4. o.handled = <<m>> \o y /\ o.buffer = x
  BY <1>3
<1>5. <<m>> \in Seq(1..MaxMessages) /\ Len(<<m>>) = 1 /\ <<m>>[1] = m /\ y \in Seq(1..MaxMessages)
  BY <1>1
<1>6. /\ <<m>> \o y \in Seq(1..MaxMessages) /\ Len(<<m>> \o y) = 1 + Len(y) /\ Len(y) \in Nat
      /\ (<<m>> \o y)[1] = m
  BY <1>5, ConcatProperties
<1>7. o.handled[1] = m /\ 1 \in DOMAIN o.handled
  BY <1>4, <1>6
<1>8. m \in ToSet(o.handled)
  BY <1>7 DEF ToSet
<1> QED
  BY <1>1, <1>4, <1>6, <1>8

\* A request that can be analysed is.
LEMMA AbleIsAnalysed ==
    ASSUME Messages, NEW b, NEW d, Cut(b, d), NEW c \in 0..Len(b), NEW f,
           \A i \in (c + 1)..Len(b) : \A u \in f[i] : Good(Rest(b, i), d + i, u),
           NEW o \in Pass(f, b, c), Able(b, c),
           NEW m, m = b[c + 1].msg
    PROVE  /\ m \in 1..MaxMessages
           /\ o.handled \in Seq(1..MaxMessages) /\ m \in ToSet(o.handled) /\ Len(o.handled) # 0
<1> DEFINE e == EndOfHeaders(b, c)
           end == e + ContentLength(b, c)
<1>0. Len(b) \in Nat
  BY DEF Cut
<1>1. m \in 1..MaxMessages
  BY ParsedFacts DEF Able
<1>2. PICK v : /\ o = [v EXCEPT !.handled = <<m>> \o @]
               /\ \/ v \in {Left(Bitten(b, c), c), Left(Bitten(b, c), e)}
                  \/ messages[m] # "chunked" /\ v \in f[end]
                  \/ v = Left(b, end)
  BY PassOutcomes
<1>3. v.handled \in Seq(1..MaxMessages) /\ v = [buffer |-> v.buffer, handled |-> v.handled, early |-> v.early]
  <2>1. CASE messages[m] # "chunked" /\ v \in f[end]
    <3>1. e # 0 /\ Whole(b, end)
      BY <2>1 DEF Able
    <3>2. end \in (c + 1)..Len(b)
      BY <1>0, <3>1, EndFacts
    <3>3. Good(Rest(b, end), d + end, v)
      BY <2>1, <3>2
    <3> QED
      BY <3>3 DEF Good, Reach
  <2>2. CASE v \in {Left(Bitten(b, c), c), Left(Bitten(b, c), e), Left(b, end)}
    <3>1. PICK x : v = [buffer |-> x, handled |-> <<>>, early |-> "no"]
      BY <2>2 DEF Left
    <3>2. v.handled = <<>> /\ v.buffer = x
      BY <3>1
    <3> QED
      BY <3>1, <3>2, EmptySeq
  <2> QED
    BY <1>2, <2>1, <2>2
<1>4. /\ o.handled \in Seq(1..MaxMessages) /\ m \in ToSet(o.handled)
      /\ Len(o.handled) = Len(v.handled) + 1 /\ Len(v.handled) \in Nat
  <2>1. m \in 1..MaxMessages /\ HasAnalysed(m, v, o)
    BY <1>1, <1>2 DEF HasAnalysed
  <2>2. v.handled \in Seq(1..MaxMessages) /\ v = [buffer |-> v.buffer, handled |-> v.handled, early |-> v.early]
    BY <1>3
  <2> QED
    BY <2>1, <2>2, AnalysedFacts
<1>5. Len(o.handled) # 0
  BY <1>4
<1> QED
  BY <1>1, <1>4, <1>5

\* Only behind a request that was all there is another analysed with a part of it.
LEMMA EarlyIsBehind ==
    ASSUME Messages, NEW b, NEW d, Cut(b, d), NEW o \in Parse(b), o.early # "no"
    PROVE  o.handled \in Seq(1..MaxMessages) /\ Len(o.handled) # 0
<1>1. Len(b) \in Nat /\ 0 \in 0..Len(b)
  BY DEF Cut
<1>2. o \in Pass(ParseFcn(b), b, 0)
  BY <1>1, ParseFacts
<1>3. \A i \in (0 + 1)..Len(b) : \A v \in ParseFcn(b)[i] : Good(Rest(b, i), d + i, v)
  <2>1. \A i \in (0 + 1)..Len(b) : i \in 0..Len(b)
    BY <1>1
  <2> QED
    BY <2>1, ParseReaches
<1>4. CASE Able(b, 0)
  BY <1>1, <1>2, <1>3, <1>4, AbleIsAnalysed
<1>5. CASE ~Able(b, 0)
  <2>1. \A c : Left(b, c).early = "no"
    BY DEF Left
  <2>2. ~HaveAllContent(0)
    BY DEF HaveAllContent
  <2>3. \/ o = Left(b, 0) \/ o = Left(b, EndOfHeaders(b, 0))
        \/ HaveAllContent(0)
    <3>1. PICK e, m, end : /\ e = EndOfHeaders(b, 0) /\ m = b[0 + 1].msg
                           /\ end = e + ContentLength(b, 0)
      OBVIOUS
    <3> QED
      BY <1>2, <1>5, <3>1, PassOutcomes
  <2> QED
    BY <2>1, <2>2, <2>3
<1> QED
  BY <1>4, <1>5

-----------------------------------------------------------------------------
(* The steps.                                                                *)

\* The stream is what the client sends, whatever happens.
LEMMA SameStream ==
    ASSUME messages' = messages
    PROVE  /\ Stream' = Stream
           /\ \A m : EndOf(m)' = EndOf(m)
           /\ \A m : Spoiled(m)' <=> Spoiled(m)
<1>1. Stream' = Stream
  BY DEF Stream, Upto, Units
<1>2. \A m : EndOf(m)' = EndOf(m)
  BY DEF EndOf, Upto, Units
<1>3. \A m : Spoiled(m)' <=> Spoiled(m)
  BY DEF Spoiled
<1> QED
  BY <1>1, <1>2, <1>3

\* A request was begun iff it begins before the mark.
LEMMA BegunIsBeforeMark ==
    ASSUME Messages, NEW b, NEW d \in Nat, NEW m \in 1..MaxMessages
    PROVE  Begun(m, b, d) <=> EndOf(m - 1) < Mark(b, d)
<1>1. EndOf(m - 1) \in Nat
  BY RequestFacts
<1> QED
  BY <1>1 DEF Begun, Mark

\* The invariant, for what the buffer and its place will be.
LEMMA NextIInv ==
    ASSUME Messages, messages' = messages, NEW x, NEW q \in Nat, Cut(x, q),
           buffer' = x, arrived' = q + Len(x), arrived' <= Len(Stream), Len(x) <= BufferMax,
           handled' \in Seq(1..MaxMessages), dropped' \in BOOLEAN,
           Increasing(handled'),
           \A i \in 1..Len(handled') : EndOf(handled'[i] - 1) < Mark(x, q),
           dropped' \/ /\ Position(x, q)
                       /\ \A m \in 1..MaxMessages :
                             EndOf(m - 1) < Mark(x, q) => m \in ToSet(handled') \/ Spoiled(m),
           early' \in Seq(1..MaxMessages), endless' \in BOOLEAN,
           Increasing(early'), \A i \in 1..Len(early') : Reached(early'[i], q)
    PROVE  IInv'
<1>1. x \in Seq(Unit) /\ Len(x) \in Nat
  BY DEF Cut
<1>2. Consumed' = q /\ Len(buffer') <= arrived' /\ arrived' \in Nat
  BY <1>1 DEF Consumed
<1>3. Len(Stream) \in Nat
  BY StreamFacts
<1>4. TypeOK'
  <2>1. arrived' \in 0..Len(Stream')
    BY <1>2, <1>3, SameStream
  <2> QED
    BY <1>1, <2>1 DEF TypeOK, Messages
<1>5. Cut(buffer, Consumed)'
  BY <1>1, <1>2, SameStream DEF Cut
<1>6. Stub(buffer)' <=> Stub(x)
  BY DEF Stub
<1>7. \A m \in 1..MaxMessages : Begun(m, buffer, Consumed)' <=> EndOf(m - 1) < Mark(x, q)
  <2> SUFFICES ASSUME NEW m \in 1..MaxMessages
               PROVE  Begun(m, buffer, Consumed)' <=> EndOf(m - 1) < Mark(x, q)
    OBVIOUS
  <2>1. Begun(m, x, q) <=> EndOf(m - 1) < Mark(x, q)
    BY BegunIsBeforeMark
  <2>2. EndOf(m - 1)' = EndOf(m - 1)
    BY SameStream
  <2>3. Begun(m, buffer, Consumed)' <=> Begun(m, x, q)
    BY <1>2, <1>6, <2>2 DEF Begun
  <2> QED
    BY <2>1, <2>3
<1>8. Increasing(handled)'
  BY DEF Increasing
<1>9. \A i \in 1..Len(handled') : Begun(handled[i], buffer, Consumed)'
  <2> SUFFICES ASSUME NEW i \in 1..Len(handled') PROVE Begun(handled[i], buffer, Consumed)'
    OBVIOUS
  <2>1. PICK m \in 1..MaxMessages : m = handled'[i]
    BY ElementOfSeq
  <2>2. EndOf(m - 1) < Mark(x, q)
    BY <2>1
  <2>3. Begun(m, buffer, Consumed)'
    BY <1>7, <2>2
  <2> QED
    BY <2>1, <2>3 DEF Begun, EndOf, Upto, Units
<1>10. Position(x, q) => Position(buffer, Consumed)'
  BY <1>2, <1>6, SameStream DEF Position
<1>11. (dropped \/ /\ Position(buffer, Consumed)
                   /\ \A m \in 1..MaxMessages :
                         Begun(m, buffer, Consumed) => m \in ToSet(handled) \/ Spoiled(m))'
  <2>1. \A m \in 1..MaxMessages : Spoiled(m)' <=> Spoiled(m)
    BY SameStream
  <2> QED
    BY <1>7, <1>10, <2>1 DEF ToSet
<1>12. Increasing(early)' /\ \A i \in 1..Len(early') : Reached(early[i], Consumed)'
  <2> SUFFICES ASSUME NEW i \in 1..Len(early') PROVE Reached(early[i], Consumed)'
    BY DEF Increasing
  <2>1. PICK m \in 1..MaxMessages : m = early'[i]
    BY ElementOfSeq
  <2>2. Reached(m, q)
    BY <2>1
  <2>3. EndOf(m - 1)' = EndOf(m - 1)
    BY SameStream
  <2>4. Reached(m, Consumed)'
    BY <1>2, <2>2, <2>3 DEF Reached
  <2> QED
    BY <2>1, <2>4 DEF Reached, EndOf, Upto, Units
<1> QED
  BY <1>2, <1>4, <1>5, <1>8, <1>9, <1>11, <1>12 DEF IInv

\* The invariant holds of an empty buffer.
LEMMA InitIInv == Init => IInv
<1> SUFFICES ASSUME Init PROVE IInv
  OBVIOUS
<1>1. /\ Messages /\ arrived = 0 /\ buffer = <<>> /\ handled = <<>> /\ dropped = FALSE
      /\ Len(buffer) = 0 /\ Len(handled) = 0
      /\ early = <<>> /\ Len(early) = 0 /\ endless = FALSE
  BY DEF Init, Messages
<1>2. Stream \in Seq(Unit) /\ Len(Stream) \in Nat /\ EndOf(0) = 0
  BY <1>1, StreamFacts
<1>3. TypeOK
  <2>1. arrived \in 0..Len(Stream)
    BY <1>1, <1>2
  <2>2. buffer \in Seq(Unit) /\ Len(buffer) <= BufferMax
    BY <1>1, SizeAssumption
  <2>3. handled \in Seq(1..MaxMessages) /\ early \in Seq(1..MaxMessages)
    BY <1>1, EmptySeq
  <2>4. dropped \in BOOLEAN /\ endless \in BOOLEAN
    BY <1>1
  <2> QED
    BY <1>1, <2>1, <2>2, <2>3, <2>4 DEF TypeOK, Messages
<1>4. Consumed = 0 /\ ~Stub(buffer)
  <2>1. ~Stub(buffer)
    BY <1>1 DEF Stub
  <2>2. arrived = 0 /\ Len(buffer) = 0
    BY <1>1
  <2> QED
    BY <2>1, <2>2 DEF Consumed
<1>5. Cut(buffer, Consumed)
  BY <1>1, <1>2, <1>4 DEF Cut
<1>6. Position(buffer, Consumed)
  <2>1. 0 \in 0..MaxMessages
    BY SizeAssumption
  <2> QED
    BY <1>2, <1>4, <2>1 DEF Position
<1>7. ASSUME NEW m \in 1..MaxMessages PROVE ~Begun(m, buffer, Consumed)
  <2>1. EndOf(m - 1) \in Nat
    BY <1>1, RequestFacts
  <2> QED
    BY <1>4, <2>1 DEF Begun
<1>8. Increasing(handled) /\ 1..Len(handled) = {} /\ Increasing(early) /\ 1..Len(early) = {}
  BY <1>1 DEF Increasing
<1> QED
  BY <1>1, <1>3, <1>5, <1>6, <1>7, <1>8 DEF IInv

\* What arrives is cut where the buffer ends.
LEMMA ArrivingFacts ==
    ASSUME IInv, NEW n \in Nat, arrived + n <= Len(Stream), NEW b, b = buffer \o Arriving(n)
    PROVE  /\ Messages /\ Consumed \in Nat /\ Consumed + Len(buffer) = arrived
           /\ Len(b) = Len(buffer) + n /\ Len(buffer) \in Nat /\ arrived \in Nat
           /\ \A i \in 1..Len(buffer) : b[i] = buffer[i]
           /\ Cut(b, Consumed) /\ (n # 0 => (Stub(b) <=> Stub(buffer)))
           /\ n # 0 /\ Position(buffer, Consumed) => Position(b, Consumed)
<1>1. /\ Messages /\ buffer \in Seq(Unit) /\ Len(buffer) \in Nat /\ arrived \in Nat
      /\ Len(buffer) <= arrived
  BY DEF IInv, TypeOK, Messages
<1>2. Consumed \in Nat /\ Consumed + Len(buffer) = arrived
  BY <1>1 DEF Consumed
<1>3. Stream \in Seq(Unit) /\ Len(Stream) \in Nat
  BY <1>1, StreamFacts
<1>4. /\ Arriving(n) \in Seq(Unit) /\ Len(Arriving(n)) = n
      /\ \A i \in 1..n : Arriving(n)[i] = Stream[arrived + i]
  <2>1. /\ arrived + 1 \in 1..(Len(Stream) + 1) /\ arrived + n \in ((arrived + 1) - 1)..Len(Stream)
    BY <1>1, <1>3
  <2>2. /\ Arriving(n) \in Seq(Unit)
        /\ Len(Arriving(n)) = IF arrived + 1 <= arrived + n THEN (arrived + n) - (arrived + 1) + 1 ELSE 0
        /\ \A i \in 1..((arrived + n) - (arrived + 1) + 1) : Arriving(n)[i] = Stream[(arrived + 1) + i - 1]
    <3> DEFINE s == Stream
               j == arrived + 1
               k == arrived + n
    <3>1. j \in Int /\ k \in Int /\ \A i \in j..k : s[i] \in Unit
      BY <1>1, <1>3, <2>1
    <3>2. Arriving(n) = SubSeq(s, j, k)
      BY DEF Arriving
    <3> HIDE DEF s, j, k
    <3>3. /\ SubSeq(s, j, k) \in Seq(Unit)
          /\ Len(SubSeq(s, j, k)) = IF j <= k THEN k - j + 1 ELSE 0
          /\ \A i \in 1..(k - j + 1) : SubSeq(s, j, k)[i] = s[j + i - 1]
      BY <3>1, SubSeqProperties
    <3> QED
      BY <3>2, <3>3 DEF s, j, k
  <2>3. Len(Arriving(n)) = n
    BY <1>1, <2>2
  <2>4. ASSUME NEW i \in 1..n PROVE Arriving(n)[i] = Stream[arrived + i]
    <3>1. i \in 1..((arrived + n) - (arrived + 1) + 1) /\ (arrived + 1) + i - 1 = arrived + i
      BY <1>1
    <3> QED
      BY <2>2, <3>1
  <2> QED
    BY <2>2, <2>3, <2>4
<1>5. /\ b \in Seq(Unit) /\ Len(b) = Len(buffer) + n
      /\ \A i \in 1..Len(b) : b[i] = IF i <= Len(buffer) THEN buffer[i] ELSE Arriving(n)[i - Len(buffer)]
  BY <1>1, <1>4, ConcatProperties
<1>6. \A i \in 1..Len(buffer) : b[i] = buffer[i]
  BY <1>1, <1>5
<1>7. Cut(buffer, Consumed)
  BY DEF IInv
<1>8. ASSUME NEW i \in (Len(buffer) + 1)..Len(b) PROVE b[i] = Stream[Consumed + i]
  <2>1. i \in 1..Len(b) /\ ~(i <= Len(buffer)) /\ i - Len(buffer) \in 1..n
    BY <1>1, <1>5
  <2>2. arrived + (i - Len(buffer)) = Consumed + i
    <3>1. i \in Nat /\ arrived \in Nat /\ Len(buffer) \in Nat /\ Consumed = arrived - Len(buffer)
      BY <1>1 DEF Consumed
    <3>2. arrived + (i - Len(buffer)) = (arrived - Len(buffer)) + i
      BY <3>1
    <3> QED
      BY <3>1, <3>2, Zenon
  <2>3. b[i] = Arriving(n)[i - Len(buffer)]
    BY <1>5, <2>1
  <2>4. Arriving(n)[i - Len(buffer)] = Stream[arrived + (i - Len(buffer))]
    BY <1>4, <2>1
  <2> QED
    BY <2>2, <2>3, <2>4
<1>9. Cut(b, Consumed)
  <2>1. Consumed + Len(b) <= Len(Stream)
    BY <1>1, <1>2, <1>5
  <2>2. ASSUME NEW i \in 1..Len(b)
        PROVE  \/ b[i] = Stream[Consumed + i]
               \/ /\ i = 1 /\ Stream[Consumed + 1].part = "head"
                  /\ b[1] = [msg |-> Stream[Consumed + 1].msg, part |-> "stub"]
    <3>1. i \in 1..Len(buffer) \/ i \in (Len(buffer) + 1)..Len(b)
      BY <1>1, <1>5
    <3>2. CASE i \in 1..Len(buffer)
      BY <1>6, <1>7, <3>2 DEF Cut
    <3> QED
      BY <1>8, <3>1, <3>2
  <2> QED
    BY <1>2, <1>5, <2>1, <2>2 DEF Cut
<1>10. n # 0 => (Stub(b) <=> Stub(buffer))
  <2> SUFFICES ASSUME n # 0 PROVE Stub(b) <=> Stub(buffer)
    OBVIOUS
  <2>1. CASE Len(buffer) = 0
    <3>1. 1 \in (Len(buffer) + 1)..Len(b) /\ ~Stub(buffer)
      BY <1>1, <1>5, <2>1 DEF Stub
    <3>2. Consumed + 1 \in 1..Len(Stream)
      BY <1>2, <1>9, <3>1, <1>3, <1>5, <1>1 DEF Cut
    <3>3. b[1].part # "stub"
      BY <1>1, <1>8, <3>1, <3>2, PartFacts
    <3> QED
      BY <3>1, <3>3 DEF Stub
  <2>2. CASE Len(buffer) # 0
    <3>1. 1 \in 1..Len(buffer) /\ buffer # <<>> /\ b # <<>>
      BY <1>1, <1>5, <2>2
    <3> QED
      BY <1>6, <3>1 DEF Stub
  <2> QED
    BY <2>1, <2>2
<1>11. ASSUME n # 0, Position(buffer, Consumed) PROVE Position(b, Consumed)
  <2>1. \A m \in 1..MaxMessages : EndOf(m) \in Nat /\ EndOf(m - 1) \in Nat
    BY <1>1, RequestFacts
  <2>2. \A k \in Nat, l \in Nat : k <= l + Len(buffer) => k <= l + Len(b)
    BY <1>1, <1>5
  <2>3. \A m \in 1..MaxMessages : EndOf(m) <= Consumed + Len(buffer) => EndOf(m) <= Consumed + Len(b)
    BY <1>2, <2>1, <2>2
  <2> QED
    BY <1>10, <1>11, <2>3 DEF Position
<1> QED
  BY <1>1, <1>2, <1>5, <1>6, <1>9, <1>10, <1>11

\* What the loop got to, it got to.
LEMMA LaterIsReached ==
    ASSUME Messages, NEW h \in Seq(1..MaxMessages), NEW d \in Nat, NEW q \in Nat, d <= q,
           \A i \in 1..Len(h) : Reached(h[i], d)
    PROVE  \A i \in 1..Len(h) : Reached(h[i], q)
<1> SUFFICES ASSUME NEW i \in 1..Len(h) PROVE Reached(h[i], q)
  OBVIOUS
<1>1. PICK m \in 1..MaxMessages : m = h[i]
  BY ElementOfSeq
<1>2. EndOf(m - 1) \in Nat
  BY RequestFacts
<1> QED
  BY <1>1, <1>2 DEF Reached

\* A request that the loop gets to later is a later one.
LEMMA AnotherReached ==
    ASSUME Messages, NEW h \in Seq(1..MaxMessages), NEW d \in Nat, NEW q \in Nat, d < q,
           Increasing(h), \A i \in 1..Len(h) : Reached(h[i], d),
           NEW m \in 1..MaxMessages, q = EndOf(m - 1), Reached(m, q),
           NEW g, g = Append(h, m)
    PROVE  /\ g \in Seq(1..MaxMessages) /\ Increasing(g)
           /\ \A i \in 1..Len(g) : Reached(g[i], q)
<1>1. /\ g \in Seq(1..MaxMessages) /\ Len(g) = Len(h) + 1 /\ Len(h) \in Nat
      /\ g[Len(h) + 1] = m /\ \A i \in 1..Len(h) : g[i] = h[i]
  OBVIOUS
<1>2. \A i \in 1..Len(h) : Reached(h[i], q)
  BY LaterIsReached
<1>3. ASSUME NEW i \in 1..Len(h) PROVE h[i] < m
  <2>1. PICK u \in 1..MaxMessages : u = h[i]
    BY ElementOfSeq
  <2>2. EndOf(u - 1) \in Nat /\ EndOf(u - 1) <= d /\ (EndOf(u - 1) < EndOf(m - 1) => u < m)
    BY <2>1, BeginFacts DEF Reached
  <2> QED
    BY <2>1, <2>2
<1>4. \A i \in 1..Len(g) : i \in 1..Len(h) \/ i = Len(h) + 1
  BY <1>1
<1>5. Increasing(g)
  <2> SUFFICES ASSUME NEW i \in 1..Len(g), NEW j \in 1..Len(g), i < j PROVE g[i] < g[j]
    BY DEF Increasing
  <2>1. i \in 1..Len(h) /\ g[i] = h[i]
    BY <1>1
  <2>2. CASE j = Len(h) + 1
    BY <1>1, <1>3, <2>1, <2>2
  <2>3. CASE j \in 1..Len(h)
    BY <1>1, <2>1, <2>3 DEF Increasing
  <2> QED
    BY <1>4, <2>2, <2>3
<1> QED
  BY <1>1, <1>2, <1>4, <1>5

\* onData keeps it: the outcome of the loop is Good from where the buffer began.
LEMMA DataIInv ==
    ASSUME IInv, NEW n \in 1..(4 * MaxMessages), Data(n)
    PROVE  IInv'
<1> DEFINE b == buffer \o Arriving(n)
           d == Consumed
           k == Mark(b, d)
<1>1. /\ n \in Nat /\ n # 0 /\ arrived + n <= Len(Stream) /\ Len(buffer) + n <= BufferMax
      /\ arrived' = arrived + n /\ messages' = messages /\ dropped' = dropped
  BY SizeAssumption DEF Data
<1>2. PICK o \in Parse(b) :
         /\ buffer' = o.buffer /\ handled' = handled \o o.handled
         /\ early' = IF o.early = "no" THEN early ELSE Append(early, o.buffer[1].msg)
         /\ endless' = (o.early = "endless")
  BY DEF Data
<1>3. /\ Messages /\ d \in Nat /\ d + Len(buffer) = arrived
      /\ Len(b) = Len(buffer) + n /\ Len(buffer) \in Nat /\ arrived \in Nat
      /\ Cut(b, d) /\ (Stub(b) <=> Stub(buffer))
      /\ Position(buffer, d) => Position(b, d)
  BY <1>1, ArrivingFacts
<1>4. Good(b, d, o)
  BY <1>2, <1>3, ParseReaches
<1>5. PICK q \in Nat : Reach(b, d, o, q)
  BY <1>4 DEF Good
<1> HIDE DEF b, d
<1> DEFINE x == o.buffer
           l == Mark(x, q)
           h == o.handled
<1>6. /\ d <= q /\ q + Len(x) = d + Len(b) /\ k <= l /\ Cut(x, q)
      /\ h \in Seq(1..MaxMessages) /\ Increasing(h)
      /\ \A i \in 1..Len(h) : k <= EndOf(h[i] - 1) /\ EndOf(h[i] - 1) < l
      /\ Position(b, d) =>
            /\ Position(x, q)
            /\ \A m \in 1..MaxMessages :
                  k <= EndOf(m - 1) /\ EndOf(m - 1) < l => m \in ToSet(h) \/ Spoiled(m)
      /\ o.early = "no" \/ \E m \in 1..MaxMessages : Unfinished(m, x, q)
  BY <1>5 DEF Reach
<1>19. o.early # "no" => Len(h) # 0 /\ h \in Seq(1..MaxMessages)
  BY <1>2, <1>3, EarlyIsBehind DEF b, d
<1>7. k \in Nat /\ l \in Nat /\ k = Mark(buffer, d)
  BY <1>3 DEF Mark
<1>8. Len(x) \in Nat /\ arrived' = q + Len(x) /\ Len(x) <= BufferMax
  <2>1. Len(x) \in Nat
    BY <1>6 DEF Cut
  <2>2. d + Len(b) = arrived + n /\ Len(b) <= BufferMax
    BY <1>1, <1>3
  <2> HIDE DEF x
  <2> QED
    BY <1>1, <1>3, <1>6, <2>1, <2>2, SizeAssumption
<1>9. /\ handled \in Seq(1..MaxMessages) /\ Increasing(handled) /\ dropped \in BOOLEAN
      /\ \A i \in 1..Len(handled) : Begun(handled[i], buffer, d)
      /\ dropped \/ /\ Position(buffer, d)
                    /\ \A m \in 1..MaxMessages :
                          Begun(m, buffer, d) => m \in ToSet(handled) \/ Spoiled(m)
      /\ early \in Seq(1..MaxMessages) /\ Increasing(early)
      /\ \A i \in 1..Len(early) : Reached(early[i], d)
  BY DEF IInv, TypeOK, d
<1> HIDE DEF k, l, h, x
<1>10. \A i \in 1..Len(handled) : handled[i] \in 1..MaxMessages /\ EndOf(handled[i] - 1) < k
  <2> SUFFICES ASSUME NEW i \in 1..Len(handled)
               PROVE  handled[i] \in 1..MaxMessages /\ EndOf(handled[i] - 1) < k
    OBVIOUS
  <2>1. handled[i] \in 1..MaxMessages
    BY <1>9, ElementOfSeq
  <2>2. Begun(handled[i], buffer, d)
    BY <1>9
  <2> QED
    BY <1>3, <1>7, <2>1, <2>2, BegunIsBeforeMark
<1>11. \A i \in 1..Len(h) : h[i] \in 1..MaxMessages
  BY <1>6, ElementOfSeq
<1>12. /\ handled' \in Seq(1..MaxMessages) /\ Len(handled') = Len(handled) + Len(h)
       /\ Len(handled) \in Nat /\ Len(h) \in Nat
       /\ \A i \in 1..Len(handled') :
             handled'[i] = IF i <= Len(handled) THEN handled[i] ELSE h[i - Len(handled)]
  <2>1. handled' = handled \o h
    BY <1>2 DEF h
  <2> QED
    BY <1>6, <1>9, <2>1, ConcatProperties
<1>13. \A i \in 1..Len(handled') :
          \/ i \in 1..Len(handled) /\ handled'[i] = handled[i]
          \/ /\ i > Len(handled) /\ i - Len(handled) \in 1..Len(h)
             /\ handled'[i] = h[i - Len(handled)]
  BY <1>12
<1>14. Increasing(handled')
  <2> SUFFICES ASSUME NEW i \in 1..Len(handled'), NEW j \in 1..Len(handled'), i < j
               PROVE  handled'[i] < handled'[j]
    BY DEF Increasing
  <2>1. CASE j \in 1..Len(handled) /\ handled'[j] = handled[j]
    <3>1. i \in 1..Len(handled) /\ handled'[i] = handled[i]
      BY <1>12, <2>1
    <3> QED
      BY <1>9, <2>1, <3>1 DEF Increasing
  <2>2. CASE /\ i \in 1..Len(handled) /\ handled'[i] = handled[i]
             /\ j - Len(handled) \in 1..Len(h) /\ handled'[j] = h[j - Len(handled)]
    <3>1. PICK u \in 1..MaxMessages : u = handled[i] /\ EndOf(u - 1) < k
      BY <1>10, <2>2
    <3>2. PICK v \in 1..MaxMessages : v = h[j - Len(handled)] /\ k <= EndOf(v - 1)
      BY <1>6, <1>11, <2>2
    <3>3. EndOf(u - 1) \in Nat /\ EndOf(v - 1) \in Nat /\ (EndOf(u - 1) < EndOf(v - 1) => u < v)
      BY <1>3, BeginFacts
    <3>4. u < v
      BY <1>7, <3>1, <3>2, <3>3
    <3> QED
      BY <2>2, <3>1, <3>2, <3>4
  <2>3. CASE /\ i > Len(handled) /\ i - Len(handled) \in 1..Len(h)
             /\ handled'[i] = h[i - Len(handled)]
             /\ j - Len(handled) \in 1..Len(h) /\ handled'[j] = h[j - Len(handled)]
    <3>1. i - Len(handled) < j - Len(handled)
      BY <1>12
    <3> QED
      BY <1>6, <2>3, <3>1 DEF Increasing
  <2> QED
    BY <1>13, <2>1, <2>2, <2>3
<1>15. ASSUME NEW i \in 1..Len(handled') PROVE EndOf(handled'[i] - 1) < l
  <2>1. CASE i \in 1..Len(handled) /\ handled'[i] = handled[i]
    <3>1. PICK u \in 1..MaxMessages : u = handled[i] /\ EndOf(u - 1) < k
      BY <1>10, <2>1
    <3>2. EndOf(u - 1) \in Nat
      BY <1>3, BeginFacts
    <3>3. EndOf(u - 1) < l
      BY <1>6, <1>7, <3>1, <3>2
    <3> QED
      BY <2>1, <3>1, <3>3
  <2>2. CASE i - Len(handled) \in 1..Len(h) /\ handled'[i] = h[i - Len(handled)]
    BY <1>6, <2>2
  <2> QED
    BY <1>13, <2>1, <2>2
<1>16. ToSet(handled) \subseteq ToSet(handled') /\ ToSet(h) \subseteq ToSet(handled')
  <2>1. \A i \in 1..Len(handled) : i \in 1..Len(handled') /\ handled'[i] = handled[i]
    BY <1>12
  <2>2. \A i \in 1..Len(h) : /\ i + Len(handled) \in 1..Len(handled')
                             /\ handled'[i + Len(handled)] = h[i]
    BY <1>12
  <2>3. DOMAIN handled = 1..Len(handled) /\ DOMAIN h = 1..Len(h) /\ DOMAIN handled' = 1..Len(handled')
    BY <1>6, <1>9, <1>12
  <2>4. ToSet(handled) \subseteq ToSet(handled')
    BY <2>1, <2>3 DEF ToSet
  <2>5. ToSet(h) \subseteq ToSet(handled')
    BY <2>2, <2>3 DEF ToSet
  <2> QED
    BY <2>4, <2>5
<1>17. dropped' \/ /\ Position(x, q)
                   /\ \A m \in 1..MaxMessages :
                         EndOf(m - 1) < l => m \in ToSet(handled') \/ Spoiled(m)
  <2> SUFFICES ASSUME ~dropped'
               PROVE  /\ Position(x, q)
                      /\ \A m \in 1..MaxMessages :
                            EndOf(m - 1) < l => m \in ToSet(handled') \/ Spoiled(m)
    OBVIOUS
  <2>1. /\ Position(b, d)
        /\ \A m \in 1..MaxMessages : Begun(m, buffer, d) => m \in ToSet(handled) \/ Spoiled(m)
    BY <1>1, <1>3, <1>9
  <2>2. ASSUME NEW m \in 1..MaxMessages, EndOf(m - 1) < l
        PROVE  m \in ToSet(handled') \/ Spoiled(m)
    <3>1. EndOf(m - 1) \in Nat
      BY <1>3, RequestFacts
    <3>2. CASE EndOf(m - 1) < k
      <4>1. Begun(m, buffer, d)
        BY <1>3, <1>7, <3>2, BegunIsBeforeMark
      <4> QED
        BY <1>16, <2>1, <4>1
    <3>3. CASE k <= EndOf(m - 1)
      BY <1>6, <1>16, <2>1, <2>2, <3>3
    <3> QED
      BY <1>7, <3>1, <3>2, <3>3
  <2> QED
    BY <1>6, <2>1, <2>2
<1>18. arrived' <= Len(Stream)
  BY <1>1
<1>20. /\ early' \in Seq(1..MaxMessages) /\ Increasing(early')
       /\ \A i \in 1..Len(early') : Reached(early'[i], q)
  <2>1. CASE o.early = "no"
    <3>1. early' = early
      BY <1>2, <2>1
    <3>2. \A i \in 1..Len(early) : Reached(early[i], q)
      BY <1>3, <1>6, <1>9, LaterIsReached
    <3> QED
      BY <1>9, <3>1, <3>2
  <2>2. CASE o.early # "no"
    <3>1. PICK m \in 1..MaxMessages : Unfinished(m, x, q)
      BY <1>6, <2>2
    <3>2. early' = Append(early, m) /\ l = q /\ q = EndOf(m - 1) /\ messages[m] = "chunked"
      <4>1. x[1] = [msg |-> m, part |-> "head"]
        BY <3>1 DEF Unfinished
      <4>2. x[1].msg = m /\ x[1].part # "stub" /\ o.buffer[1].msg = m
        BY <4>1 DEF x
      <4>3. l = q
        BY <4>2 DEF l, Mark, Stub
      <4>4. early' = Append(early, o.buffer[1].msg)
        BY <1>2, <2>2
      <4>5. q = EndOf(m - 1) /\ messages[m] = "chunked"
        BY <3>1 DEF Unfinished
      <4> QED
        BY <4>2, <4>3, <4>4, <4>5, Zenon
    <3>3. d < q
      <4>1. 1 \in 1..Len(h) /\ h[1] \in 1..MaxMessages
        BY <1>11, <1>19, <2>2
      <4>2. PICK u \in 1..MaxMessages : u = h[1]
        BY <4>1
      <4>3. k <= EndOf(u - 1) /\ EndOf(u - 1) < l
        BY <1>6, <4>1, <4>2
      <4>4. EndOf(u - 1) \in Nat
        BY <1>3, RequestFacts
      <4>5. d <= k
        BY <1>3 DEF k, Mark
      <4> QED
        BY <1>3, <1>7, <3>2, <4>3, <4>4, <4>5
    <3>4. Reached(m, q)
      BY <3>2 DEF Reached
    <3> QED
      BY <1>3, <1>9, <3>2, <3>3, <3>4, AnotherReached
  <2> QED
    BY <2>1, <2>2
<1>21. endless' \in BOOLEAN
  BY <1>2
<1> QED
  BY <1>1, <1>2, <1>3, <1>6, <1>8, <1>9, <1>12, <1>14, <1>15, <1>17, <1>18, <1>20, <1>21, NextIInv
  DEF x, l

\* So does a buffer that is emptied, after which nothing is promised but order.
LEMMA OverflowIInv ==
    ASSUME IInv, NEW n \in 1..(4 * MaxMessages), Overflow(n)
    PROVE  IInv'
<1>1. /\ n \in Nat /\ n # 0 /\ arrived + n <= Len(Stream)
      /\ arrived' = arrived + n /\ messages' = messages /\ handled' = handled
      /\ buffer' = <<>> /\ dropped' = TRUE /\ early' = early /\ endless' = endless
  BY SizeAssumption DEF Overflow, CleanupData
<1>2. /\ Messages /\ Consumed \in Nat /\ Consumed + Len(buffer) = arrived
      /\ Len(buffer) \in Nat /\ arrived \in Nat
  BY <1>1, ArrivingFacts
<1>3. /\ handled \in Seq(1..MaxMessages) /\ Increasing(handled)
      /\ \A i \in 1..Len(handled) : Begun(handled[i], buffer, Consumed)
      /\ early \in Seq(1..MaxMessages) /\ Increasing(early) /\ endless \in BOOLEAN
      /\ \A i \in 1..Len(early) : Reached(early[i], Consumed)
  BY DEF IInv, TypeOK
<1>4. PICK q \in Nat : q = arrived + n
  BY <1>1, <1>2
<1>5. <<>> \in Seq(Unit) /\ Len(<<>>) = 0 /\ ~Stub(<<>>)
  BY DEF Stub
<1>6. Cut(<<>>, q) /\ Mark(<<>>, q) = q
  BY <1>1, <1>4, <1>5 DEF Cut, Mark
<1>7. Mark(buffer, Consumed) <= arrived
  <2>1. CASE Stub(buffer)
    <3>1. buffer # <<>> /\ buffer \in Seq(Unit)
      BY <2>1 DEF Stub, IInv, TypeOK
    <3>2. Len(buffer) # 0
      BY <3>1
    <3> QED
      BY <1>2, <2>1, <3>2 DEF Mark
  <2>2. CASE ~Stub(buffer)
    BY <1>2, <2>2 DEF Mark
  <2> QED
    BY <2>1, <2>2
<1>8. ASSUME NEW i \in 1..Len(handled) PROVE EndOf(handled[i] - 1) < q
  <2>1. PICK m \in 1..MaxMessages : m = handled[i]
    BY <1>3, ElementOfSeq
  <2>2. EndOf(m - 1) < Mark(buffer, Consumed)
    BY <1>2, <1>3, <2>1, BegunIsBeforeMark
  <2>3. EndOf(m - 1) \in Nat /\ Mark(buffer, Consumed) \in Nat
    <3>1. EndOf(m - 1) \in Nat
      BY <1>2, RequestFacts
    <3> QED
      BY <1>2, <3>1 DEF Mark
  <2>4. EndOf(m - 1) < q
    BY <1>1, <1>2, <1>4, <1>7, <2>2, <2>3
  <2> QED
    BY <2>1, <2>4
<1>9. arrived' = q + Len(<<>>) /\ arrived' <= Len(Stream) /\ Len(<<>>) <= BufferMax
  BY <1>1, <1>4, <1>5, SizeAssumption
<1>10. \A i \in 1..Len(early) : Reached(early[i], q)
  <2>1. Consumed <= q
    BY <1>2, <1>4
  <2> QED
    BY <1>2, <1>3, <2>1, LaterIsReached
<1> QED
  BY <1>1, <1>2, <1>3, <1>6, <1>8, <1>9, <1>10, NextIInv

\* And so does a step that changes nothing.
LEMMA StutterIInv == IInv /\ UNCHANGED vars => IInv'
<1> SUFFICES ASSUME IInv, UNCHANGED vars PROVE IInv'
  OBVIOUS
<1>1. /\ messages' = messages /\ arrived' = arrived /\ buffer' = buffer
      /\ handled' = handled /\ dropped' = dropped /\ early' = early /\ endless' = endless
  BY DEF vars
<1>2. /\ Messages /\ arrived <= Len(Stream) /\ Len(buffer) <= BufferMax
      /\ handled \in Seq(1..MaxMessages) /\ dropped \in BOOLEAN
      /\ Cut(buffer, Consumed) /\ Increasing(handled)
      /\ \A i \in 1..Len(handled) : Begun(handled[i], buffer, Consumed)
      /\ dropped \/ /\ Position(buffer, Consumed)
                    /\ \A m \in 1..MaxMessages :
                          Begun(m, buffer, Consumed) => m \in ToSet(handled) \/ Spoiled(m)
      /\ early \in Seq(1..MaxMessages) /\ endless \in BOOLEAN /\ Increasing(early)
      /\ \A i \in 1..Len(early) : Reached(early[i], Consumed)
  <2>1. TypeOK /\ Messages
    BY DEF IInv, TypeOK, Messages
  <2>2. arrived <= Len(Stream)
    BY <2>1, StreamFacts DEF TypeOK
  <2> QED
    BY <2>1, <2>2 DEF IInv, TypeOK
<1>3. Consumed \in Nat /\ arrived = Consumed + Len(buffer)
  <2>1. arrived \in Nat /\ Len(buffer) \in Nat /\ Consumed \in Nat
    BY DEF IInv, TypeOK, Cut
  <2> QED
    BY <2>1 DEF Consumed
<1>4. \A m \in 1..MaxMessages : Begun(m, buffer, Consumed) <=> EndOf(m - 1) < Mark(buffer, Consumed)
  BY <1>2, <1>3, BegunIsBeforeMark
<1>5. \A i \in 1..Len(handled') : EndOf(handled'[i] - 1) < Mark(buffer, Consumed)
  BY <1>1, <1>2, <1>4, ElementOfSeq
<1>6. Increasing(handled') /\ Increasing(early')
  BY <1>1, <1>2
<1> QED
  BY <1>1, <1>2, <1>3, <1>4, <1>5, <1>6, NextIInv

\* The invariant is inductive: the buffer is what arrived behind a place where the
\* loop may stop, and the requests before it are analysed, each once and in order.
THEOREM HttpInvariance == Spec => []IInv
<1>1. IInv /\ [Next]_vars => IInv'
  <2> SUFFICES ASSUME IInv, [Next]_vars PROVE IInv'
    OBVIOUS
  <2>1. CASE UNCHANGED vars
    BY <2>1, StutterIInv
  <2>2. CASE Next
    <3>1. PICK n \in 1..(4 * MaxMessages) : Data(n) \/ Overflow(n)
      BY <2>2 DEF Next
    <3> QED
      BY <3>1, DataIInv, OverflowIInv
  <2> QED
    BY <2>1, <2>2
<1> QED
  BY <1>1, InitIInv, PTL DEF Spec

-----------------------------------------------------------------------------
(* What the runs check.                                                      *)

\* Every variable keeps its type; in particular the buffer stays within its limit.
THEOREM HttpTypes == Spec => []TypeOK
<1>1. IInv => TypeOK
  BY DEF IInv
<1> QED
  BY <1>1, HttpInvariance, PTL

\* onData analyses the requests in the order they were sent and none twice, however
\* the stream is cut, and whatever clearing the buffer threw away.
THEOREM RequestsOnceInOrder == Spec => []OnceAndInOrder
<1>1. IInv => OnceAndInOrder
  BY DEF IInv, Increasing, Reached, OnceAndInOrder
<1> QED
  BY <1>1, HttpInvariance, PTL

\* With part of its content only a chunked request is analysed that stands behind another
\* one of the same event, and the loop that never ends is one that does so.
THEOREM EarlyOnlyBehindAnother == Spec => EarlyBehindAnother
<1> DEFINE m == early'[Len(early')]
           Behind == /\ endless' => early' # early
                     /\ early' # early =>
                           /\ EndOf(m) > arrived' /\ Len(handled') > Len(handled)
                           /\ buffer'[1] = [msg |-> m, part |-> "head"]
<1>1. ASSUME IInv, NEW n \in 1..(4 * MaxMessages), Data(n) PROVE Behind
  <2> DEFINE b == buffer \o Arriving(n)
  <2>1. n \in Nat /\ n # 0 /\ arrived + n <= Len(Stream) /\ arrived' = arrived + n
    BY <1>1, SizeAssumption DEF Data
  <2>2. PICK o \in Parse(b) :
           /\ buffer' = o.buffer /\ handled' = handled \o o.handled
           /\ early' = IF o.early = "no" THEN early ELSE Append(early, o.buffer[1].msg)
           /\ endless' = (o.early = "endless")
    BY <1>1 DEF Data
  <2>3. /\ Messages /\ Cut(b, Consumed) /\ Len(b) = Len(buffer) + n /\ Len(buffer) \in Nat
        /\ Consumed \in Nat /\ Consumed + Len(buffer) = arrived
    BY <1>1, <2>1, ArrivingFacts
  <2>4. early \in Seq(1..MaxMessages) /\ handled \in Seq(1..MaxMessages)
    BY <1>1 DEF IInv, TypeOK
  <2> HIDE DEF b
  <2>5. CASE o.early = "no"
    BY <2>2, <2>5
  <2>6. CASE o.early # "no"
    <3>1. o.handled \in Seq(1..MaxMessages) /\ Len(o.handled) # 0
      BY <2>2, <2>3, <2>6, EarlyIsBehind
    <3>2. PICK q \in Nat : Reach(b, Consumed, o, q)
      BY <2>2, <2>3, ParseReaches DEF Good
    <3>3. q + Len(o.buffer) = Consumed + Len(b)
      BY <3>2 DEF Reach
    <3>4. PICK w \in 1..MaxMessages : Unfinished(w, o.buffer, q)
      BY <2>6, <3>2 DEF Reach
    <3>5. o.buffer[1] = [msg |-> w, part |-> "head"] /\ q + Len(o.buffer) < EndOf(w)
      BY <3>4 DEF Unfinished
    <3>6. early' = Append(early, w)
      <4>1. o.buffer[1].msg = w
        BY <3>5
      <4> QED
        BY <2>2, <2>6, <4>1
    <3>7. early' # early /\ m = w
      BY <2>4, <3>6
    <3>8. arrived' < EndOf(w)
      <4>1. Consumed + Len(b) = arrived + n
        BY <2>1, <2>3
      <4> QED
        BY <2>1, <3>3, <3>5, <4>1
    <3>9. EndOf(w) > arrived'
      <4>1. EndOf(w) \in Nat
        BY <2>3, RequestFacts
      <4>2. arrived' \in Nat
        BY <2>1, <2>3
      <4> QED
        BY <3>8, <4>1, <4>2
    <3>10. Len(handled') > Len(handled)
      <4>1. Len(handled') = Len(handled) + Len(o.handled)
        BY <2>2, <2>4, <3>1, ConcatProperties
      <4> QED
        BY <2>4, <3>1, <4>1
    <3> HIDE DEF m
    <3> QED
      BY <2>2, <3>5, <3>7, <3>9, <3>10
  <2> QED
    BY <2>5, <2>6
<1>2. ASSUME NEW n \in 1..(4 * MaxMessages), Overflow(n) PROVE Behind
  BY <1>2 DEF Overflow
<1>3. IInv /\ [Next]_vars => [Behind]_vars
  BY <1>1, <1>2 DEF Next
<1> QED
  BY <1>3, HttpInvariance, PTL DEF Spec, EarlyBehindAnother

\* A request that arrived and was not begun is in the buffer, all of it.
LEMMA IntactFacts ==
    ASSUME IInv, NEW m \in 1..MaxMessages, EndOf(m) <= arrived, ~Begun(m, buffer, Consumed)
    PROVE  Intact(m)
<1> DEFINE d == Consumed
           p == EndOf(m - 1)
           i == p - d
           u == Units(m)
           t == SubSeq(buffer, i + 1, Len(buffer))
<1>1. /\ Messages /\ buffer \in Seq(Unit) /\ Len(buffer) \in Nat /\ arrived \in Nat
      /\ Cut(buffer, d) /\ d \in Nat
  BY DEF IInv, TypeOK, Messages, Cut
<1>2. d + Len(buffer) = arrived
  <2>1. d = arrived - Len(buffer)
    BY DEF Consumed
  <2> HIDE DEF d
  <2> QED
    BY <1>1, <2>1
<1>3. /\ p \in Nat /\ EndOf(m) \in Nat /\ EndOf(m) = p + Len(u) /\ p + 2 <= EndOf(m)
  BY <1>1, RequestFacts
<1>4. u \in Seq(Unit) /\ Len(u) \in Nat
  BY <1>1, UnitsFacts
<1>5. \A j \in 1..Len(u) : Stream[p + j] = u[j]
  BY <1>1, StreamFacts
<1>6. ~(p < d) /\ ~(p = d /\ Stub(buffer))
  BY DEF Begun
<1> HIDE DEF d, p, u
<1>7. i \in 0..Len(buffer) /\ i + Len(u) <= Len(buffer) /\ d + i = p
  BY <1>1, <1>2, <1>3, <1>4, <1>6
<1> HIDE DEF i
<1>8. ASSUME NEW j \in 1..Len(u) PROVE buffer[i + j] = u[j] /\ i + j \in 1..Len(buffer)
  <2>1. i + j \in 1..Len(buffer) /\ d + (i + j) = p + j
    BY <1>1, <1>3, <1>4, <1>7
  <2>2. CASE i + j = 1
    <3>1. i = 0 /\ p = d
      BY <1>1, <1>3, <1>7, <2>2
    <3>2. buffer # <<>> /\ buffer[1].part # "stub"
      BY <1>1, <1>6, <2>1, <3>1 DEF Stub
    <3>3. buffer[1] = Stream[d + 1]
      BY <1>1, <2>1, <2>2, <3>2 DEF Cut
    <3> QED
      BY <1>5, <2>1, <2>2, <3>3
  <2>3. CASE i + j # 1
    <3>1. buffer[i + j] = Stream[d + (i + j)]
      BY <1>1, <2>1, <2>3 DEF Cut
    <3> QED
      BY <1>5, <2>1, <3>1
  <2> QED
    BY <2>2, <2>3
<1>9. /\ t \in Seq(Unit) /\ Len(t) = Len(buffer) - i
      /\ \A j \in 1..(Len(buffer) - i) : t[j] = buffer[i + j]
  BY <1>1, <1>7
<1> HIDE DEF t
<1>10. Len(u) <= Len(t) /\ \A j \in 1..Len(u) : t[j] = u[j]
  BY <1>1, <1>4, <1>7, <1>8, <1>9
<1>11. SubSeq(u, 1, Len(u)) = SubSeq(t, 1, Len(u))
  <2>1. /\ SubSeq(u, 1, Len(u)) \in Seq(Unit) /\ Len(SubSeq(u, 1, Len(u))) = Len(u)
        /\ \A j \in 1..Len(u) : SubSeq(u, 1, Len(u))[j] = u[j]
    BY <1>4
  <2>2. /\ SubSeq(t, 1, Len(u)) \in Seq(Unit) /\ Len(SubSeq(t, 1, Len(u))) = Len(u)
        /\ \A j \in 1..Len(u) : SubSeq(t, 1, Len(u))[j] = t[j]
    BY <1>4, <1>9, <1>10
  <2> QED
    BY <1>10, <2>1, <2>2, SeqEqual
<1>12. IsPrefix(u, t)
  BY <1>10, <1>11 DEF IsPrefix
<1> QED
  BY <1>7, <1>12 DEF Intact, t, u

\* A request that arrived was analysed or is in the buffer, all of it, unless it is
\* behind a malformed one or the buffer was cleared.
THEOREM RequestsNotLost == Spec => []NothingLost
<1>1. IInv => NothingLost
  <2> SUFFICES ASSUME IInv, NEW m \in 1..MaxMessages, EndOf(m) <= arrived, ~dropped
               PROVE  m \in ToSet(handled) \/ Intact(m) \/ Spoiled(m)
    BY DEF NothingLost
  <2>1. Begun(m, buffer, Consumed) => m \in ToSet(handled) \/ Spoiled(m)
    BY DEF IInv
  <2> QED
    BY <2>1, IntactFacts
<1> QED
  BY <1>1, HttpInvariance, PTL

\* A request that stands at the front, all of it, can be analysed.
LEMMA ReadyIsAble ==
    ASSUME Messages, NEW b, NEW d, Cut(b, d), NEW c \in 0..Len(b), NEW r, r = Rest(b, c),
           r # <<>>, Parsed(r, 0), NEW u, u = Units(r[1].msg), IsPrefix(u, r)
    PROVE  Able(b, c) /\ r[1] = b[c + 1]
<1> DEFINE m == r[1].msg
           e == EndOfHeaders(b, c)
           end == e + ContentLength(b, c)
<1>1. /\ r \in Seq(Unit) /\ Len(r) = Len(b) - c /\ Len(b) \in Nat /\ c \in Nat
      /\ \A i \in 1..Len(r) : r[i] = b[c + i]
  BY RestFacts
<1>2. 1 \in 1..Len(r) /\ r[1] = b[c + 1] /\ r[1] \in Unit
  BY <1>1
<1>3. m \in 1..MaxMessages
  BY <1>2 DEF Unit
<1>4. /\ messages[m] \in Kind /\ Len(u) = Len(Layout(messages[m])) /\ u \in Seq(Unit)
      /\ Len(u) \in 2..4
      /\ \A i \in 1..Len(u) : u[i] = [msg |-> m, part |-> Layout(messages[m])[i]]
  BY <1>3, UnitsFacts
<1>5. /\ Layout(messages[m])[1] = "head" /\ Layout(messages[m])[2] = "crlf"
      /\ messages[m] = "options" => Len(u) = 2
      /\ messages[m] = "post" => Len(u) = 4
      /\ messages[m] = "chunked" => Len(u) = 4 /\ Layout(messages[m])[4] = "last"
  BY <1>4, LayoutFacts
<1> HIDE DEF m
<1>6. Parsed(b, c) /\ b[c + 1].msg = m
  BY <1>2 DEF Parsed, m
<1>7. PICK l \in 2..4 : l = Len(u)
  BY <1>4
<1>8. l <= Len(b) - c /\ \A i \in 1..l : b[c + i] = [msg |-> m, part |-> Layout(messages[m])[i]]
  <2>1. Len(u) <= Len(r) /\ SubSeq(u, 1, Len(u)) = SubSeq(r, 1, Len(u))
    BY DEF IsPrefix
  <2>2. l <= Len(r) /\ SubSeq(u, 1, l) = SubSeq(r, 1, l)
    BY <1>7, <2>1
  <2>3. \A i \in 1..l : SubSeq(u, 1, l)[i] = u[i]
    BY <1>4, <1>7
  <2>4. \A i \in 1..l : SubSeq(r, 1, l)[i] = r[i] /\ i \in 1..Len(r)
    BY <1>1, <2>2
  <2>5. \A i \in 1..l : b[c + i] = u[i]
    BY <1>1, <2>2, <2>3, <2>4
  <2>6. \A i \in 1..l : u[i] = [msg |-> m, part |-> Layout(messages[m])[i]]
    BY <1>4, <1>7
  <2>7. l <= Len(b) - c
    BY <1>1, <2>2
  <2> QED
    BY <2>5, <2>6, <2>7
<1>9. b[c + 1].part = "head" /\ b[c + 2].part = "crlf" /\ c + 2 \in (c + 1)..Len(b)
  <2>1. 1 \in 1..l /\ 2 \in 1..l /\ c + 2 \in (c + 1)..Len(b)
    BY <1>1, <1>8
  <2>2. b[c + 1] = [msg |-> m, part |-> "head"] /\ b[c + 2] = [msg |-> m, part |-> "crlf"]
    BY <1>5, <1>8, <2>1
  <2> QED
    BY <2>1, <2>2
<1>10. e = c + 2
  <2>1. /\ e = 0 \/ e \in (c + 1)..Len(b)
        /\ e = 0 => \A i \in (c + 1)..Len(b) : b[i].part \notin {"crlf", "last"}
        /\ e # 0 => /\ b[e].part \in {"crlf", "last"}
                    /\ \A i \in (c + 1)..(e - 1) : b[i].part \notin {"crlf", "last"}
    BY <1>1, EndOfHeadersFacts
  <2> HIDE DEF e
  <2>2. e # 0 /\ e # c + 1 /\ e \in (c + 1)..Len(b)
    BY <1>1, <1>9, <2>1
  <2>3. ~(c + 2 \in (c + 1)..(e - 1))
    BY <1>9, <2>1, <2>2
  <2> QED
    BY <1>1, <2>2, <2>3
<1>11. CASE messages[m] = "chunked"
  <2>1. l = 4
    BY <1>5, <1>7, <1>11
  <2>2. 4 \in 1..l /\ c + 4 \in ((c + 2) + 1)..Len(b)
    BY <1>1, <1>8, <2>1
  <2>3. b[c + 4] = [msg |-> m, part |-> "last"]
    BY <1>5, <1>8, <1>11, <2>2
  <2>4. LastChunkAfter(b, e)
    BY <1>10, <2>2, <2>3 DEF LastChunkAfter
  <2> QED
    BY <1>1, <1>2, <1>6, <1>10, <1>11, <2>4 DEF Able
<1>12. CASE messages[m] # "chunked"
  <2>1. messages[m] \in {"options", "post"}
    BY <1>4, <1>6, <1>12 DEF Kind, Parsed
  <2>2. ContentLength(b, c) = l - 2
    <3>1. messages[m] = "post" => l = 4
      BY <1>5, <1>7
    <3>2. messages[m] = "options" => l = 2
      BY <1>5, <1>7
    <3> QED
      BY <1>6, <2>1, <3>1, <3>2 DEF ContentLength
  <2>3. end = c + l
    <3>1. end = (c + 2) + (l - 2)
      BY <1>10, <2>2
    <3> HIDE DEF end
    <3> QED
      BY <1>1, <3>1
  <2>4. Whole(b, end)
    <3>1. c + l <= Len(b)
      BY <1>1, <1>8
    <3> QED
      BY <2>3, <3>1 DEF Whole
  <2> QED
    BY <1>1, <1>2, <1>6, <1>10, <1>12, <2>4 DEF Able
<1> QED
  BY <1>2, <1>11, <1>12

\* A request at the front, all of it, is analysed, whatever is behind it.
LEMMA ReadyFacts ==
    ASSUME Messages, NEW b, NEW d, Cut(b, d), NEW u, u = Units(b[1].msg), IsPrefix(u, b),
           b # <<>>, Parsed(b, 0), NEW o \in Parse(b)
    PROVE  o.handled \in Seq(1..MaxMessages) /\ b[1].msg \in ToSet(o.handled)
<1>1. Len(b) \in Nat /\ 0 \in 0..Len(b) /\ 0 + 1 = 1
  BY DEF Cut
<1>2. Rest(b, 0) = b
  BY <1>1, RestFacts
<1>3. Able(b, 0)
  BY <1>1, <1>2, ReadyIsAble
<1>4. o \in Pass(ParseFcn(b), b, 0)
  BY <1>1, ParseFacts
<1>5. \A i \in (0 + 1)..Len(b) : \A v \in ParseFcn(b)[i] : Good(Rest(b, i), d + i, v)
  <2>1. \A i \in (0 + 1)..Len(b) : i \in 0..Len(b)
    BY <1>1
  <2> QED
    BY <2>1, ParseReaches
<1> QED
  BY <1>1, <1>3, <1>4, <1>5, AbleIsAnalysed

\* A request that waits at the front of the buffer, all of it, is analysed with the next
\* data, whatever they are, unless they clear the buffer.
THEOREM WaitingRequestIsNext == Spec => WaitsForOneEvent
<1> DEFINE Waits == Ready /\ ~(dropped' /\ buffer' = <<>>) => buffer[1].msg \in ToSet(handled')
<1>1. ASSUME IInv, Next, Ready, ~(dropped' /\ buffer' = <<>>)
      PROVE  buffer[1].msg \in ToSet(handled')
  <2>1. PICK n \in 1..(4 * MaxMessages) : Data(n)
    BY <1>1 DEF Next, Overflow, CleanupData
  <2> DEFINE b == buffer \o Arriving(n)
             u == Units(buffer[1].msg)
  <2>2. n \in Nat /\ n # 0 /\ arrived + n <= Len(Stream)
    BY <2>1, SizeAssumption DEF Data
  <2>3. PICK o \in Parse(b) : handled' = handled \o o.handled
    BY <2>1 DEF Data
  <2>4. /\ Messages /\ Cut(b, Consumed) /\ Len(b) = Len(buffer) + n /\ Len(buffer) \in Nat
        /\ \A i \in 1..Len(buffer) : b[i] = buffer[i]
    BY <1>1, <2>2, ArrivingFacts
  <2>5. buffer \in Seq(Unit) /\ handled \in Seq(1..MaxMessages) /\ b \in Seq(Unit)
    BY <1>1, <2>4 DEF IInv, TypeOK, Cut
  <2>6. buffer # <<>> /\ Parsed(buffer, 0) /\ IsPrefix(u, buffer)
    BY <1>1 DEF Ready
  <2>7. 1 \in 1..Len(buffer) /\ b[1] = buffer[1] /\ buffer[1].msg \in 1..MaxMessages /\ b # <<>>
    <3>1. 1 \in 1..Len(buffer)
      BY <2>4, <2>5, <2>6
    <3>2. buffer[1] \in Unit
      BY <2>5, <3>1, ElementOfSeq
    <3>3. Len(b) # 0 /\ b \in Seq(Unit)
      BY <2>2, <2>4, <2>5
    <3> HIDE DEF b, u
    <3> QED
      BY <2>4, <3>1, <3>2, <3>3 DEF Unit
  <2>8. u \in Seq(Unit) /\ Len(u) \in Nat
    BY <2>4, <2>7, UnitsFacts
  <2> HIDE DEF b, u
  <2>9. Parsed(b, 0)
    BY <2>6, <2>7 DEF Parsed
  <2>10. IsPrefix(u, b)
    <3>1. Len(u) <= Len(buffer) /\ SubSeq(u, 1, Len(u)) = SubSeq(buffer, 1, Len(u))
      BY <2>6 DEF IsPrefix
    <3>2. Len(u) <= Len(b)
      BY <2>2, <2>4, <2>8, <3>1
    <3>3. /\ SubSeq(b, 1, Len(u)) \in Seq(Unit) /\ Len(SubSeq(b, 1, Len(u))) = Len(u)
          /\ \A i \in 1..Len(u) : SubSeq(b, 1, Len(u))[i] = b[i]
      BY <2>5, <2>8, <3>2
    <3>4. /\ SubSeq(buffer, 1, Len(u)) \in Seq(Unit) /\ Len(SubSeq(buffer, 1, Len(u))) = Len(u)
          /\ \A i \in 1..Len(u) : SubSeq(buffer, 1, Len(u))[i] = buffer[i]
      BY <2>5, <2>8, <3>1
    <3>5. \A i \in 1..Len(u) : i \in 1..Len(buffer)
      BY <2>4, <2>8, <3>1
    <3>6. SubSeq(b, 1, Len(u)) = SubSeq(buffer, 1, Len(u))
      BY <2>4, <3>3, <3>4, <3>5, SeqEqual
    <3> QED
      BY <3>1, <3>2, <3>6 DEF IsPrefix
  <2>11. o.handled \in Seq(1..MaxMessages) /\ buffer[1].msg \in ToSet(o.handled)
    <3>1. u = Units(b[1].msg)
      BY <2>7 DEF u
    <3> QED
      BY <2>3, <2>4, <2>7, <2>8, <2>9, <2>10, <3>1, ReadyFacts
  <2>12. PICK i \in DOMAIN o.handled : o.handled[i] = buffer[1].msg
    BY <2>11 DEF ToSet
  <2>13. /\ i + Len(handled) \in DOMAIN handled'
         /\ handled'[i + Len(handled)] = o.handled[i]
    <3>1. PICK h \in Seq(1..MaxMessages) : h = o.handled
      BY <2>11
    <3>2. /\ handled' \in Seq(1..MaxMessages) /\ Len(handled') = Len(handled) + Len(h)
          /\ Len(handled) \in Nat /\ Len(h) \in Nat
          /\ \A j \in 1..(Len(handled) + Len(h)) :
                handled'[j] = IF j <= Len(handled) THEN handled[j] ELSE h[j - Len(handled)]
      BY <2>3, <2>5, <3>1, ConcatProperties
    <3>3. i \in 1..Len(h)
      BY <2>12, <3>1
    <3> QED
      BY <3>1, <3>2, <3>3
  <2> QED
    BY <2>12, <2>13 DEF ToSet
<1>2. IInv /\ [Next]_vars => [Waits]_vars
  BY <1>1
<1> QED
  BY <1>2, HttpInvariance, PTL DEF Spec, WaitsForOneEvent

\* Where a request begins that is not malformed, the parser accepts the headers.
LEMMA BoundaryParses ==
    ASSUME Messages, NEW b, NEW d, Cut(b, d), NEW c \in 0..Len(b), EndOfHeaders(b, c) # 0,
           ~Stub(Rest(b, c)), NEW m \in 0..MaxMessages, d + c = EndOf(m),
           \A k \in 1..MaxMessages : ~Spoiled(k)
    PROVE  Parsed(b, c)
<1>1. /\ d \in Nat /\ Len(b) \in Nat /\ Cut(Rest(b, c), d + c) /\ Len(Rest(b, c)) = Len(b) - c
      /\ \A i \in 1..Len(Rest(b, c)) : Rest(b, c)[i] = b[c + i]
  BY RestFacts
<1>2. EndOfHeaders(b, c) \in (c + 1)..Len(b)
  BY HeaderEnd
<1>3. 1 \in 1..Len(Rest(b, c)) /\ Len(Rest(b, c)) \in Nat
  BY <1>1, <1>2
<1> DEFINE r == Rest(b, c)
           p == d + c
<1> HIDE DEF r, p
<1>4. Cut(r, p) /\ 1 \in 1..Len(r) /\ ~Stub(r) /\ p = EndOf(m) /\ r[1] = b[c + 1]
  BY <1>1, <1>3 DEF r, p
<1>5. r # <<>> /\ r[1] = Stream[p + 1] /\ p + Len(r) <= Len(Stream) /\ p \in Nat
  BY <1>4 DEF Cut, Stub
<1>6. m # MaxMessages
  <2>1. EndOf(MaxMessages) = Len(Stream) /\ Len(Stream) \in Nat
    BY StreamFacts
  <2>2. Len(r) >= 1 /\ Len(r) \in Nat
    BY <1>4 DEF Cut
  <2> QED
    BY <1>4, <1>5, <2>1, <2>2
<1>7. PICK n \in 1..MaxMessages : n - 1 = m
  <2>1. m + 1 \in 1..MaxMessages /\ (m + 1) - 1 = m
    BY <1>6, SizeAssumption
  <2> QED
    BY <2>1
<1>8. b[c + 1] = [msg |-> n, part |-> "head"]
  BY <1>4, <1>5, <1>7, RequestFacts
<1>9. messages[n] # "malformed"
  BY SpoiledFacts
<1> QED
  BY <1>8, <1>9 DEF Parsed

\* A request that can be analysed does not stay at the front when the loop stops there.
LEMMA StopsNotReady ==
    ASSUME Messages, NEW b, NEW d, Cut(b, d), NEW c \in 0..Len(b), ~Able(b, c),
           NEW r, r = Left(b, c).buffer, r # <<>>, Parsed(r, 0), IsPrefix(Units(r[1].msg), r)
    PROVE  FALSE
<1>1. r = Rest(b, c)
  BY DEF Left, Rest
<1> QED
  BY <1>1, ReadyIsAble

LEMMA LeavesTheSame == ASSUME NEW b, NEW c PROVE AnalysedEarly(b, c).buffer = Left(b, c).buffer
<1>1. \A x, a : [buffer |-> x, handled |-> <<>>, early |-> a].buffer = x
  OBVIOUS
<1>2. PICK a : AnalysedEarly(b, c) = [buffer |-> Rest(b, c), handled |-> <<>>, early |-> a]
  BY LeftFacts
<1>3. Left(b, c) = [buffer |-> Rest(b, c), handled |-> <<>>, early |-> "no"]
  BY LeftFacts
<1> QED
  BY <1>1, <1>2, <1>3

\* A request that the loop leaves ready stands behind others that it analysed.
LEMMA LeftBehind ==
    ASSUME Messages, NEW b, NEW d, Cut(b, d), ~Stub(b), NEW k \in 0..MaxMessages, d = EndOf(k),
           \A m \in 1..MaxMessages : ~Spoiled(m),
           NEW o \in Parse(b), NEW r, r = o.buffer,
           r # <<>>, Parsed(r, 0), IsPrefix(Units(r[1].msg), r)
    PROVE  /\ Len(o.handled) \in Nat
           /\ Len(o.handled) > 1 \/ (Len(o.handled) = 1 /\ Len(r) < ChunckMin)
<1> DEFINE f == ParseFcn(b)
           e == EndOfHeaders(b, 0)
           m == b[0 + 1].msg
           end == e + ContentLength(b, 0)
<1>1. /\ Len(b) \in Nat /\ d \in Nat /\ 0 \in 0..Len(b) /\ d + 0 = d /\ 0 + 1 = 1 /\ Len(b) - 0 = Len(b)
  BY DEF Cut
<1>2. Rest(b, 0) = b /\ o \in Pass(f, b, 0)
  BY <1>1, RestFacts, ParseFacts
<1>3. ASSUME NEW c \in 0..Len(b) PROVE \A i \in (c + 1)..Len(b) : \A v \in f[i] : Good(Rest(b, i), d + i, v)
  <2>1. \A i \in (c + 1)..Len(b) : i \in 0..Len(b)
    BY <1>1
  <2> QED
    BY <2>1, ParseReaches
<1>4. ~(~Able(b, 0) /\ o \in {Left(b, 0), AnalysedEarly(b, 0)})
  BY <1>1, StopsNotReady, LeavesTheSame
<1>5. ~(e # 0 /\ ~Parsed(b, 0))
  BY <1>1, <1>2, BoundaryParses
<1>6. r[1].part = "head"
  BY DEF Parsed
<1>7. ASSUME Able(b, 0), messages[m] = "chunked",
             NEW v \in {Left(Bitten(b, 0), 0), Left(Bitten(b, 0), e)},
             o = [v EXCEPT !.handled = <<m>> \o @]
      PROVE  FALSE
  <2>1. /\ b[0 + 1].part = "head" /\ e = 0 + 2 /\ e \in (0 + 1)..Len(b) /\ 0 \in 0..(Len(b) - 1)
        /\ m \in 1..MaxMessages /\ d = EndOf(m - 1) /\ LastChunkAfter(b, e)
    BY <1>1, <1>7, ParsedFacts DEF Able
  <2>2. PICK x : v = [buffer |-> x, handled |-> <<>>, early |-> "no"]
    BY <1>7 DEF Left
  <2>3. v.buffer = x /\ v.handled = <<>> /\ v = [buffer |-> v.buffer, handled |-> v.handled, early |-> v.early]
    BY <2>2
  <2>4. r = v.buffer
    <3>1. HasAnalysed(m, v, o)
      BY <1>7 DEF HasAnalysed
    <3>2. m \in 1..MaxMessages /\ v.handled \in Seq(1..MaxMessages)
          /\ v = [buffer |-> v.buffer, handled |-> v.handled, early |-> v.early]
      BY <2>1, <2>3, EmptySeq
    <3>3. o.buffer = v.buffer
      <4> HIDE DEF m
      <4> QED
        BY <3>1, <3>2, AnalysedFacts
    <3> QED
      BY <3>3
  <2>5. Stub(Rest(Bitten(b, 0), 0)) /\ Rest(Bitten(b, 0), e) = Rest(b, e)
        /\ Len(Bitten(b, 0)) = Len(b)
    BY <2>1, BittenFacts
  <2>6. r = Rest(Bitten(b, 0), 0) \/ r = Rest(b, e)
    <3>1. \A y, i : Left(y, i).buffer = Rest(y, i)
      BY DEF Left, Rest
    <3> HIDE DEF e
    <3> QED
      BY <1>7, <2>4, <2>5, <3>1, Zenon
  <2>7. CASE r = Rest(Bitten(b, 0), 0)
    BY <1>6, <2>5, <2>7 DEF Stub
  <2>8. CASE r = Rest(b, e)
    <3>1. e \in 0..Len(b) /\ e # 0 /\ e = 2
      BY <1>1, <2>1
    <3>2. r \in Seq(Unit) /\ Len(r) = Len(b) - e /\ Cut(r, d + e) /\ ~Stub(r)
      BY <2>8, <3>1, RestFacts
    <3>3. 1 \in 1..Len(r)
      BY <1>1, <3>1, <3>2
    <3>4. r[1] = Stream[(d + e) + 1]
      <4>1. \/ r[1] = Stream[(d + e) + 1]
            \/ r[1] = [msg |-> Stream[(d + e) + 1].msg, part |-> "stub"]
        BY <3>2, <3>3 DEF Cut
      <4>2. r[1].part # "stub"
        BY <3>2, <3>3, EmptySeq DEF Stub
      <4> QED
        BY <4>1, <4>2
    <3>5. (d + e) + 1 = d + 3
      BY <1>1, <3>1
    <3>6. Stream[d + 3].part = "chunk"
      BY <1>7, <2>1, RequestFacts
    <3> QED
      BY <1>6, <3>4, <3>5, <3>6
  <2> QED
    BY <2>6, <2>7, <2>8
<1>8. ASSUME Able(b, 0), messages[m] # "chunked", NEW v, o = [v EXCEPT !.handled = <<m>> \o @],
             \/ v \in f[end]
             \/ v = Left(b, end) /\ ~GoesOn(Len(b) - 0, end)
      PROVE  /\ Len(o.handled) \in Nat
             /\ Len(o.handled) > 1 \/ (Len(o.handled) = 1 /\ Len(r) < ChunckMin)
  <2>1. e # 0 /\ Whole(b, end) /\ Parsed(b, 0)
    BY <1>8 DEF Able
  <2>2. end \in (0 + 1)..Len(b) /\ end \in 0..Len(b) /\ end <= Len(b) /\ end # 0
    BY <1>1, <2>1, EndFacts
  <2>3. m \in 1..MaxMessages /\ d = EndOf(m - 1) /\ messages[m] \in {"options", "post"} /\ e = 0 + 2
    BY <1>1, <1>8, <2>1, ParsedFacts
  <2>4. d + end = EndOf(m)
    <3>1. ContentLength(b, 0) = IF messages[m] = "post" THEN 2 ELSE 0
      BY DEF ContentLength
    <3>2. CASE messages[m] = "post"
      <4>1. EndOf(m) = d + 4
        BY <2>3, <3>2, RequestFacts
      <4>2. end = 2 + 2
        BY <2>3, <3>1, <3>2
      <4> QED
        BY <4>1, <4>2
    <3>3. CASE messages[m] = "options"
      <4>1. EndOf(m) = d + 2
        BY <2>3, <3>3, RequestFacts
      <4>2. end = 2 + 0
        BY <2>3, <3>1, <3>3
      <4> QED
        BY <4>1, <4>2
    <3> QED
      BY <2>3, <3>2, <3>3
  <2> HIDE DEF end, f, m
  <2>5. CASE v = Left(b, end) /\ ~GoesOn(Len(b) - 0, end)
    <3>1. PICK x : x = Rest(b, end) /\ v = [buffer |-> x, handled |-> <<>>, early |-> "no"]
      BY <2>5 DEF Left, Rest
    <3>2. v.buffer = x /\ v.handled = <<>> /\ v = [buffer |-> v.buffer, handled |-> v.handled, early |-> v.early]
      BY <3>1
    <3>3. r = x /\ Len(o.handled) = Len(v.handled) + 1
      <4>1. HasAnalysed(m, v, o)
        BY <1>8 DEF HasAnalysed
      <4> QED
        BY <2>3, <3>2, <4>1, AnalysedFacts, EmptySeq
    <3>4. Len(o.handled) = 1
      BY <3>2, <3>3, EmptySeq
    <3>5. Len(r) = Len(b) - end
      BY <2>2, <3>1, <3>3, RestFacts
    <3>6. Len(r) < ChunckMin
      <4>1. ~(Len(b) - end >= ChunckMin)
        BY <1>1, <2>5 DEF GoesOn
      <4>2. \A i, j, h \in Nat : ~(i - j >= h) => i - j < h
        OBVIOUS
      <4>3. end \in Nat /\ Len(b) \in Nat /\ ChunckMin \in Nat
        BY <1>1, <2>2, SizeAssumption
      <4>4. Len(b) - end < ChunckMin
        BY <4>1, <4>2, <4>3, Zenon
      <4> QED
        BY <3>5, <4>4
    <3> QED
      BY <3>4, <3>6
  <2>6. CASE v \in f[end]
    <3>1. Good(Rest(b, end), d + end, v)
      BY <2>2, <2>6, ParseReaches DEF f
    <3>2. v.handled \in Seq(1..MaxMessages) /\ v = [buffer |-> v.buffer, handled |-> v.handled, early |-> v.early]
      BY <3>1 DEF Good, Reach
    <3>3. r = v.buffer /\ Len(o.handled) = Len(v.handled) + 1 /\ Len(v.handled) \in Nat
      <4>1. HasAnalysed(m, v, o)
        BY <1>8 DEF HasAnalysed
      <4> QED
        BY <2>3, <3>2, <4>1, AnalysedFacts
    <3>4. Len(v.handled) # 0
      <4> SUFFICES ASSUME Len(v.handled) = 0 PROVE FALSE
        OBVIOUS
      <4>1. v \in Pass(f, b, end)
        BY <1>1, <2>2, <2>6, ParseFacts DEF f
      <4>2. ~Able(b, end)
        BY <1>3, <2>2, <4>1, AbleIsAnalysed
      <4>3. v # Left(b, end) /\ v # AnalysedEarly(b, end)
        BY <2>2, <3>3, <4>2, StopsNotReady, LeavesTheSame
      <4>4. EndOfHeaders(b, end) # 0 /\ ~Parsed(b, end)
        BY <4>1, <4>2, <4>3, PassOutcomes
      <4>5. ~Stub(Rest(b, end))
        BY <2>2, RestFacts
      <4>6. m \in 0..MaxMessages
        BY <2>3
      <4> QED
        BY <2>2, <2>4, <4>4, <4>5, <4>6, BoundaryParses
    <3> QED
      BY <3>3, <3>4
  <2> QED
    BY <1>8, <2>5, <2>6
<1> QED
  BY <1>2, <1>4, <1>5, <1>7, <1>8, PassOutcomes

\* A complete request is only left waiting behind another that was analysed in the same
\* event; behind one alone without chunks, only if what is left is short.
THEOREM WaitingRequestIsBehindAnother == Spec => LeftOnlyBehindAnother
<1> DEFINE new == Len(handled') - Len(handled)
           Reason == \/ new > 1
                     \/ new = 1 /\ Len(buffer') < ChunckMin
                     \/ \E u \in ToSet(buffer) : u.part \in {"stub", "chunk", "last"}
                     \/ \E m \in 1..MaxMessages : Spoiled(m)
                     \/ dropped
<1>1. ASSUME IInv, Next, Ready', buffer' # buffer,
             \A u \in ToSet(buffer) : u.part \notin {"stub", "chunk", "last"},
             \A m \in 1..MaxMessages : ~Spoiled(m), ~dropped
      PROVE  new > 1 \/ (new = 1 /\ Len(buffer') < ChunckMin)
  <2>1. PICK n \in 1..(4 * MaxMessages) : Data(n)
    BY <1>1 DEF Next, Overflow, CleanupData, Ready
  <2> DEFINE b == buffer \o Arriving(n)
             r == buffer'
  <2>2. n \in Nat /\ n # 0 /\ arrived + n <= Len(Stream) /\ messages' = messages
    BY <2>1, SizeAssumption DEF Data
  <2>3. PICK o \in Parse(b) : buffer' = o.buffer /\ handled' = handled \o o.handled
    BY <2>1 DEF Data
  <2>4. /\ Messages /\ Cut(b, Consumed) /\ (Stub(b) <=> Stub(buffer)) /\ Consumed \in Nat
        /\ Len(buffer) \in Nat
    BY <1>1, <2>2, ArrivingFacts
  <2>5. /\ buffer \in Seq(Unit) /\ handled \in Seq(1..MaxMessages) /\ Cut(buffer, Consumed)
        /\ Position(buffer, Consumed)
    BY <1>1 DEF IInv, TypeOK
  <2>6. \A i \in 1..Len(buffer) : buffer[i].part \notin {"stub", "chunk", "last"}
    <3>1. DOMAIN buffer = 1..Len(buffer)
      BY <2>5
    <3> QED
      BY <1>1, <3>1 DEF ToSet
  <2>7. ~Stub(buffer)
    <3>1. buffer # <<>> => 1 \in 1..Len(buffer)
      BY <2>4, <2>5
    <3> QED
      BY <2>6, <3>1 DEF Stub
  <2>8. PICK k \in 0..MaxMessages : Consumed = EndOf(k)
    <3>1. ASSUME NEW m \in 1..MaxMessages, Consumed = EndOf(m - 1) + 2, messages[m] = "chunked",
                 EndOf(m) <= Consumed + Len(buffer)
          PROVE  FALSE
      <4>1. EndOf(m) = EndOf(m - 1) + 4 /\ Stream[EndOf(m - 1) + 3].part = "chunk" /\ EndOf(m - 1) \in Nat
        BY <2>4, <3>1, RequestFacts
      <4>2. EndOf(m - 1) + 3 = Consumed + 1 /\ 1 \in 1..Len(buffer)
        BY <2>4, <3>1, <4>1
      <4>3. buffer[1] = Stream[Consumed + 1]
        <5>1. buffer # <<>>
          BY <2>5, <4>2
        <5> QED
          BY <2>5, <2>7, <4>2, <5>1 DEF Cut, Stub
      <4> QED
        BY <2>6, <4>1, <4>2, <4>3
    <3> QED
      BY <1>1, <2>5, <2>7, <3>1 DEF Position
  <2>9. r # <<>> /\ Parsed(r, 0) /\ IsPrefix(Units(r[1].msg), r)
    BY <1>1, <2>2 DEF Ready, Parsed, Units
  <2> HIDE DEF b, r
  <2>10. /\ Len(o.handled) \in Nat
         /\ Len(o.handled) > 1 \/ (Len(o.handled) = 1 /\ Len(r) < ChunckMin)
    <3>1. r = o.buffer
      BY <2>3 DEF r
    <3> QED
      BY <1>1, <2>3, <2>4, <2>7, <2>8, <2>9, <3>1, LeftBehind
  <2>11. Len(handled') = Len(handled) + Len(o.handled) /\ Len(handled) \in Nat
    <3>1. o.handled \in Seq(1..MaxMessages)
      BY <2>3, <2>4, ParseReaches DEF Good, Reach
    <3> QED
      BY <2>3, <2>5, <3>1, ConcatProperties
  <2> QED
    BY <2>10, <2>11 DEF r
<1>2. IInv /\ [Next]_vars => [Ready' /\ buffer' # buffer => Reason]_vars
  BY <1>1
<1> QED
  BY <1>2, HttpInvariance, PTL DEF Spec, LeftOnlyBehindAnother

=============================================================================
