------------------------- MODULE CommandLineProofs -------------------------
(***************************************************************************)
(* Proofs about the options: CommandLine, for command lines of every       *)
(* length, made of any options and words, and PacketSizes.                 *)
(*                                                                         *)
(* The parser sees arguments, the user means items.  Before "--" the       *)
(* parser is always between two items, never inside one: what it has       *)
(* entered is what the first n items mean (ReadAt).  Behind "--" it takes  *)
(* arguments one by one, and those of half an item are a part of what is   *)
(* meant, too (ReadBehind).  Both meet at the end (Done).  The arguments   *)
(* are a concatenation (Flat), which is a recursion of the library.        *)
(***************************************************************************)
EXTENDS CommandLine, PacketSizes, Recursion

\* The concatenation of the first n of some sequences.
Flat(f, n) == FlattenSeq([k \in 1..n |-> f[k]])

LEMMA FlatIs ==
  ASSUME NEW S, NEW n \in Nat \ {0}, NEW f, \A k \in 1..n : f[k] \in Seq(S)
  PROVE  \E g : /\ Chain(g, Seq(S), f[1], 1, n, [k \in Nat |-> [v \in Seq(S) |-> v \o f[k]]])
                /\ Flat(f, n) = g[n]
<1> DEFINE F == [k \in Nat |-> [v \in Seq(S) |-> v \o f[k]]]
           s == [k \in 1..n |-> f[k]]
           Body(g) == [k \in 1..Len(s) |-> IF k = 1 THEN s[k] ELSE g[k - 1] \o s[k]]
<1>1. Len(s) = n /\ \A k \in 1..n : s[k] = f[k]
  OBVIOUS
<1>2. \A k \in (1 + 1)..n, v \in Seq(S) : F[k][v] = v \o f[k] /\ F[k][v] \in Seq(S)
  <2> SUFFICES ASSUME NEW k \in (1 + 1)..n, NEW v \in Seq(S) PROVE F[k][v] = v \o f[k] /\ F[k][v] \in Seq(S)
    OBVIOUS
  <2>1. k \in Nat /\ f[k] \in Seq(S)
    OBVIOUS
  <2>2. F[k][v] = v \o f[k]
    BY <2>1
  <2> QED BY <2>1, <2>2
<1>3. f[1] \in Seq(S)
  OBVIOUS
<1>4. PICK g : Chain(g, Seq(S), f[1], 1, n, F)
  <2> HIDE DEF F
  <2>1. \A k \in (1 + 1)..n, v \in Seq(S) : F[k][v] \in Seq(S)
    BY <1>2
  <2>2. 1 \in Nat /\ n \in Nat /\ 1 <= n
    OBVIOUS
  <2> DEFINE W == Seq(S)
             c == f[1]
  <2> HIDE DEF W, c
  <2>3. c \in W /\ \A k \in (1 + 1)..n, v \in W : F[k][v] \in W
    BY <1>3, <2>1 DEF W, c
  <2>4. \E g : Chain(g, W, c, 1, n, F)
    BY <2>2, <2>3, ChainExists
  <2> QED BY <2>4 DEF W, c
<1>5. g = Body(g)
  <2> HIDE DEF F
  <2>1. g \in [1..n -> Seq(S)] /\ g[1] = f[1]
    BY <1>4 DEF Chain
  <2>2. ASSUME NEW k \in 1..n, k # 1 PROVE g[k] = g[k - 1] \o f[k]
    <3>1. k \in (1 + 1)..n /\ k - 1 \in 1..n
      BY <2>2
    <3>2. g[k] = F[k][g[k - 1]] /\ g[k - 1] \in Seq(S)
      BY <1>4, <2>1, <3>1 DEF Chain
    <3> QED BY <1>2, <3>1, <3>2
  <2> HIDE DEF s
  <2>3. \A k \in 1..n : g[k] = IF k = 1 THEN s[k] ELSE g[k - 1] \o s[k]
    BY <1>1, <2>1, <2>2
  <2> QED BY <1>1, <2>1, <2>3
<1> DEFINE h == CHOOSE g1 : g1 = Body(g1)
<1>6. h = Body(h)
  <2> HIDE DEF Body
  <2> QED BY <1>5
<1> HIDE DEF h
<1>7. Chain(h, Seq(S), f[1], 1, n, F)
  <2> HIDE DEF s
  <2>1. \A k \in 1..n : h[k] = IF k = 1 THEN f[k] ELSE h[k - 1] \o f[k]
    BY <1>1, <1>6
  <2>2. h = [k \in 1..n |-> h[k]]
    BY <1>1, <1>6
  <2> HIDE DEF F, Body
  <2>3. \A k \in (1 + 1)..n : h[k - 1] \in Seq(S) => h[k] = F[k][h[k - 1]]
    <3> SUFFICES ASSUME NEW k \in (1 + 1)..n, h[k - 1] \in Seq(S) PROVE h[k] = F[k][h[k - 1]]
      OBVIOUS
    <3>1. k \in 1..n /\ k # 1
      OBVIOUS
    <3>2. h[k] = h[k - 1] \o f[k]
      BY <2>1, <3>1
    <3>3. F[k][h[k - 1]] = h[k - 1] \o f[k]
      BY <1>2
    <3> QED BY <3>2, <3>3
  <2>4. \A k \in (1 + 1)..n, v \in Seq(S) : F[k][v] \in Seq(S)
    BY <1>2
  <2>5. 1 \in Nat /\ n \in Nat /\ 1 <= n /\ h[1] = f[1]
    BY <2>1
  <2> DEFINE W == Seq(S)
             c == f[1]
  <2> HIDE DEF W, c
  <2>6. /\ c \in W /\ h[1] = c
        /\ \A k \in (1 + 1)..n, v \in W : F[k][v] \in W
        /\ \A k \in (1 + 1)..n : h[k - 1] \in W => h[k] = F[k][h[k - 1]]
    BY <1>3, <2>3, <2>4, <2>5 DEF W, c
  <2>7. Chain(h, W, c, 1, n, F)
    BY <2>2, <2>5, <2>6, ChainOf
  <2> QED BY <2>7 DEF W, c
<1>8. FlattenSeq(s) = h[n]
  <2>1. Len(s) # 0
    BY <1>1
  <2> QED BY <1>1, <2>1 DEF FlattenSeq, h
<1> QED BY <1>7, <1>8 DEF Flat

LEMMA FlatZero == ASSUME NEW f PROVE Flat(f, 0) = <<>>
  BY DEF Flat, FlattenSeq

\* One more sequence.
LEMMA FlatNext ==
  ASSUME NEW S, NEW n \in Nat, NEW f, \A k \in 1..(n + 1) : f[k] \in Seq(S)
  PROVE  Flat(f, n) \in Seq(S) /\ Flat(f, n + 1) = Flat(f, n) \o f[n + 1]
<1> DEFINE F == [k \in Nat |-> [v \in Seq(S) |-> v \o f[k]]]
<1>1. n + 1 \in Nat \ {0} /\ n + 1 \in 1..(n + 1)
  OBVIOUS
<1>2. PICK h : Chain(h, Seq(S), f[1], 1, n + 1, F) /\ Flat(f, n + 1) = h[n + 1]
  BY <1>1, FlatIs
<1>3. CASE n = 0
  <2>1. f[1] \in Seq(S) /\ h[1] = f[1]
    BY <1>1, <1>2, <1>3 DEF Chain
  <2>2. <<>> \in Seq(S) /\ <<>> \o f[1] = f[1]
    BY <2>1
  <2>3. Flat(f, 0) = <<>>
    BY FlatZero
  <2>4. n + 1 = 1 /\ Flat(f, 1) = h[1]
    BY <1>2, <1>3
  <2>5. Flat(f, n) = <<>> /\ Flat(f, n + 1) = f[n + 1] /\ f[n + 1] = f[1]
    BY <1>3, <2>1, <2>3, <2>4, Zenon
  <2>6. Flat(f, n) \o f[n + 1] = f[1]
    BY <2>2, <2>5, Zenon
  <2> QED BY <2>2, <2>5, <2>6, Zenon
<1>4. CASE n # 0
  <2>1. n \in Nat \ {0} /\ \A k \in 1..n : f[k] \in Seq(S)
    BY <1>4
  <2>2. PICK g : Chain(g, Seq(S), f[1], 1, n, F) /\ Flat(f, n) = g[n]
    BY <2>1, FlatIs
  <2>3. g[n] = h[n]
    <3> HIDE DEF F
    <3> DEFINE W == Seq(S)
               c == f[1]
    <3> HIDE DEF W, c
    <3>1. Chain(g, W, c, 1, n, F) /\ Chain(h, W, c, 1, n + 1, F)
      BY <1>2, <2>2 DEF W, c
    <3>2. 1 \in Nat /\ n \in Nat /\ n + 1 \in Nat /\ 1 <= n /\ n <= n + 1 /\ n \in 1..n
      BY <2>1
    <3>3. \A k \in 1..n : g[k] = h[k]
      BY <3>1, <3>2, ChainUnique
    <3> QED BY <3>2, <3>3
  <2>4. g[n] \in Seq(S)
    <3>1. n \in 1..n
      BY <2>1
    <3> QED BY <2>2, <3>1 DEF Chain
  <2>5. h[n + 1] = F[n + 1][h[n]]
    <3>1. n + 1 \in (1 + 1)..(n + 1) /\ (n + 1) - 1 = n
      BY <2>1
    <3> QED BY <1>2, <3>1 DEF Chain
  <2>6. F[n + 1][h[n]] = h[n] \o f[n + 1]
    BY <1>1, <2>3, <2>4
  <2> QED BY <1>2, <2>2, <2>3, <2>4, <2>5, <2>6
<1> QED BY <1>3, <1>4

LEMMA FlatSeq ==
  ASSUME NEW S, NEW n \in Nat, NEW f, \A k \in 1..n : f[k] \in Seq(S)
  PROVE  Flat(f, n) \in Seq(S)
<1>1. CASE n = 0
  <2>1. Flat(f, 0) = <<>>
    BY FlatZero
  <2>2. Flat(f, n) = <<>>
    BY <1>1, <2>1, Zenon
  <2>3. <<>> \in Seq(S)
    OBVIOUS
  <2> QED BY <2>2, <2>3, Zenon
<1>2. CASE n # 0
  <2>1. n - 1 \in Nat /\ (n - 1) + 1 = n /\ n \in 1..n
    BY <1>2
  <2>2. Flat(f, n - 1) \in Seq(S) /\ Flat(f, n) = Flat(f, n - 1) \o f[n]
    BY <2>1, FlatNext
  <2> QED BY <2>1, <2>2
<1> QED BY <1>1, <1>2

\* The first n sequences are in front of whatever follows.
InFront(s, t) == Len(s) <= Len(t) /\ \A j \in 1..Len(s) : t[j] = s[j]

LEMMA FlatPrefix ==
  ASSUME NEW S, NEW m \in Nat, NEW n \in 0..m, NEW f, \A k \in 1..m : f[k] \in Seq(S)
  PROVE  InFront(Flat(f, n), Flat(f, m))
<1> DEFINE T == {d \in Nat : n + d <= m => InFront(Flat(f, n), Flat(f, n + d))}
<1>1. 0 \in T
  <2>1. Flat(f, n) \in Seq(S)
    BY FlatSeq
  <2>2. InFront(Flat(f, n), Flat(f, n))
    BY <2>1 DEF InFront
  <2>3. n + 0 = n
    OBVIOUS
  <2> QED BY <2>2, <2>3
<1>2. ASSUME NEW d \in Nat, d \in T PROVE d + 1 \in T
  <2> SUFFICES ASSUME n + (d + 1) <= m PROVE InFront(Flat(f, n), Flat(f, n + (d + 1)))
    OBVIOUS
  <2> DEFINE e == n + d
  <2>1. e \in Nat /\ n + (d + 1) = e + 1 /\ e <= m /\ e + 1 \in 1..m
    OBVIOUS
  <2>2. InFront(Flat(f, n), Flat(f, e))
    BY <1>2, <2>1
  <2> HIDE DEF e
  <2>3. Flat(f, e) \in Seq(S) /\ Flat(f, e + 1) = Flat(f, e) \o f[e + 1]
    <3>1. \A k \in 1..(e + 1) : f[k] \in Seq(S)
      BY <2>1
    <3> QED BY <2>1, <3>1, FlatNext
  <2>4. Flat(f, n) \in Seq(S)
    BY FlatSeq
  <2> DEFINE a == Flat(f, e)
             b == f[e + 1]
             c == Flat(f, n)
  <2>5. a \in Seq(S) /\ b \in Seq(S) /\ c \in Seq(S) /\ InFront(c, a)
    BY <2>1, <2>2, <2>3, <2>4
  <2> HIDE DEF a, b, c
  <2>6. InFront(c, a \o b)
    <3>1. Len(a \o b) = Len(a) + Len(b) /\ \A j \in 1..Len(a) : (a \o b)[j] = a[j]
      BY <2>5
    <3>2. Len(c) \in Nat /\ Len(a) \in Nat /\ Len(b) \in Nat
      BY <2>5
    <3> QED BY <2>5, <3>1, <3>2 DEF InFront
  <2> QED BY <2>1, <2>3, <2>6 DEF a, b, c
<1> HIDE DEF T
<1>3. \A d \in Nat : d \in T
  BY <1>1, <1>2, SetInduction
<1>4. m - n \in Nat /\ n + (m - n) = m
  OBVIOUS
<1>5. m - n \in T
  BY <1>3, <1>4
<1> QED BY <1>4, <1>5 DEF T

-----------------------------------------------------------------------------
(* Items and how they are spelled.                                          *)

\* Arguments that a user of a program can write.
Argument(prog) ==
  [name : {"", "--", "bogus"} \cup Flags(prog) \cup DOMAIN Defaults(prog), word : Words \cup {None, "1"}]

Dangling(prog) == [kind : {"dangling"}, name : Set \cap DOMAIN Defaults(prog)]

\* What a command line is made of.
Item(prog) == Items(prog) \cup Dangling(prog)

ItemsOK ==
  /\ program \in {"producer", "consumer"}
  /\ items \in Seq(Item(program))
  /\ \A k \in 1..Len(items) : items[k].kind = "dangling" => k = Len(items)

\* Options and flags have different names, none of which is empty or "--".
LEMMA Names ==
  ASSUME NEW prog \in {"producer", "consumer"}
  PROVE  /\ DOMAIN Defaults(prog) \cap Flags(prog) = {}
         /\ "help" \in Flags(prog)
         /\ {"", "--", "bogus"} \cap (Flags(prog) \cup DOMAIN Defaults(prog)) = {}
  BY DEF Defaults, Flags

\* The kinds of items with their fields.
KindOf(item, prog) ==
  \/ /\ item.kind = "set" /\ item.name \in DOMAIN Defaults(prog)
     /\ item.value \in Argument(prog) /\ item.apart \in BOOLEAN
     /\ item.apart \/ \E w \in Words : item.value = Word(w)
  \/ item.kind = "flag" /\ item.name \in Flags(prog)
  \/ item.kind = "word" /\ \E w \in Words : item.value = Word(w)
  \/ item.kind \in {"dashes", "unknown", "flag_value"}
  \/ item.kind = "dangling" /\ item.name \in DOMAIN Defaults(prog)

LEMMA ItemKinds ==
  ASSUME NEW prog \in {"producer", "consumer"}, NEW item \in Item(prog)
  PROVE  KindOf(item, prog)
<1> DEFINE names == Set \cap DOMAIN Defaults(prog)
<1>1. Values \cup {Option("help", None)} \subseteq Argument(prog)
  <2>1. "help" \in Flags(prog)
    BY Names
  <2>2. Option("help", None) \in Argument(prog)
    BY <2>1 DEF Option, Argument
  <2>3. ASSUME NEW w \in Words PROVE Word(w) \in Argument(prog)
    BY DEF Word, Argument
  <2> QED BY <2>2, <2>3 DEF Values
<1>2. names \subseteq DOMAIN Defaults(prog)
  OBVIOUS
<1>3. CASE item \in [kind : {"set"}, name : names, value : Values \cup {Option("help", None)}, apart : {TRUE}]
  BY <1>1, <1>2, <1>3 DEF KindOf
<1>4. CASE item \in [kind : {"set"}, name : names, value : Values, apart : {FALSE}]
  BY <1>1, <1>2, <1>4 DEF KindOf, Values
<1>5. CASE item \in [kind : {"flag"}, name : Flags(prog)]
  BY <1>5 DEF KindOf
<1>6. CASE item \in [kind : {"word"}, value : Values]
  BY <1>6 DEF KindOf, Values
<1>7. CASE item \in {[kind |-> "dashes"], [kind |-> "unknown"], [kind |-> "flag_value"]}
  BY <1>7 DEF KindOf
<1>8. CASE item \in Dangling(prog)
  BY <1>8 DEF KindOf, Dangling
<1> QED BY <1>3, <1>4, <1>5, <1>6, <1>7, <1>8 DEF Item, Items

\* The first argument of an item, by which the parser knows it.
Opening(item, a, prog) ==
  /\ item.kind = "set" => a.name = item.name /\ item.name \in DOMAIN Defaults(prog)
  /\ item.kind = "set" /\ item.apart => a.word = None
  /\ item.kind = "set" /\ ~item.apart => a.word # None /\ Word(a.word) = item.value
  /\ item.kind = "flag" => a.name = item.name /\ item.name \in Flags(prog) /\ a.word = None
  /\ item.kind = "word" => a = item.value /\ a.name = ""
  /\ item.kind = "dashes" => a = Dashes /\ a.name = "--"
  /\ item.kind = "unknown" => a.name = "bogus"
  /\ item.kind = "flag_value" => a.name = "help" /\ a.word # None
  /\ item.kind = "dangling" => a.name \in DOMAIN Defaults(prog) /\ a.word = None

LEMMA SpelledIs ==
  ASSUME NEW prog \in {"producer", "consumer"}, NEW item \in Item(prog)
  PROVE  /\ Spelled(item) \in Seq(Argument(prog))
         /\ Opening(item, Spelled(item)[1], prog)
         /\ Len(Spelled(item)) = IF item.kind = "set" /\ item.apart THEN 2 ELSE 1
         /\ item.kind = "set" /\ item.apart => Spelled(item)[2] = item.value
<1> DEFINE Goal == /\ Spelled(item) \in Seq(Argument(prog))
                   /\ Opening(item, Spelled(item)[1], prog)
                   /\ Len(Spelled(item)) = IF item.kind = "set" /\ item.apart THEN 2 ELSE 1
                   /\ item.kind = "set" /\ item.apart => Spelled(item)[2] = item.value
<1> SUFFICES Goal
  OBVIOUS
<1>1. KindOf(item, prog)
  BY ItemKinds
<1>2. None \notin Words /\ None # "1"
  BY CommandLineAssumption
<1>3. CASE item.kind = "set" /\ item.apart
  <2> DEFINE a == Option(item.name, None)
             b == item.value
  <2>1. Spelled(item) = <<a, b>>
    BY <1>3 DEF Spelled
  <2>2. a \in Argument(prog) /\ b \in Argument(prog) /\ item.name \in DOMAIN Defaults(prog)
    BY <1>1, <1>3 DEF KindOf, Argument, Option
  <2>3. a.name = item.name /\ a.word = None
    BY DEF Option
  <2> HIDE DEF a, b
  <2>4. Opening(item, a, prog)
    BY <1>3, <2>2, <2>3 DEF Opening
  <2> QED BY <1>3, <2>1, <2>2, <2>4 DEF b
<1>4. CASE item.kind = "set" /\ ~item.apart
  <2>1. PICK w \in Words : item.value = Word(w)
    BY <1>1, <1>4 DEF KindOf
  <2> DEFINE a == Option(item.name, w)
  <2>2. Spelled(item) = <<a>>
    <3>1. Word(w).word = w
      BY DEF Word
    <3>2. item.value.word = w
      BY <2>1, <3>1, Zenon
    <3> QED BY <1>4, <3>2 DEF Spelled
  <2>3. a \in Argument(prog) /\ item.name \in DOMAIN Defaults(prog)
    BY <1>1, <1>4 DEF KindOf, Argument, Option
  <2>4. a.name = item.name /\ a.word = w
    BY DEF Option
  <2> HIDE DEF a
  <2>5. Opening(item, a, prog)
    BY <1>2, <1>4, <2>1, <2>3, <2>4 DEF Opening
  <2> QED BY <1>4, <2>2, <2>3, <2>5
<1>5. CASE item.kind \in {"flag", "dangling"}
  <2> DEFINE a == Option(item.name, None)
  <2>1. Spelled(item) = <<a>>
    BY <1>5 DEF Spelled
  <2>2. a \in Argument(prog)
    BY <1>1, <1>5 DEF KindOf, Argument, Option
  <2>3. a.name = item.name /\ a.word = None
    BY DEF Option
  <2> HIDE DEF a
  <2>4. Opening(item, a, prog)
    BY <1>1, <1>5, <2>3 DEF Opening, KindOf
  <2> QED BY <1>5, <2>1, <2>2, <2>4
<1>6. CASE item.kind = "word"
  <2>1. PICK w \in Words : item.value = Word(w)
    BY <1>1, <1>6 DEF KindOf
  <2>2. Spelled(item) = <<item.value>>
    BY <1>6 DEF Spelled
  <2>3. Word(w) \in Argument(prog) /\ Word(w).name = ""
    BY DEF Argument, Word
  <2>4. Opening(item, item.value, prog)
    BY <1>6, <2>1, <2>3 DEF Opening
  <2> DEFINE a == item.value
  <2>5. Spelled(item) = <<a>> /\ a \in Argument(prog) /\ Opening(item, a, prog)
    BY <2>1, <2>2, <2>3, <2>4, Zenon
  <2> HIDE DEF a
  <2> QED BY <1>6, <2>5
<1>7. CASE item.kind \in {"dashes", "unknown", "flag_value"}
  <2> DEFINE a == CASE item.kind = "dashes" -> Dashes
                    [] item.kind = "unknown" -> Option("bogus", None)
                    [] item.kind = "flag_value" -> Option("help", "1")
  <2>1. Spelled(item) = <<a>>
    BY <1>7 DEF Spelled
  <2>2. "help" \in Flags(prog)
    BY Names
  <2>3. a \in Argument(prog)
    BY <1>7, <2>2 DEF Argument, Option, Dashes
  <2>4. Opening(item, a, prog)
    BY <1>2, <1>7 DEF Opening, Option, Dashes
  <2> HIDE DEF a
  <2> QED BY <1>7, <2>1, <2>3, <2>4
<1> QED BY <1>1, <1>3, <1>4, <1>5, <1>6, <1>7 DEF KindOf

-----------------------------------------------------------------------------
(* Where the items are in argv.                                             *)

LEMMA BeforeIs ==
  ASSUME ItemsOK
  PROVE  /\ Before \in 0..Len(items)
         /\ \A k \in 1..Before : items[k].kind # "dashes"
         /\ Before < Len(items) => items[Before + 1].kind = "dashes"
<1> DEFINE L == Len(items)
           T == {n \in 0..L : n < L => items[n + 1].kind = "dashes"}
<1>1. L \in Nat
  BY DEF ItemsOK
<1> HIDE DEF L
<1>2. L \in T /\ T \subseteq Nat
  BY <1>1
<1>3. PICK x \in T : \A y \in T : x <= y
  <2> HIDE DEF T
  <2> QED BY <1>2, LeastNumber
<1>4. ASSUME NEW k \in 1..x PROVE items[k].kind # "dashes"
  <2>1. k - 1 \in 0..L /\ (k - 1) + 1 = k /\ ~ (x <= k - 1)
    BY <1>1
  <2>2. k - 1 \notin T
    BY <1>3, <2>1
  <2> QED BY <2>1, <2>2
<1>5. x \in 0..L /\ (x < L => items[x + 1].kind = "dashes")
  OBVIOUS
<1> QED BY <1>4, <1>5 DEF Before, L

spelt   == [k \in DOMAIN items |-> Spelled(items[k])]
meaning == [k \in DOMAIN items |-> ArgumentsOf(k)]

\* The first n items, spelled, and the arguments that they stand for.
Spell(n) == Flat(spelt, n)
Args(n)  == Flat(meaning, n)

LEMMA ItemIs ==
  ASSUME ItemsOK, NEW k \in 1..Len(items)
  PROVE  /\ items[k] \in Item(program) /\ k \in DOMAIN items
         /\ spelt[k] = Spelled(items[k]) /\ meaning[k] = ArgumentsOf(k)
         /\ spelt[k] \in Seq(Argument(program))
<1>1. items[k] \in Item(program) /\ k \in DOMAIN items
  BY DEF ItemsOK
<1>2. spelt[k] = Spelled(items[k]) /\ meaning[k] = ArgumentsOf(k)
  BY <1>1 DEF spelt, meaning
<1>3. Spelled(items[k]) \in Seq(Argument(program))
  BY <1>1, SpelledIs DEF ItemsOK
<1> QED BY <1>1, <1>2, <1>3

LEMMA MeaningIs ==
  ASSUME ItemsOK, NEW k \in 1..Len(items)
  PROVE  meaning[k] \in Seq(Argument(program))
<1> DEFINE A == Argument(program)
           v == items[k].value
<1>1. items[k] \in Item(program) /\ meaning[k] = ArgumentsOf(k) /\ Spelled(items[k]) \in Seq(A)
  BY ItemIs
<1>2. <<>> \in Seq(A)
  OBVIOUS
<1>3. ASSUME items[k].kind = "word" PROVE <<v>> \in Seq(A)
  <2>1. KindOf(items[k], program)
    BY <1>1, ItemKinds DEF ItemsOK
  <2>2. PICK w \in Words : v = Word(w)
    BY <1>3, <2>1 DEF KindOf
  <2>3. Word(w) \in A
    BY DEF Word, Argument
  <2>4. v \in A
    BY <2>2, <2>3, Zenon
  <2> HIDE DEF v, A
  <2> QED BY <2>4
<1>4. Before \in Nat /\ k \in Nat
  BY BeforeIs DEF ItemsOK
<1>5. \/ ArgumentsOf(k) = <<>> \/ ArgumentsOf(k) = Spelled(items[k])
      \/ items[k].kind = "word" /\ ArgumentsOf(k) = <<v>>
  BY <1>4 DEF ArgumentsOf
<1> HIDE DEF A, v
<1> QED BY <1>1, <1>2, <1>3, <1>5, Zenon DEF A

LEMMA Complete ==
  ASSUME ItemsOK
  PROVE  /\ Len(items) \in Nat /\ DOMAIN items = 1..Len(items)
         /\ Spell(Len(items)) = argv
         /\ Args(Len(items)) = FlattenSeq([k \in DOMAIN items |-> ArgumentsOf(k)])
<1>1. Len(items) \in Nat /\ DOMAIN items = 1..Len(items)
  BY DEF ItemsOK
<1>2. [k \in 1..Len(items) |-> spelt[k]] = spelt /\ [k \in 1..Len(items) |-> meaning[k]] = meaning
  BY <1>1 DEF spelt, meaning
<1> QED BY <1>1, <1>2 DEF Spell, Args, Flat, argv, spelt, meaning

\* The item behind the first n.
LEMMA Position ==
  ASSUME ItemsOK, NEW n \in Nat, n < Len(items)
  PROVE  /\ Len(Spell(n)) \in Nat
         /\ Len(Spell(n + 1)) = Len(Spell(n)) + Len(Spelled(items[n + 1]))
         /\ Len(Spell(n + 1)) <= Len(argv)
         /\ \A j \in 1..Len(Spelled(items[n + 1])) : argv[Len(Spell(n)) + j] = Spelled(items[n + 1])[j]
<1> DEFINE S == Argument(program)
           L == Len(items)
<1>1. L \in Nat /\ \A k \in 1..L : spelt[k] \in Seq(S)
  BY ItemIs, Complete
<1>2. n + 1 \in 1..L
  BY <1>1
<1>3. spelt[n + 1] = Spelled(items[n + 1])
  BY <1>2, ItemIs
<1>4. argv = Flat(spelt, L)
  BY Complete DEF Spell
<1> HIDE DEF S, L
<1>5. \A k \in 1..(n + 1) : spelt[k] \in Seq(S)
  BY <1>1, <1>2
<1>6. Flat(spelt, n) \in Seq(S) /\ Flat(spelt, n + 1) = Flat(spelt, n) \o spelt[n + 1]
  BY <1>5, FlatNext
<1>7. InFront(Flat(spelt, n + 1), Flat(spelt, L))
  <2>1. n + 1 \in 0..L
    BY <1>1, <1>2
  <2> QED BY <1>1, <2>1, FlatPrefix
<1> DEFINE a == Flat(spelt, n)
           b == spelt[n + 1]
           c == Flat(spelt, L)
<1>8. a \in Seq(S) /\ b \in Seq(S) /\ InFront(a \o b, c)
  <2>1. n + 1 \in 1..(n + 1)
    OBVIOUS
  <2>2. b \in Seq(S)
    BY <1>5, <2>1
  <2> QED BY <1>6, <1>7, <2>2
<1>9. Spell(n) = a /\ Spell(n + 1) = a \o b /\ Spelled(items[n + 1]) = b /\ argv = c
  BY <1>3, <1>4, <1>6 DEF Spell
<1> HIDE DEF a, b, c
<1>10. Len(a) \in Nat /\ Len(b) \in Nat /\ Len(a \o b) = Len(a) + Len(b)
  BY <1>8
<1>11. Len(a) + Len(b) <= Len(c)
  BY <1>8, <1>10 DEF InFront
<1>12. ASSUME NEW j \in 1..Len(b) PROVE c[Len(a) + j] = b[j]
  <2>1. (a \o b)[Len(a) + j] = b[j] /\ Len(a) + j \in 1..Len(a \o b)
    BY <1>8, <1>10
  <2> QED BY <1>8, <2>1 DEF InFront
<1> QED BY <1>9, <1>10, <1>11, <1>12

\* One more item, one more meaning.
LEMMA ArgsNext ==
  ASSUME ItemsOK, NEW n \in Nat, n < Len(items)
  PROVE  /\ Args(n) \in Seq(Argument(program)) /\ Spell(n) \in Seq(Argument(program))
         /\ ArgumentsOf(n + 1) \in Seq(Argument(program))
         /\ Args(n + 1) = Args(n) \o ArgumentsOf(n + 1)
         /\ Spell(n + 1) = Spell(n) \o Spelled(items[n + 1])
<1> DEFINE S == Argument(program)
           L == Len(items)
<1>1. L \in Nat /\ \A k \in 1..L : spelt[k] \in Seq(S) /\ meaning[k] \in Seq(S)
  BY ItemIs, MeaningIs, Complete
<1>2. n + 1 \in 1..L
  BY <1>1
<1>3. spelt[n + 1] = Spelled(items[n + 1]) /\ meaning[n + 1] = ArgumentsOf(n + 1)
  BY <1>2, ItemIs
<1> HIDE DEF S, L
<1>4. (\A k \in 1..(n + 1) : meaning[k] \in Seq(S)) /\ (\A k \in 1..(n + 1) : spelt[k] \in Seq(S))
  BY <1>1, <1>2
<1>5. Flat(spelt, n) \in Seq(S) /\ Flat(spelt, n + 1) = Flat(spelt, n) \o spelt[n + 1]
  BY <1>4, FlatNext
<1>6. Flat(meaning, n) \in Seq(S) /\ Flat(meaning, n + 1) = Flat(meaning, n) \o meaning[n + 1]
  BY <1>4, FlatNext
<1>7. meaning[n + 1] \in Seq(S)
  BY <1>1, <1>2
<1> QED BY <1>3, <1>5, <1>6, <1>7 DEF Spell, Args, S

LEMMA CatAssoc ==
  ASSUME NEW S, NEW a \in Seq(S), NEW b \in Seq(S), NEW c \in Seq(S)
  PROVE  (a \o b) \o c = a \o (b \o c)
  OBVIOUS

\* What a sequence has behind its first p elements.
Rest(s, p) == SubSeq(s, p + 1, Len(s))

LEMMA RestCat ==
  ASSUME NEW S, NEW a \in Seq(S), NEW b \in Seq(S), NEW p \in 0..Len(a)
  PROVE  Rest(a, p) \in Seq(S) /\ Rest(a \o b, p) = Rest(a, p) \o b
<1> DEFINE c == a \o b
<1>1. c \in Seq(S) /\ Len(c) = Len(a) + Len(b) /\ Len(a) \in Nat /\ Len(b) \in Nat
  OBVIOUS
<1>2. /\ \A j \in 1..Len(a) : c[j] = a[j]
      /\ \A j \in 1..Len(b) : c[Len(a) + j] = b[j]
  OBVIOUS
<1>3. /\ Rest(a, p) \in Seq(S) /\ Len(Rest(a, p)) = Len(a) - p
      /\ \A j \in 1..(Len(a) - p) : Rest(a, p)[j] = a[p + j]
  BY DEF Rest
<1> HIDE DEF c
<1>4. /\ Rest(c, p) \in Seq(S) /\ Len(Rest(c, p)) = Len(c) - p
      /\ \A j \in 1..(Len(c) - p) : Rest(c, p)[j] = c[p + j]
  BY <1>1 DEF Rest
<1> DEFINE q == Rest(a, p)
           r == q \o b
<1>5. /\ r \in Seq(S) /\ Len(r) = Len(q) + Len(b)
      /\ \A j \in 1..Len(q) : r[j] = q[j]
      /\ \A j \in 1..Len(b) : r[Len(q) + j] = b[j]
  <2>1. q \in Seq(S)
    BY <1>3
  <2> HIDE DEF q
  <2> QED BY <2>1
<1> HIDE DEF r
<1>6. ASSUME NEW j \in 1..(Len(c) - p) PROVE Rest(c, p)[j] = r[j]
  <2>1. CASE j <= Len(q)
    <3>1. j \in 1..Len(q) /\ j \in 1..(Len(a) - p) /\ p + j \in 1..Len(a)
      BY <1>1, <1>3, <2>1
    <3> QED BY <1>2, <1>3, <1>4, <1>5, <3>1
  <2>2. CASE j > Len(q)
    <3> DEFINE k == j - Len(q)
    <3>1. k \in 1..Len(b) /\ j = Len(q) + k /\ p + j = Len(a) + k
      BY <1>1, <1>3, <2>2
    <3> HIDE DEF k
    <3> QED BY <1>2, <1>4, <1>5, <3>1
  <2> QED BY <1>1, <1>3, <2>1, <2>2
<1>7. Len(Rest(c, p)) = Len(r) /\ Len(Rest(c, p)) = Len(c) - p
  BY <1>1, <1>3, <1>4, <1>5
<1>8. Rest(c, p) = r
  BY <1>4, <1>5, <1>6, <1>7, SameSeq
<1> QED BY <1>3, <1>8 DEF c, r

\* Behind "--" the arguments are as they are written.
LEMMA BehindDashes ==
  ASSUME ItemsOK, Before < Len(items)
  PROVE  Args(Len(items)) = Args(Before) \o Rest(argv, Len(Spell(Before + 1)))
<1> DEFINE S == Argument(program)
           B == Before
           p == Len(Spell(B + 1))
           L == Len(items)
           T == {d \in Nat : (B + 1) + d <= L =>
                   /\ Args((B + 1) + d) = Args(B) \o Rest(Spell((B + 1) + d), p)
                   /\ p <= Len(Spell((B + 1) + d))}
<1>1. L \in Nat /\ B \in Nat /\ B < L /\ L - 1 \in Nat /\ L - 1 < L
  BY BeforeIs, Complete
<1>2. Args(B) \in Seq(S) /\ Args(B + 1) = Args(B) \o ArgumentsOf(B + 1)
  BY <1>1, ArgsNext
<1>3. Spell(B + 1) \in Seq(S)
  <2>1. \A k \in 1..(B + 1) : spelt[k] \in Seq(S)
    BY <1>1, ItemIs
  <2> QED BY <1>1, <2>1, FlatSeq DEF Spell
<1>4. ArgumentsOf(B + 1) = <<>>
  BY <1>1 DEF ArgumentsOf
<1> HIDE DEF S, B, L
<1>5. 0 \in T
  <2> DEFINE a == Args(B)
             b == Spell(B + 1)
  <2>1. a \in Seq(S) /\ b \in Seq(S)
    BY <1>2, <1>3
  <2> HIDE DEF a, b
  <2>2. Rest(b, Len(b)) = <<>> /\ Len(b) <= Len(b) /\ a \o <<>> = a
    BY <2>1 DEF Rest
  <2>3. (B + 1) + 0 = B + 1
    BY <1>1
  <2>4. Args((B + 1) + 0) = a \o <<>> /\ Spell((B + 1) + 0) = b /\ p = Len(b)
    BY <1>2, <1>4, <2>3 DEF a, b
  <2>5. Args((B + 1) + 0) = Args(B) \o Rest(Spell((B + 1) + 0), p)
    BY <2>2, <2>4, Zenon DEF a
  <2>6. p <= Len(Spell((B + 1) + 0))
    BY <2>2, <2>4, Zenon
  <2> QED BY <2>5, <2>6
<1>6. ASSUME NEW d \in Nat, d \in T PROVE d + 1 \in T
  <2> SUFFICES ASSUME (B + 1) + (d + 1) <= L
               PROVE  /\ Args((B + 1) + (d + 1)) = Args(B) \o Rest(Spell((B + 1) + (d + 1)), p)
                      /\ p <= Len(Spell((B + 1) + (d + 1)))
    OBVIOUS
  <2> DEFINE n == (B + 1) + d
  <2>1. n \in Nat /\ (B + 1) + (d + 1) = n + 1 /\ n < L /\ n <= L
    BY <1>1
  <2>2. Args(n) = Args(B) \o Rest(Spell(n), p) /\ p <= Len(Spell(n))
    BY <1>6, <2>1
  <2>3. /\ Args(n) \in Seq(S) /\ Spell(n) \in Seq(S)
        /\ Args(n + 1) = Args(n) \o ArgumentsOf(n + 1)
        /\ Spell(n + 1) = Spell(n) \o Spelled(items[n + 1])
    BY <2>1, ArgsNext DEF S, L
  <2>4. ArgumentsOf(n + 1) = Spelled(items[n + 1]) /\ ArgumentsOf(n + 1) \in Seq(S)
    <3>1. n + 1 > B + 1 /\ ~ (n + 1 <= B) /\ n + 1 # B + 1
      BY <1>1
    <3>2. ArgumentsOf(n + 1) = Spelled(items[n + 1])
      BY <3>1 DEF ArgumentsOf, B
    <3> QED BY <2>1, <3>2, ArgsNext DEF S, L
  <2> HIDE DEF n
  <2> DEFINE a == Args(B)
             b == Spell(n)
             c == Spelled(items[n + 1])
             r == Rest(b, p)
  <2>5. a \in Seq(S) /\ b \in Seq(S) /\ c \in Seq(S) /\ p \in 0..Len(b)
    BY <1>2, <1>3, <2>2, <2>3, <2>4
  <2> HIDE DEF a, b, c, p
  <2>6. r \in Seq(S) /\ Rest(b \o c, p) = r \o c
    BY <2>5, RestCat
  <2> HIDE DEF r
  <2>7. (a \o r) \o c = a \o (r \o c)
    <3>1. a \in Seq(S) /\ r \in Seq(S) /\ c \in Seq(S)
      BY <2>5, <2>6
    <3> QED BY <3>1, CatAssoc
  <2>8. Args(n + 1) = (a \o r) \o c /\ Spell(n + 1) = b \o c
    BY <2>2, <2>3, <2>4, Zenon DEF a, b, c, r
  <2>9. Args(n + 1) = a \o Rest(Spell(n + 1), p)
    BY <2>6, <2>7, <2>8, Zenon
  <2>10. p <= Len(Spell(n + 1))
    BY <2>5, <2>8
  <2> QED BY <2>1, <2>9, <2>10, Zenon DEF a
<1> HIDE DEF T
<1>7. \A d \in Nat : d \in T
  BY <1>5, <1>6, SetInduction
<1>8. L - (B + 1) \in Nat /\ (B + 1) + (L - (B + 1)) = L
  BY <1>1
<1>9. Args(L) = Args(B) \o Rest(Spell(L), p)
  <2>1. L - (B + 1) \in T
    BY <1>7, <1>8
  <2> QED BY <1>1, <1>8, <2>1 DEF T
<1> QED BY <1>9, Complete DEF L, B

-----------------------------------------------------------------------------
(* The invariant.                                                           *)

Setting(k, o) == items[k].kind = "set" /\ items[k].name = o

\* An option has its default until an item sets it, and then what the last of them
\* sets.
SettledAs(n, o) ==
  \/ /\ \A k \in 1..n : ~Setting(k, o)
     /\ entries[o] = [value |-> Word(Defaults(program)[o]), explicit |-> FALSE]
  \/ \E k \in 1..n :
       /\ Setting(k, o) /\ \A m \in (k + 1)..n : ~Setting(m, o)
       /\ entries[o] = [value |-> items[k].value, explicit |-> TRUE]

Settled(n) == DOMAIN entries = DOMAIN Defaults(program) /\ \A o \in DOMAIN Defaults(program) : SettledAs(n, o)

FlagsRead(n) == flags = {items[k].name : k \in {j \in 1..n : items[j].kind = "flag"}}

WellFormed(n) == \A k \in 1..n : items[k].kind \notin {"unknown", "flag_value", "dangling"}

\* Options and flags of the first n items have been entered.
Consumed(n) == n \in 0..Before /\ WellFormed(n) /\ Settled(n) /\ FlagsRead(n)

\* The parser is behind n items, before "--".
ReadAt(n) == Consumed(n) /\ i = Len(Spell(n)) + 1 /\ positionals = Args(n)

\* The parser is behind "--".
ReadBehind ==
  /\ Before < Len(items) /\ Consumed(Before)
  /\ i \in Nat /\ Len(Spell(Before + 1)) < i /\ i <= Len(argv) + 1
  /\ positionals = Args(Before) \o SubSeq(argv, Len(Spell(Before + 1)) + 1, i - 1)

\* All has been read.
Done == Consumed(Before) /\ positionals = Args(Len(items))

Refused  == {"unknown option", "does not take a value", "requires a value"}
Outcomes == {"help", "given both", "payload size is required", "not a byte size", "not a number",
             "must be positive", "accepted"}

CommandInv ==
  /\ ItemsOK
  /\ only \in BOOLEAN
  /\ result = "parsing" /\ ~only => \E n \in 0..Before : ReadAt(n)
  /\ result = "parsing" /\ only => ReadBehind
  /\ result \in Refused => result = Complaint
  /\ result \in {"parsed", "unexpected argument"} \cup Outcomes => Done
  /\ result = "unexpected argument" => Len(positionals) > MaxPositionals(program)
  /\ result \in Outcomes => result = Verdict

\* What a step leaves alone as long as the command line is the same.
LEMMA SameLine ==
  ASSUME UNCHANGED <<program, items>>, NEW n, NEW o
  PROVE  /\ ItemsOK => ItemsOK'
         /\ Before' = Before /\ Len(items)' = Len(items) /\ argv' = argv
         /\ Spell(n)' = Spell(n) /\ Args(n)' = Args(n)
         /\ WellFormed(n) <=> WellFormed(n)'
         /\ Setting(n, o) <=> Setting(n, o)'
<1>1. ItemsOK => ItemsOK'
  BY DEF ItemsOK
<1>2. Before' = Before
  BY DEF Before
<1>3. Len(items)' = Len(items)
  OBVIOUS
<1>4. argv' = argv
  BY DEF argv
<1>5. spelt' = spelt
  BY DEF spelt
<1>6. meaning' = meaning
  BY <1>2 DEF meaning, ArgumentsOf
<1>7. Spell(n)' = Spell(n)
  BY <1>5 DEF Spell
<1>8. Args(n)' = Args(n)
  BY <1>6 DEF Args
<1>9. WellFormed(n) <=> WellFormed(n)'
  BY DEF WellFormed
<1>10. Setting(n, o) <=> Setting(n, o)'
  BY DEF Setting
<1> QED BY <1>1, <1>2, <1>3, <1>4, <1>7, <1>8, <1>9, <1>10

LEMMA InitItems == Init => ItemsOK
<1> SUFFICES ASSUME Init PROVE ItemsOK
  OBVIOUS
<1>1. program \in {"producer", "consumer"}
  BY CommandLineAssumption DEF Init
<1> DEFINE I == Items(program)
           D == Dangling(program)
<1>2. PICK n \in 0..MaxItems : \E s \in [1..n -> I], e \in Endings(program) : items = s \o e
  BY DEF Init
<1>3. PICK s \in [1..n -> I], e \in Endings(program) : items = s \o e
  BY <1>2
<1>4. n \in Nat
  BY CommandLineAssumption
<1>5. ASSUME NEW item \in I PROVE item.kind # "dangling"
  <2> DEFINE names == Set \cap DOMAIN Defaults(program)
  <2>1. CASE item \in [kind : {"set"}, name : names, value : Values \cup {Option("help", None)}, apart : {TRUE}]
    BY <2>1
  <2>2. CASE item \in [kind : {"set"}, name : names, value : Values, apart : {FALSE}]
    BY <2>2
  <2>3. CASE item \in [kind : {"flag"}, name : Flags(program)]
    BY <2>3
  <2>4. CASE item \in [kind : {"word"}, value : Values]
    BY <2>4
  <2>5. CASE item \in {[kind |-> "dashes"], [kind |-> "unknown"], [kind |-> "flag_value"]}
    BY <2>5
  <2> QED BY <2>1, <2>2, <2>3, <2>4, <2>5 DEF Items
<1>6. I \subseteq Item(program) /\ D \subseteq Item(program)
  BY DEF Item
<1>7. e = <<>> \/ \E item \in D : e = <<item>>
  BY DEF Endings, Dangling
<1> HIDE DEF I, D
<1>8. s \in Seq(I) /\ Len(s) = n /\ \A k \in 1..n : s[k] \in I
  BY <1>3, <1>4
<1>9. CASE e = <<>>
  <2>1. items = s
    BY <1>3, <1>8, <1>9
  <2>2. s \in Seq(Item(program))
    BY <1>6, <1>8
  <2>3. \A k \in 1..Len(s) : s[k].kind # "dangling"
    BY <1>5, <1>8
  <2> QED BY <1>1, <2>1, <2>2, <2>3 DEF ItemsOK
<1>10. CASE \E item \in D : e = <<item>>
  <2>1. PICK item \in D : e = <<item>>
    BY <1>10
  <2> DEFINE X == Item(program)
  <2>2. s \in Seq(X) /\ item \in X
    BY <1>6, <1>8
  <2> HIDE DEF X
  <2>3. items = Append(s, item)
    BY <1>3, <2>1, <2>2
  <2>4. /\ Append(s, item) \in Seq(X) /\ Len(Append(s, item)) = n + 1
        /\ \A k \in 1..n : Append(s, item)[k] = s[k]
    BY <1>8, <2>2
  <2>5. items \in Seq(X) /\ Len(items) = n + 1 /\ \A k \in 1..n : items[k] = s[k]
    BY <2>3, <2>4
  <2>6. ASSUME NEW k \in 1..Len(items), items[k].kind = "dangling" PROVE k = Len(items)
    <3>1. CASE k \in 1..n
      BY <1>5, <1>8, <2>5, <2>6, <3>1
    <3> QED BY <1>4, <2>5, <3>1
  <2> QED BY <1>1, <2>5, <2>6 DEF ItemsOK, X
<1> QED BY <1>7, <1>9, <1>10

LEMMA InitCommandInv == Init => CommandInv
<1> SUFFICES ASSUME Init PROVE CommandInv
  OBVIOUS
<1>1. ItemsOK
  BY InitItems
<1>2. Spell(0) = <<>> /\ Args(0) = <<>>
  BY FlatZero DEF Spell, Args
<1>3. 0 \in 0..Before
  BY <1>1, BeforeIs, Complete
<1>4. WellFormed(0)
  BY DEF WellFormed
<1>5. DOMAIN entries = DOMAIN Defaults(program)
  BY DEF Init
<1>6. ASSUME NEW o \in DOMAIN Defaults(program) PROVE SettledAs(0, o)
  BY DEF Init, SettledAs
<1>7. FlagsRead(0)
  BY DEF Init, FlagsRead
<1>8. i = Len(Spell(0)) + 1
  BY <1>2 DEF Init
<1>9. positionals = Args(0)
  BY <1>2 DEF Init
<1>10. ReadAt(0)
  BY <1>3, <1>4, <1>5, <1>6, <1>7, <1>8, <1>9, Zenon DEF ReadAt, Consumed, Settled
<1> QED BY <1>1, <1>3, <1>10 DEF Init, CommandInv, Refused, Outcomes

-----------------------------------------------------------------------------
(* The steps before "--".                                                   *)

\* The item that the parser has in front of it.
Facing(n) ==
  /\ n \in 0..Before /\ n < Len(items) /\ i \in Nat
  /\ Opening(items[n + 1], argv[i], program)
  /\ n = Before <=> items[n + 1].kind = "dashes"
  /\ Len(Spell(n + 1)) <= Len(argv)
  /\ items[n + 1].kind = "set" /\ items[n + 1].apart =>
       Len(Spell(n + 1)) = i + 1 /\ argv[i + 1] = items[n + 1].value
  /\ ~ (items[n + 1].kind = "set" /\ items[n + 1].apart) => Len(Spell(n + 1)) = i
  /\ items[n + 1].kind = "dangling" => i = Len(argv)
  /\ items[n + 1].kind \in {"set", "flag", "word", "dashes", "unknown", "flag_value", "dangling"}

LEMMA FacingIs ==
  ASSUME ItemsOK, NEW n \in Nat, ReadAt(n), i <= Len(argv)
  PROVE  Facing(n)
<1> DEFINE item == items[n + 1]
           L == Len(items)
           word == Spelled(item)
<1>1. L \in Nat /\ Spell(L) = argv
  BY Complete
<1>2. n \in 0..Before /\ Before \in 0..L /\ i = Len(Spell(n)) + 1
  BY BeforeIs DEF ReadAt, Consumed
<1>3. argv \in Seq(Argument(program))
  <2>1. \A k \in 1..L : spelt[k] \in Seq(Argument(program))
    BY ItemIs
  <2>2. Flat(spelt, L) \in Seq(Argument(program))
    BY <1>1, <2>1, FlatSeq
  <2> QED BY <1>1, <2>2 DEF Spell
<1>4. n < L
  <2> SUFFICES ASSUME n = L PROVE FALSE
    BY <1>1, <1>2
  <2>1. i = Len(argv) + 1
    BY <1>1, <1>2
  <2>2. Len(argv) \in Nat
    BY <1>3
  <2> QED BY <2>1, <2>2
<1>5. /\ Len(Spell(n)) \in Nat /\ Len(Spell(n + 1)) = Len(Spell(n)) + Len(word)
      /\ Len(Spell(n + 1)) <= Len(argv)
      /\ \A j \in 1..Len(word) : argv[Len(Spell(n)) + j] = word[j]
  BY <1>4, Position
<1>6. n + 1 \in 1..L
  BY <1>1, <1>2, <1>4
<1>7. item \in Item(program)
  BY <1>6, ItemIs
<1>8. /\ Opening(item, word[1], program)
      /\ Len(word) = IF item.kind = "set" /\ item.apart THEN 2 ELSE 1
      /\ item.kind = "set" /\ item.apart => word[2] = item.value
  BY <1>7, SpelledIs DEF ItemsOK
<1>9. item.kind = "dangling" => n + 1 = L
  BY <1>6 DEF ItemsOK
<1>10. n = Before <=> item.kind = "dashes"
  <2>1. ASSUME n # Before PROVE item.kind # "dashes"
    <3>1. n + 1 \in 1..Before
      BY <1>1, <1>2, <2>1
    <3> QED BY <3>1, BeforeIs
  <2>2. ASSUME n = Before PROVE item.kind = "dashes"
    BY <1>4, <2>2, BeforeIs
  <2> QED BY <2>1, <2>2
<1>11. item.kind \in {"set", "flag", "word", "dashes", "unknown", "flag_value", "dangling"}
  <2>1. KindOf(item, program)
    BY <1>7, ItemKinds DEF ItemsOK
  <2> QED BY <2>1 DEF KindOf
<1> HIDE DEF item, word, L
<1>12. i \in Nat /\ argv[i] = word[1]
  BY <1>2, <1>5, <1>8
<1>13. item.kind = "set" /\ item.apart => Len(Spell(n + 1)) = i + 1 /\ argv[i + 1] = item.value
  BY <1>2, <1>5, <1>8
<1>14. ~ (item.kind = "set" /\ item.apart) => Len(Spell(n + 1)) = i
  BY <1>2, <1>5, <1>8
<1>15. item.kind = "dangling" => i = Len(argv)
  <2> SUFFICES ASSUME item.kind = "dangling" PROVE i = Len(argv)
    OBVIOUS
  <2>1. Spell(n + 1) = argv
    BY <1>1, <1>9
  <2> QED BY <1>14, <2>1
<1> QED BY <1>2, <1>4, <1>5, <1>8, <1>10, <1>11, <1>12, <1>13, <1>14, <1>15 DEF Facing, item, L

\* An item that sets nothing, an item that is no flag.
LEMMA SettledSkip ==
  ASSUME NEW n \in Nat, NEW o, SettledAs(n, o), ~Setting(n + 1, o)
  PROVE  SettledAs(n + 1, o)
<1>1. \A k \in 1..(n + 1) : k \in 1..n \/ k = n + 1
  OBVIOUS
<1>2. CASE /\ \A k \in 1..n : ~Setting(k, o)
           /\ entries[o] = [value |-> Word(Defaults(program)[o]), explicit |-> FALSE]
  <2>1. \A k \in 1..(n + 1) : ~Setting(k, o)
    BY <1>1, <1>2
  <2> QED BY <1>2, <2>1 DEF SettledAs
<1>3. CASE \E k \in 1..n : /\ Setting(k, o) /\ \A m \in (k + 1)..n : ~Setting(m, o)
                           /\ entries[o] = [value |-> items[k].value, explicit |-> TRUE]
  <2>1. PICK k \in 1..n : /\ Setting(k, o) /\ \A m \in (k + 1)..n : ~Setting(m, o)
                           /\ entries[o] = [value |-> items[k].value, explicit |-> TRUE]
    BY <1>3
  <2>2. k \in 1..(n + 1) /\ \A m \in (k + 1)..(n + 1) : ~Setting(m, o)
    <3>1. ASSUME NEW m \in (k + 1)..(n + 1) PROVE m \in (k + 1)..n \/ m = n + 1
      OBVIOUS
    <3> QED BY <2>1, <3>1
  <2> QED BY <2>1, <2>2 DEF SettledAs
<1> QED BY <1>2, <1>3 DEF SettledAs

LEMMA FlagsSkip ==
  ASSUME NEW n \in Nat, FlagsRead(n), items[n + 1].kind # "flag"
  PROVE  FlagsRead(n + 1)
<1>1. {j \in 1..n : items[j].kind = "flag"} = {j \in 1..(n + 1) : items[j].kind = "flag"}
  <2>1. \A j \in 1..(n + 1) : j \in 1..n \/ j = n + 1
    OBVIOUS
  <2>2. \A j \in 1..n : j \in 1..(n + 1)
    OBVIOUS
  <2> QED BY <2>1, <2>2
<1> QED BY <1>1, Zenon DEF FlagsRead

\* What an item has changed is entered and what it stands for is kept: the parser is
\* behind it.
LEMMA ReadNext ==
  ASSUME ItemsOK, UNCHANGED <<program, items>>, NEW n \in Nat, ReadAt(n), Facing(n),
         items[n + 1].kind \in {"set", "flag", "word"},
         Settled(n + 1)', FlagsRead(n + 1)',
         i' = Len(Spell(n + 1)) + 1, positionals' = positionals \o ArgumentsOf(n + 1)
  PROVE  n + 1 \in 0..Before' /\ ReadAt(n + 1)'
<1> DEFINE e == n + 1
<1>1. Before \in Nat /\ n \in 0..Before /\ n # Before
  BY BeforeIs, Complete DEF Facing
<1>2. e \in 0..Before /\ e \in 0..Before'
  BY <1>1, SameLine
<1>3. WellFormed(e)
  <2>1. WellFormed(n)
    BY DEF ReadAt, Consumed
  <2>2. \A k \in 1..e : k \in 1..n \/ k = e
    OBVIOUS
  <2> QED BY <2>1, <2>2 DEF WellFormed
<1>4. Args(e) = Args(n) \o ArgumentsOf(e)
  BY ArgsNext DEF Facing
<1>5. positionals' = Args(e)
  BY <1>4 DEF ReadAt
<1> HIDE DEF e
<1>6. Spell(e)' = Spell(e) /\ Args(e)' = Args(e) /\ WellFormed(e)'
  BY <1>3, SameLine
<1>7. i' = Len(Spell(e)') + 1 /\ positionals' = Args(e)'
  BY <1>5, <1>6 DEF e
<1>8. Settled(e)' /\ FlagsRead(e)'
  BY DEF e
<1>9. ReadAt(e)'
  BY <1>2, <1>6, <1>7, <1>8 DEF ReadAt, Consumed
<1> QED BY <1>2, <1>9 DEF e

LEMMA StillReading ==
  ASSUME CommandInv, UNCHANGED <<program, items, only, result>>, ~only, result = "parsing",
         NEW n \in Nat, n \in 0..Before', ReadAt(n)'
  PROVE  CommandInv'
<1>1. ItemsOK'
  BY SameLine DEF CommandInv
<1>2. only' \in BOOLEAN /\ ~only' /\ result' = "parsing"
  BY DEF CommandInv
<1>3. \E m \in 0..Before' : ReadAt(m)'
  OBVIOUS
<1> QED BY <1>1, <1>2, <1>3 DEF CommandInv, Refused, Outcomes

\* The parser knows an item by its first argument.
LEMMA KnownAs ==
  ASSUME ItemsOK, NEW n \in Nat, Facing(n), ~only
  PROVE  LET kind == items[n + 1].kind
         IN  /\ ~IsOption => kind = "word"
             /\ IsOption => kind # "word"
             /\ kind = "dashes" <=> IsOption /\ argv[i] = Dashes
             /\ IsFlag <=> kind \in {"flag", "flag_value"}
             /\ Takes <=> kind \in {"set", "dangling"}
<1> DEFINE item == items[n + 1]
           a == argv[i]
<1>1. Opening(item, a, program)
  BY DEF Facing
<1>2. item.kind \in {"set", "flag", "word", "dashes", "unknown", "flag_value", "dangling"}
  BY DEF Facing
<1>3. /\ DOMAIN Defaults(program) \cap Flags(program) = {}
      /\ "help" \in Flags(program)
      /\ {"", "--", "bogus"} \cap (Flags(program) \cup DOMAIN Defaults(program)) = {}
  BY Names DEF ItemsOK
<1>4. Dashes.name = "--"
  BY DEF Dashes, Option
<1>5. (IsOption <=> a.name # "") /\ (IsFlag <=> a.name # "" /\ a.name \in Flags(program))
      /\ (Takes <=> a.name # "" /\ a.name \in DOMAIN Defaults(program))
  BY DEF IsOption, IsFlag, Takes
<1> HIDE DEF a, item
<1>6. CASE item.kind = "set"
  BY <1>1, <1>3, <1>4, <1>5, <1>6 DEF Opening, item, a
<1>7. CASE item.kind = "flag"
  BY <1>1, <1>3, <1>4, <1>5, <1>7 DEF Opening, item, a
<1>8. CASE item.kind = "word"
  BY <1>1, <1>3, <1>4, <1>5, <1>8 DEF Opening, item, a
<1>9. CASE item.kind = "dashes"
  BY <1>1, <1>3, <1>4, <1>5, <1>9 DEF Opening, item, a
<1>10. CASE item.kind = "unknown"
  BY <1>1, <1>3, <1>4, <1>5, <1>10 DEF Opening, item, a
<1>11. CASE item.kind = "flag_value"
  BY <1>1, <1>3, <1>4, <1>5, <1>11 DEF Opening, item, a
<1>12. CASE item.kind = "dangling"
  BY <1>1, <1>3, <1>4, <1>5, <1>12 DEF Opening, item, a
<1> QED BY <1>2, <1>6, <1>7, <1>8, <1>9, <1>10, <1>11, <1>12

LEMMA ReadingIs ==
  ASSUME CommandInv, More, ~only
  PROVE  ItemsOK /\ \E n \in Nat : ReadAt(n) /\ Facing(n)
<1>1. PICK n \in 0..Before : ReadAt(n)
  BY DEF CommandInv, More
<1>2. ItemsOK
  BY DEF CommandInv
<1>3. n \in Nat
  BY <1>2, BeforeIs, Complete
<1>4. Facing(n)
  BY <1>1, <1>2, <1>3, FacingIs DEF More
<1> QED BY <1>1, <1>2, <1>3, <1>4

\* What items before "--" stand for.
LEMMA MeaningBefore ==
  ASSUME ItemsOK, NEW n \in Nat, Facing(n), items[n + 1].kind # "dashes"
  PROVE  /\ items[n + 1].kind = "word" => ArgumentsOf(n + 1) = <<argv[i]>>
         /\ items[n + 1].kind # "word" => ArgumentsOf(n + 1) = <<>>
<1>1. Before \in Nat /\ n + 1 <= Before
  BY BeforeIs, Complete DEF Facing
<1>2. items[n + 1].kind = "word" => argv[i] = items[n + 1].value
  BY DEF Facing, Opening
<1> QED BY <1>1, <1>2 DEF ArgumentsOf

LEMMA PositionalStep ==
  ASSUME CommandInv, Positional, ~only
  PROVE  CommandInv'
<1>1. ItemsOK
  BY DEF CommandInv
<1>2. PICK n \in Nat : ReadAt(n) /\ Facing(n)
  BY ReadingIs DEF Positional
<1>3. items[n + 1].kind = "word"
  BY <1>1, <1>2, KnownAs DEF Positional
<1>4. UNCHANGED <<program, items, only, entries, flags, result>> /\ result = "parsing"
  BY DEF Positional, More
<1>5. Settled(n) /\ FlagsRead(n)
  BY <1>2 DEF ReadAt, Consumed
<1>6. Settled(n + 1)
  <2>1. \A o \in DOMAIN Defaults(program) : SettledAs(n + 1, o)
    BY <1>3, <1>5, SettledSkip DEF Settled, Setting
  <2> QED BY <1>5, <2>1 DEF Settled
<1>7. Settled(n + 1)'
  BY <1>4, <1>6 DEF Settled, SettledAs, Setting
<1>8. FlagsRead(n + 1)'
  <2>1. FlagsRead(n + 1)
    BY <1>3, <1>5, FlagsSkip
  <2> QED BY <1>4, <2>1 DEF FlagsRead
<1>9. i' = Len(Spell(n + 1)) + 1
  BY <1>2, <1>3 DEF Facing, Positional
<1>10. positionals' = positionals \o ArgumentsOf(n + 1)
  <2>1. ArgumentsOf(n + 1) = <<argv[i]>>
    BY <1>1, <1>2, <1>3, MeaningBefore
  <2>2. positionals \in Seq(Argument(program)) /\ <<argv[i]>> \in Seq(Argument(program))
    BY <1>1, <1>2, <2>1, ArgsNext DEF ReadAt, Facing
  <2>3. positionals' = Append(positionals, argv[i])
    BY DEF Positional
  <2> DEFINE a == argv[i]
             S == Argument(program)
  <2> HIDE DEF a, S
  <2>4. positionals \in Seq(S) /\ <<a>> \in Seq(S)
    BY <2>2 DEF a, S
  <2>5. Append(positionals, a) = positionals \o <<a>>
    BY <2>4
  <2> QED BY <2>1, <2>3, <2>5, Zenon DEF a
<1>11. n + 1 \in 0..Before' /\ ReadAt(n + 1)'
  BY <1>1, <1>2, <1>3, <1>4, <1>7, <1>8, <1>9, <1>10, ReadNext
<1> QED BY <1>4, <1>11, StillReading

LEMMA FlagStep ==
  ASSUME CommandInv, Flag, ~only
  PROVE  CommandInv'
<1>1. ItemsOK
  BY DEF CommandInv
<1>2. PICK n \in Nat : ReadAt(n) /\ Facing(n)
  BY ReadingIs DEF Flag
<1> DEFINE item == items[n + 1]
<1>3. Opening(item, argv[i], program) /\ argv[i].word = None
  BY <1>2 DEF Facing, Flag
<1>4. item.kind = "flag" /\ argv[i].name = item.name
  <2>1. item.kind \in {"flag", "flag_value"}
    BY <1>1, <1>2, KnownAs DEF Flag
  <2> QED BY <1>3, <2>1 DEF Opening
<1>5. UNCHANGED <<program, items, only, entries, positionals, result>> /\ result = "parsing"
  BY DEF Flag, More
<1>6. Settled(n) /\ FlagsRead(n)
  BY <1>2 DEF ReadAt, Consumed
<1>7. Settled(n + 1)'
  <2>1. \A o \in DOMAIN Defaults(program) : SettledAs(n + 1, o)
    BY <1>4, <1>6, SettledSkip DEF Settled, Setting
  <2>2. Settled(n + 1)
    BY <1>6, <2>1 DEF Settled
  <2> QED BY <1>5, <2>2 DEF Settled, SettledAs, Setting
<1>8. FlagsRead(n + 1)'
  <2> DEFINE old == {j \in 1..n : items[j].kind = "flag"}
             new == {j \in 1..(n + 1) : items[j].kind = "flag"}
  <2>1. new = old \cup {n + 1}
    <3>1. \A j \in 1..(n + 1) : j \in 1..n \/ j = n + 1
      OBVIOUS
    <3>2. n + 1 \in 1..(n + 1) /\ \A j \in 1..n : j \in 1..(n + 1)
      OBVIOUS
    <3> QED BY <1>4, <3>1, <3>2
  <2>2. flags = {items[k].name : k \in old}
    BY <1>6 DEF FlagsRead
  <2>3. flags' = flags \cup {items[n + 1].name}
    BY <1>4 DEF Flag
  <2> HIDE DEF old, new
  <2>4. flags' = {items[k].name : k \in new}
    BY <2>1, <2>2, <2>3
  <2> QED BY <1>5, <2>4 DEF FlagsRead, new
<1>9. i' = Len(Spell(n + 1)) + 1
  BY <1>2, <1>4 DEF Facing, Flag
<1>10. positionals' = positionals \o ArgumentsOf(n + 1)
  <2>1. ArgumentsOf(n + 1) = <<>>
    BY <1>1, <1>2, <1>4, MeaningBefore
  <2>2. positionals \in Seq(Argument(program))
    BY <1>1, <1>2, ArgsNext DEF ReadAt, Facing
  <2>3. positionals \o <<>> = positionals
    BY <2>2
  <2> QED BY <1>5, <2>1, <2>3, Zenon
<1>11. n + 1 \in 0..Before' /\ ReadAt(n + 1)'
  BY <1>1, <1>2, <1>4, <1>5, <1>7, <1>8, <1>9, <1>10, ReadNext
<1> QED BY <1>5, <1>11, StillReading

LEMMA ValueStep ==
  ASSUME CommandInv, Value, ~only
  PROVE  CommandInv'
<1>1. ItemsOK
  BY DEF CommandInv
<1>2. PICK n \in Nat : ReadAt(n) /\ Facing(n)
  BY ReadingIs DEF Value
<1> DEFINE item == items[n + 1]
<1>3. /\ Opening(item, argv[i], program)
      /\ Len(Spell(n + 1)) <= Len(argv)
      /\ item.kind = "dangling" => i = Len(argv)
      /\ item.kind = "set" /\ item.apart => Len(Spell(n + 1)) = i + 1 /\ argv[i + 1] = item.value
      /\ ~ (item.kind = "set" /\ item.apart) => Len(Spell(n + 1)) = i
      /\ i \in Nat
  BY <1>2 DEF Facing
<1>4. item.kind = "set"
  <2>1. item.kind \in {"set", "dangling"}
    BY <1>1, <1>2, KnownAs DEF Value
  <2>2. argv[i].word # None \/ i < Len(argv)
    BY DEF Value
  <2>3. ASSUME item.kind = "dangling" PROVE FALSE
    <3>1. argv[i].word = None
      BY <1>3, <2>3 DEF Opening
    <3>2. i < Len(argv) /\ i = Len(argv) /\ i \in Nat
      BY <1>3, <2>2, <2>3, <3>1
    <3> QED BY <3>2
  <2> QED BY <2>1, <2>3
<1>5. UNCHANGED <<program, items, only, flags, positionals, result>> /\ result = "parsing"
  BY DEF Value, More
<1>6. Settled(n) /\ FlagsRead(n)
  BY <1>2 DEF ReadAt, Consumed
<1>7. /\ entries' = [entries EXCEPT ![item.name] = [value |-> item.value, explicit |-> TRUE]]
      /\ i' = Len(Spell(n + 1)) + 1
      /\ item.name \in DOMAIN Defaults(program)
  <2>1. argv[i].name = item.name /\ item.name \in DOMAIN Defaults(program)
    BY <1>3, <1>4 DEF Opening
  <2>2. CASE item.apart
    <3>1. argv[i].word = None
      BY <1>3, <1>4, <2>2 DEF Opening
    <3>2. entries' = [entries EXCEPT ![argv[i].name] = [value |-> argv[i + 1], explicit |-> TRUE]] /\ i' = i + 2
      BY <3>1 DEF Value, assign
    <3>3. argv[i + 1] = item.value
      BY <1>3, <1>4, <2>2
    <3>4. i + 2 = Len(Spell(n + 1)) + 1
      BY <1>3, <1>4, <2>2
    <3> HIDE DEF item
    <3> QED BY <2>1, <3>2, <3>3, <3>4
  <2>3. CASE ~item.apart
    <3>1. argv[i].word # None /\ Word(argv[i].word) = item.value
      BY <1>3, <1>4, <2>3 DEF Opening
    <3>2. entries' = [entries EXCEPT ![argv[i].name] = [value |-> Word(argv[i].word), explicit |-> TRUE]]
          /\ i' = i + 1
      BY <3>1 DEF Value, assign
    <3> QED BY <1>3, <1>4, <2>1, <2>3, <3>1, <3>2
  <2> QED BY <2>2, <2>3
<1>8. Settled(n + 1)'
  <2>1. DOMAIN entries' = DOMAIN Defaults(program') /\ DOMAIN entries = DOMAIN Defaults(program)
    BY <1>5, <1>6, <1>7 DEF Settled
  <2>2. ASSUME NEW o \in DOMAIN Defaults(program) PROVE SettledAs(n + 1, o)'
    <3>1. CASE o = item.name
      <4>1. entries'[o] = [value |-> item.value, explicit |-> TRUE]
        BY <1>7, <2>1, <3>1
      <4>2. Setting(n + 1, o)'
        BY <1>4, <1>5, <3>1 DEF Setting
      <4>3. n + 1 \in 1..(n + 1) /\ ~ \E m \in ((n + 1) + 1)..(n + 1) : TRUE
        OBVIOUS
      <4>4. items'[n + 1].value = item.value
        BY <1>5
      <4> HIDE DEF item
      <4> QED BY <4>1, <4>2, <4>3, <4>4 DEF SettledAs
    <3>2. CASE o # item.name
      <4>1. SettledAs(n, o) /\ ~Setting(n + 1, o)
        BY <1>6, <3>2 DEF Settled, Setting
      <4>2. SettledAs(n + 1, o)
        BY <4>1, SettledSkip
      <4>3. entries'[o] = entries[o]
        BY <1>7, <2>1, <3>2
      <4> QED BY <1>5, <4>2, <4>3 DEF SettledAs, Setting
    <3> QED BY <3>1, <3>2
  <2> QED BY <1>5, <2>1, <2>2 DEF Settled
<1>9. FlagsRead(n + 1)'
  <2>1. FlagsRead(n + 1)
    BY <1>4, <1>6, FlagsSkip
  <2> QED BY <1>5, <2>1 DEF FlagsRead
<1>10. positionals' = positionals \o ArgumentsOf(n + 1)
  <2>1. ArgumentsOf(n + 1) = <<>>
    BY <1>1, <1>2, <1>4, MeaningBefore
  <2>2. positionals \in Seq(Argument(program))
    BY <1>1, <1>2, ArgsNext DEF ReadAt, Facing
  <2>3. positionals \o <<>> = positionals
    BY <2>2
  <2> QED BY <1>5, <2>1, <2>3, Zenon
<1>11. n + 1 \in 0..Before' /\ ReadAt(n + 1)'
  BY <1>1, <1>2, <1>4, <1>5, <1>7, <1>8, <1>9, <1>10, ReadNext
<1> QED BY <1>5, <1>11, StillReading

LEMMA SameEntries ==
  ASSUME UNCHANGED <<program, items, entries, flags>>, NEW n, Consumed(n)
  PROVE  Consumed(n)'
<1>1. n \in 0..Before' /\ WellFormed(n)'
  BY SameLine DEF Consumed
<1>2. Settled(n)'
  BY DEF Consumed, Settled, SettledAs, Setting
<1>3. FlagsRead(n)'
  BY DEF Consumed, FlagsRead
<1> QED BY <1>1, <1>2, <1>3 DEF Consumed

LEMMA EndOfOptionsStep ==
  ASSUME CommandInv, EndOfOptions, ~only
  PROVE  CommandInv'
<1>1. ItemsOK
  BY DEF CommandInv
<1>2. PICK n \in Nat : ReadAt(n) /\ Facing(n)
  BY ReadingIs DEF EndOfOptions
<1>3. items[n + 1].kind = "dashes"
  BY <1>1, <1>2, KnownAs DEF EndOfOptions
<1>4. /\ n = Before /\ n < Len(items) /\ Len(Spell(n + 1)) = i /\ i \in Nat
      /\ i <= Len(argv)
  BY <1>2, <1>3 DEF Facing
<1>5. UNCHANGED <<program, items, entries, flags, positionals, result>> /\ result = "parsing"
  BY DEF EndOfOptions, More
<1>6. Before' = n /\ n < Len(items)' /\ Spell(n + 1)' = Spell(n + 1) /\ Args(n)' = Args(n) /\ argv' = argv
  BY <1>4, <1>5, SameLine
<1>7. Consumed(n)'
  BY <1>2, <1>5, SameEntries DEF ReadAt
<1>8. i' = i + 1 /\ only' = TRUE
  BY DEF EndOfOptions
<1>9. positionals' = Args(n) \o SubSeq(argv, i + 1, i)
  <2>1. Args(n) \in Seq(Argument(program))
    BY <1>1, <1>4, ArgsNext
  <2>2. SubSeq(argv, i + 1, i) = <<>>
    <3>1. argv \in Seq(Argument(program))
      BY <1>1, Complete, ItemIs, FlatSeq DEF Spell
    <3> QED BY <1>4, <3>1
  <2>3. Args(n) \o <<>> = Args(n)
    BY <2>1
  <2> QED BY <1>2, <1>5, <2>2, <2>3, Zenon DEF ReadAt
<1>10. Len(argv) \in Nat
  <2>1. argv \in Seq(Argument(program))
    BY <1>1, Complete, ItemIs, FlatSeq DEF Spell
  <2> QED BY <2>1
<1>11. i' \in Nat /\ Len(Spell(n + 1)) < i' /\ i' <= Len(argv) + 1 /\ i' - 1 = i
  BY <1>4, <1>8, <1>10
<1>12. ReadBehind'
  <2>1. Before' < Len(items)'
    BY <1>6
  <2>2. Consumed(Before)'
    BY <1>6, <1>7
  <2>3. Spell(Before + 1)' = Spell(n + 1)
    BY <1>6
  <2>4. Args(Before)' = Args(n)
    BY <1>6
  <2>5. positionals' = Args(Before)' \o SubSeq(argv', Len(Spell(Before + 1)') + 1, i' - 1)
    BY <1>4, <1>6, <1>9, <1>11, <2>3, <2>4
  <2>6. i' \in Nat /\ Len(Spell(Before + 1)') < i' /\ i' <= Len(argv') + 1
    BY <1>6, <1>11, <2>3
  <2> QED BY <2>1, <2>2, <2>5, <2>6 DEF ReadBehind
<1>13. ItemsOK'
  BY <1>1, <1>5, SameLine
<1> QED BY <1>5, <1>8, <1>12, <1>13 DEF CommandInv, Refused, Outcomes

\* The first malformed item is the one that the parser has in front of it.
LEMMA ComplaintIs ==
  ASSUME ItemsOK, NEW n \in Nat, WellFormed(n), n + 1 <= Before,
         items[n + 1].kind \in {"unknown", "flag_value", "dangling"}
  PROVE  Complaint = Refusals[items[n + 1].kind]
<1> DEFINE wrong == {k \in 1..Before : items[k].kind \in DOMAIN Refusals}
           first == CHOOSE k \in wrong : \A m \in wrong : k <= m
<1>1. DOMAIN Refusals = {"unknown", "flag_value", "dangling"}
  BY DEF Refusals
<1>2. Before \in Nat
  BY BeforeIs, Complete
<1>3. n + 1 \in wrong
  BY <1>1, <1>2
<1>4. ASSUME NEW m \in wrong PROVE n + 1 <= m
  <2>1. m \notin 1..n /\ m \in 1..Before
    BY <1>1 DEF WellFormed
  <2> QED BY <1>2, <2>1
<1>5. wrong \subseteq Nat
  BY <1>2
<1>6. first = n + 1
  <2> HIDE DEF wrong
  <2>1. first \in wrong /\ \A m \in wrong : first <= m
    BY <1>3, <1>4
  <2>2. first <= n + 1 /\ n + 1 <= first
    BY <1>3, <1>4, <2>1
  <2>3. first \in Nat
    BY <1>5, <2>1
  <2> HIDE DEF first
  <2> QED BY <2>2, <2>3
<1>7. Complaint = Refusals[items[first].kind]
  BY <1>3, Zenon DEF Complaint
<1> QED BY <1>6, <1>7, Zenon

LEMMA MalformedStep ==
  ASSUME CommandInv, Malformed, ~only
  PROVE  CommandInv'
<1>1. ItemsOK
  BY DEF CommandInv
<1>2. PICK n \in Nat : ReadAt(n) /\ Facing(n)
  BY ReadingIs DEF Malformed
<1> DEFINE item == items[n + 1]
<1>3. /\ Opening(item, argv[i], program)
      /\ Len(Spell(n + 1)) <= Len(argv)
      /\ item.kind = "set" /\ item.apart => Len(Spell(n + 1)) = i + 1
      /\ i \in Nat
      /\ item.kind \in {"set", "flag", "word", "dashes", "unknown", "flag_value", "dangling"}
      /\ n = Before <=> item.kind = "dashes"
      /\ n \in 0..Before
  BY <1>2 DEF Facing
<1>4. /\ item.kind \notin {"word", "dashes"}
      /\ IsFlag <=> item.kind \in {"flag", "flag_value"}
      /\ Takes <=> item.kind \in {"set", "dangling"}
  BY <1>1, <1>2, KnownAs DEF Malformed
<1>5. item.kind # "flag"
  <2> SUFFICES ASSUME item.kind = "flag" PROVE FALSE
    OBVIOUS
  <2>1. argv[i].word = None
    BY <1>3 DEF Opening
  <2>2. IsFlag
    BY <1>4
  <2> QED BY <2>1, <2>2 DEF Malformed
<1>6. item.kind # "set"
  <2> SUFFICES ASSUME item.kind = "set" PROVE FALSE
    OBVIOUS
  <2>1. Takes
    BY <1>4
  <2>2. argv[i].word = None /\ i = Len(argv)
    BY <2>1 DEF Malformed
  <2>3. item.apart
    BY <1>3, <2>2 DEF Opening
  <2>4. i + 1 <= i
    BY <1>3, <2>2, <2>3
  <2> QED BY <1>3, <2>4
<1>7. item.kind \in {"unknown", "flag_value", "dangling"}
  BY <1>3, <1>4, <1>5, <1>6
<1>8. result' = Refusals[item.kind] /\ result' \in Refused
  <2>1. result' = CASE ~IsFlag /\ ~Takes -> "unknown option"
                    [] IsFlag            -> "does not take a value"
                    [] Takes             -> "requires a value"
    BY DEF Malformed
  <2>2. CASE item.kind = "unknown"
    <3>1. ~IsFlag /\ ~Takes
      BY <1>4, <2>2
    <3>2. result' = "unknown option"
      BY <2>1, <3>1
    <3> QED BY <2>2, <3>2 DEF Refusals, Refused
  <2>3. CASE item.kind = "flag_value"
    <3>1. IsFlag /\ ~Takes
      BY <1>4, <2>3
    <3>2. result' = "does not take a value"
      BY <2>1, <3>1
    <3> QED BY <2>3, <3>2 DEF Refusals, Refused
  <2>4. CASE item.kind = "dangling"
    <3>1. ~IsFlag /\ Takes
      BY <1>4, <2>4
    <3>2. result' = "requires a value"
      BY <2>1, <3>1
    <3> QED BY <2>4, <3>2 DEF Refusals, Refused
  <2> QED BY <1>7, <2>2, <2>3, <2>4
<1>9. Complaint = Refusals[item.kind]
  <2>1. n + 1 <= Before
    BY <1>1, <1>3, <1>4, BeforeIs, Complete
  <2> QED BY <1>1, <1>2, <1>7, <2>1, ComplaintIs DEF ReadAt, Consumed
<1>10. UNCHANGED <<program, items, only>>
  BY DEF Malformed
<1>11. Complaint' = Complaint
  <2>1. Before' = Before
    BY <1>10, SameLine
  <2> QED BY <1>10, <2>1 DEF Complaint
<1>12. ItemsOK' /\ only' \in BOOLEAN
  BY <1>1, <1>10, SameLine DEF CommandInv
<1>13. result' = Complaint'
  BY <1>8, <1>9, <1>11
<1> QED BY <1>8, <1>12, <1>13 DEF CommandInv, Refused, Outcomes

-----------------------------------------------------------------------------
(* The steps behind "--", and the decisions.                                *)

LEMMA ArgvIs == ASSUME ItemsOK PROVE argv \in Seq(Argument(program)) /\ Len(argv) \in Nat
<1>1. argv \in Seq(Argument(program))
  BY Complete, ItemIs, FlatSeq DEF Spell
<1> QED BY <1>1

LEMMA ArgsSeq == ASSUME ItemsOK, NEW n \in Nat, n <= Len(items) PROVE Args(n) \in Seq(Argument(program))
<1>1. \A k \in 1..n : meaning[k] \in Seq(Argument(program))
  BY MeaningIs, Complete
<1> QED BY <1>1, FlatSeq DEF Args

LEMMA SubSeqNext ==
  ASSUME NEW S, NEW s \in Seq(S), NEW p \in Nat, NEW q \in Nat, p < q, q <= Len(s)
  PROVE  /\ SubSeq(s, p + 1, q - 1) \in Seq(S)
         /\ SubSeq(s, p + 1, q) = Append(SubSeq(s, p + 1, q - 1), s[q])
<1> DEFINE a == SubSeq(s, p + 1, q - 1)
           b == SubSeq(s, p + 1, q)
<1>1. /\ a \in Seq(S) /\ Len(a) = q - 1 - p
      /\ \A j \in 1..(q - 1 - p) : a[j] = s[p + j]
  OBVIOUS
<1>2. /\ b \in Seq(S) /\ Len(b) = q - p
      /\ \A j \in 1..(q - p) : b[j] = s[p + j]
  OBVIOUS
<1>3. s[q] \in S
  OBVIOUS
<1> HIDE DEF a, b
<1> DEFINE c == Append(a, s[q])
<1>4. /\ c \in Seq(S) /\ Len(c) = Len(a) + 1
      /\ \A j \in 1..Len(a) : c[j] = a[j]
      /\ c[Len(a) + 1] = s[q]
  BY <1>1, <1>3
<1> HIDE DEF c
<1>5. ASSUME NEW j \in 1..Len(b) PROVE b[j] = c[j]
  <2>1. CASE j <= Len(a)
    BY <1>1, <1>2, <1>4, <2>1
  <2>2. CASE j > Len(a)
    <3>1. j = Len(a) + 1 /\ p + j = q
      BY <1>1, <1>2, <2>2
    <3> QED BY <1>2, <1>4, <3>1
  <2> QED BY <1>1, <1>2, <2>1, <2>2
<1>6. Len(b) = Len(c)
  BY <1>1, <1>2, <1>4
<1>7. b = c
  BY <1>2, <1>4, <1>5, <1>6, SameSeq
<1> QED BY <1>1, <1>7 DEF a, b, c

LEMMA BehindStep ==
  ASSUME CommandInv, Positional, only
  PROVE  CommandInv'
<1>1. ItemsOK /\ ReadBehind /\ only \in BOOLEAN
  BY DEF CommandInv, Positional, More
<1>2. UNCHANGED <<program, items, only, entries, flags, result>> /\ result = "parsing"
  BY DEF Positional, More
<1>b. PICK B \in Nat : B = Before
  BY <1>1, BeforeIs, Complete
<1> DEFINE S == Argument(program)
           p == Len(Spell(B + 1))
           a == Args(B)
           x == argv[i]
           r == SubSeq(argv, p + 1, i - 1)
<1>3. i \in Nat /\ p < i /\ i <= Len(argv) /\ i' = i + 1
  BY <1>1, <1>b DEF ReadBehind, Positional, More
<1>4. argv \in Seq(S) /\ Len(argv) \in Nat
  BY <1>1, ArgvIs
<1>5. B \in Nat /\ B < Len(items) /\ Len(items) \in Nat /\ Consumed(B)
  BY <1>1, <1>b, Complete DEF ReadBehind
<1>6. a \in Seq(S)
  BY <1>1, <1>5, ArgsSeq
<1>7. p \in Nat
  <2>1. Len(Spell(B)) \in Nat /\ p = Len(Spell(B)) + Len(Spelled(items[B + 1]))
    BY <1>1, <1>5, Position
  <2>2. Len(Spelled(items[B + 1])) \in Nat
    <3>1. B + 1 \in 1..Len(items)
      BY <1>5
    <3>2. Spelled(items[B + 1]) \in Seq(S)
      BY <1>1, <3>1, ItemIs
    <3> QED BY <3>2
  <2> QED BY <2>1, <2>2
<1>8. positionals = a \o r /\ positionals' = Append(positionals, x)
  BY <1>1, <1>b DEF ReadBehind, Positional
<1>9. r \in Seq(S) /\ SubSeq(argv, p + 1, i) = Append(r, x)
  <2> HIDE DEF S, p
  <2> QED BY <1>3, <1>4, <1>7, SubSeqNext
<1>10. x \in S
  BY <1>3, <1>4, <1>7
<1> HIDE DEF S, a, r, x, p
<1>11. Append(a \o r, x) = a \o Append(r, x)
  BY <1>6, <1>9, <1>10
<1>12. positionals' = a \o SubSeq(argv, p + 1, i)
  BY <1>8, <1>9, <1>11, Zenon
<1>13. Before' = B /\ Len(items)' = Len(items) /\ argv' = argv
  BY <1>2, <1>b, SameLine
<1>14. Consumed(B)' /\ Spell(B + 1)' = Spell(B + 1) /\ Args(B)' = Args(B)
  BY <1>2, <1>5, SameEntries, SameLine
<1>15. ReadBehind'
  <2>1. Consumed(Before)' /\ Spell(Before + 1)' = Spell(B + 1) /\ Args(Before)' = Args(B)
    BY <1>13, <1>14
  <2>2. Before' < Len(items)'
    BY <1>5, <1>13
  <2>3. i' \in Nat /\ p < i' /\ i' <= Len(argv) + 1 /\ i' - 1 = i
    BY <1>3, <1>4, <1>7
  <2>4. positionals' = Args(Before)' \o SubSeq(argv', Len(Spell(Before + 1)') + 1, i' - 1)
    BY <1>12, <1>13, <2>1, <2>3 DEF a, p
  <2>5. i' \in Nat /\ Len(Spell(Before + 1)') < i' /\ i' <= Len(argv') + 1
    BY <1>13, <2>1, <2>3 DEF p
  <2> QED BY <2>1, <2>2, <2>4, <2>5 DEF ReadBehind
<1>16. ItemsOK' /\ only' \in BOOLEAN /\ only' /\ result' = "parsing"
  BY <1>1, <1>2, SameLine
<1> QED BY <1>15, <1>16 DEF CommandInv, Refused, Outcomes

\* At the end of argv every item has been read.
LEMMA AllRead ==
  ASSUME CommandInv, result = "parsing", i > Len(argv)
  PROVE  Done
<1>1. ItemsOK
  BY DEF CommandInv
<1>2. Len(items) \in Nat /\ Spell(Len(items)) = argv /\ Before \in 0..Len(items) /\ Len(argv) \in Nat
  BY <1>1, Complete, BeforeIs, ArgvIs
<1>3. CASE ~only
  <2>1. PICK n \in 0..Before : ReadAt(n)
    BY <1>3 DEF CommandInv
  <2>2. n = Len(items)
    <3> SUFFICES ASSUME n < Len(items) PROVE FALSE
      BY <1>2
    <3> DEFINE item == items[n + 1]
    <3>1. /\ Len(Spell(n)) \in Nat /\ Len(Spell(n + 1)) = Len(Spell(n)) + Len(Spelled(item))
          /\ Len(Spell(n + 1)) <= Len(argv)
      BY <1>1, <1>2, Position
    <3>2. n + 1 \in 1..Len(items)
      BY <1>2
    <3>3. item \in Item(program)
      BY <1>1, <3>2, ItemIs
    <3>4. Len(Spelled(item)) = IF item.kind = "set" /\ item.apart THEN 2 ELSE 1
      BY <1>1, <3>3, SpelledIs DEF ItemsOK
    <3>5. i = Len(Spell(n)) + 1
      BY <2>1 DEF ReadAt
    <3> HIDE DEF item
    <3>6. Len(Spelled(item)) >= 1 /\ Len(Spelled(item)) \in Nat
      BY <3>4
    <3> QED BY <1>2, <3>1, <3>5, <3>6
  <2>3. Before = n
    BY <1>2, <2>2
  <2> QED BY <2>1, <2>2, <2>3 DEF ReadAt, Done
<1>4. CASE only
  <2>1. ReadBehind
    BY <1>4 DEF CommandInv
  <2>2. i - 1 = Len(argv)
    BY <1>2, <2>1 DEF ReadBehind
  <2>3. positionals = Args(Before) \o Rest(argv, Len(Spell(Before + 1)))
    BY <2>1, <2>2 DEF ReadBehind, Rest
  <2>4. positionals = Args(Len(items))
    BY <1>1, <2>1, <2>3, BehindDashes DEF ReadBehind
  <2> QED BY <2>1, <2>4 DEF ReadBehind, Done
<1> QED BY <1>3, <1>4

\* The conditions, in the order of the code.
LEMMA VerdictsAre ==
  /\ Len(Verdicts) = 8
  /\ Verdicts[1][2] = "help" /\ Verdicts[2][2] = "given both"
  /\ Verdicts[3][2] = "payload size is required" /\ Verdicts[4][2] = "not a byte size"
  /\ Verdicts[5][2] = "not a number" /\ Verdicts[6][2] = "must be positive" /\ Verdicts[7][2] = "not a number"
  /\ Verdicts[8][2] = "accepted"
BY DEF Verdicts

LEMMA ConditionsAre ==
  /\ Verdicts[1][1] <=> given("help")
  /\ Verdicts[2][1] <=> program = "producer" /\ positionals # <<>> /\ given("payload_size")
  /\ Verdicts[4][1] <=> program = "producer" /\ PayloadText \notin ByteSizes
  /\ Verdicts[6][1] <=> value("report_interval") = Word("0")
  /\ Verdicts[8][1]
BY DEF Verdicts

\* The first condition that holds decides.
LEMMA FirstHolds ==
  \E m \in 1..8 : Verdict = Verdicts[m][2] /\ \A k \in 1..8 : k < m => ~ Verdicts[k][1]
<1> DEFINE I == {k \in 1..Len(Verdicts) : Verdicts[k][1]}
           m == SelectInSeq(Verdicts, LAMBDA v : v[1])
<1>1. Len(Verdicts) = 8
  BY VerdictsAre
<1>2. 8 \in I
  <2>1. 8 \in 1..Len(Verdicts)
    BY <1>1
  <2>2. Verdicts[8][1]
    BY ConditionsAre
  <2> QED BY <2>1, <2>2, Zenon
<1>3. m = Min(I)
  BY <1>2 DEF SelectInSeq
<1>4. I \subseteq 1..8
  BY <1>1
<1>5. PICK x \in I : \A y \in I : x <= y
  <2> HIDE DEF I
  <2> QED BY <1>2, <1>4, LeastNumber
<1>6. m \in I /\ \A y \in I : m <= y
  <2> HIDE DEF I, m
  <2> QED BY <1>3, <1>5 DEF Min
<1>7. m \in 1..8
  BY <1>4, <1>6
<1>8. Verdict = Verdicts[m][2]
  BY DEF Verdict
<1> HIDE DEF m
<1>9. ASSUME NEW k \in 1..8, k < m PROVE ~ Verdicts[k][1]
  <2>1. k \notin I
    <3> HIDE DEF I
    <3> QED BY <1>6, <1>7, <1>9
  <2>2. k \in 1..Len(Verdicts)
    BY <1>1
  <2> QED BY <2>1, <2>2, Zenon
<1> QED BY <1>7, <1>8, <1>9

LEMMA VerdictIs ==
  /\ Verdict \in Outcomes
  /\ Verdict # "help" => ~given("help")
  /\ Verdict = "accepted" =>
       /\ ~ (program = "producer" /\ positionals # <<>> /\ given("payload_size"))
       /\ program = "producer" => PayloadText \in ByteSizes
       /\ value("report_interval") # Word("0")
<1>1. PICK m \in 1..8 : Verdict = Verdicts[m][2] /\ \A k \in 1..8 : k < m => ~ Verdicts[k][1]
  BY FirstHolds
<1>2. m \in {1, 2, 3, 4, 5, 6, 7, 8}
  OBVIOUS
<1>3. Verdict \in Outcomes
  BY <1>1, <1>2, VerdictsAre DEF Outcomes
<1>4. ASSUME Verdict # "help" PROVE ~given("help")
  <2>1. m # 1
    BY <1>1, <1>4, VerdictsAre
  <2>2. 1 \in 1..8 /\ 1 < m
    BY <2>1
  <2>3. ~ Verdicts[1][1]
    BY <1>1, <2>2
  <2> QED BY <2>3, ConditionsAre
<1>5. ASSUME Verdict = "accepted"
      PROVE  /\ ~ (program = "producer" /\ positionals # <<>> /\ given("payload_size"))
             /\ program = "producer" => PayloadText \in ByteSizes
             /\ value("report_interval") # Word("0")
  <2>1. m = 8
    BY <1>1, <1>2, <1>5, VerdictsAre
  <2>2. ~ Verdicts[2][1] /\ ~ Verdicts[4][1] /\ ~ Verdicts[6][1]
    BY <1>1, <2>1
  <2> QED BY <2>2, ConditionsAre
<1> QED BY <1>3, <1>4, <1>5

LEMMA SameVerdict ==
  ASSUME UNCHANGED <<program, entries, flags, positionals>>
  PROVE  Verdict' = Verdict
<1>1. PayloadText' = PayloadText
  BY DEF PayloadText, value
<1>2. BadNumber' = BadNumber
  BY DEF BadNumber, value
<1>3. Verdicts' = Verdicts
  BY <1>1, <1>2 DEF Verdicts, given, value
<1> QED BY <1>3 DEF Verdict, SelectInSeq

\* All that has been read stays read.
LEMMA StillDone ==
  ASSUME UNCHANGED <<program, items, entries, flags, positionals>>, Done
  PROVE  Done'
<1>1. PICK n : n = Before
  OBVIOUS
<1>2. PICK m : m = Len(items)
  OBVIOUS
<1>3. Consumed(n)' /\ Before' = n /\ Args(m)' = Args(m) /\ Len(items)' = m
  BY <1>1, <1>2, SameEntries, SameLine DEF Done
<1>4. positionals' = Args(m)
  BY <1>2 DEF Done
<1>5. Consumed(Before)'
  BY <1>3
<1>6. Args(Len(items))' = Args(m)
  BY <1>3
<1> QED BY <1>4, <1>5, <1>6 DEF Done

LEMMA DecisionStep ==
  ASSUME CommandInv, Parsed \/ Interpret
  PROVE  CommandInv'
<1>1. ItemsOK /\ only \in BOOLEAN
  BY DEF CommandInv
<1>2. UNCHANGED <<program, items, i, only, entries, flags, positionals>>
  BY DEF Parsed, Interpret
<1>3. ItemsOK' /\ only' \in BOOLEAN
  BY <1>1, <1>2, SameLine
<1>4. Done
  BY AllRead DEF Parsed, Interpret, CommandInv
<1>5. Done'
  BY <1>2, <1>4, StillDone
<1>6. CASE Parsed
  <2>1. /\ result' \in {"unexpected argument", "parsed"}
        /\ result' = "unexpected argument" => Len(positionals) > MaxPositionals(program)
    BY <1>6 DEF Parsed
  <2>2. result' = "unexpected argument" => Len(positionals') > MaxPositionals(program')
    BY <1>2, <2>1
  <2> QED BY <1>3, <1>5, <2>1, <2>2 DEF CommandInv, Refused, Outcomes
<1>7. CASE Interpret
  <2>1. result' = Verdict
    BY <1>7 DEF Interpret
  <2>2. Verdict' = Verdict
    BY <1>2, SameVerdict
  <2>3. result' \in Outcomes
    BY <2>1, VerdictIs
  <2> QED BY <1>3, <1>5, <2>1, <2>2, <2>3 DEF CommandInv, Refused, Outcomes
<1> QED BY <1>6, <1>7

LEMMA StutterStep ==
  ASSUME CommandInv, UNCHANGED vars
  PROVE  CommandInv'
<1>1. UNCHANGED <<program, items, i, only, entries, flags, positionals, result>>
  BY DEF vars
<1>2. ItemsOK' /\ only' \in BOOLEAN
  BY <1>1, SameLine DEF CommandInv
<1>3. ASSUME result = "parsing", ~only PROVE \E n \in 0..Before' : ReadAt(n)'
  <2>1. PICK n \in 0..Before : ReadAt(n)
    BY <1>3 DEF CommandInv
  <2>2. Consumed(n)' /\ Before' = Before /\ Spell(n)' = Spell(n) /\ Args(n)' = Args(n)
    BY <1>1, <2>1, SameEntries, SameLine DEF ReadAt
  <2>3. ReadAt(n)' /\ n \in 0..Before'
    BY <1>1, <2>1, <2>2 DEF ReadAt
  <2> QED BY <2>3
<1>4. ASSUME ReadBehind PROVE ReadBehind'
  <2>1. PICK n : n = Before
    OBVIOUS
  <2>2. /\ Consumed(n)' /\ Before' = n /\ Spell(n + 1)' = Spell(n + 1) /\ Args(n)' = Args(n)
        /\ argv' = argv /\ Len(items)' = Len(items)
    BY <1>1, <1>4, <2>1, SameEntries, SameLine DEF ReadBehind
  <2>3. Consumed(Before)' /\ Spell(Before + 1)' = Spell(n + 1) /\ Args(Before)' = Args(n)
    BY <2>2
  <2> QED BY <1>1, <1>4, <2>1, <2>2, <2>3 DEF ReadBehind
<1>5. ASSUME Done PROVE Done'
  BY <1>1, <1>5, StillDone
<1>6. Complaint' = Complaint
  <2>1. Before' = Before
    BY <1>1, SameLine
  <2> QED BY <1>1, <2>1 DEF Complaint
<1>7. Verdict' = Verdict
  BY <1>1, SameVerdict
<1> QED BY <1>1, <1>2, <1>3, <1>4, <1>5, <1>6, <1>7 DEF CommandInv

LEMMA NextCommandInv == CommandInv /\ [Next]_vars => CommandInv'
<1> SUFFICES ASSUME CommandInv, [Next]_vars PROVE CommandInv'
  OBVIOUS
<1>1. CASE Positional
  BY <1>1, PositionalStep, BehindStep
<1>2. CASE EndOfOptions
  BY <1>2, EndOfOptionsStep DEF EndOfOptions, IsOption
<1>3. CASE Flag
  BY <1>3, FlagStep DEF Flag, IsFlag, IsOption
<1>4. CASE Value
  BY <1>4, ValueStep DEF Value, Takes, IsOption
<1>5. CASE Malformed
  BY <1>5, MalformedStep DEF Malformed, IsOption
<1>6. CASE Parsed \/ Interpret
  BY <1>6, DecisionStep
<1>7. CASE UNCHANGED vars
  BY <1>7, StutterStep
<1> QED BY <1>1, <1>2, <1>3, <1>4, <1>5, <1>6, <1>7 DEF Next

LEMMA CommandInvariance == Spec => []CommandInv
BY InitCommandInv, NextCommandInv, PTL DEF Spec

\* The value of every option, and whether it was given.
LEMMA MeantIs ==
  ASSUME ItemsOK, Consumed(Before), NEW o \in DOMAIN Defaults(program)
  PROVE  /\ o \in DOMAIN entries /\ entries[o].value = Meant(o)
         /\ entries[o].explicit <=> \E k \in 1..Before : Setting(k, o)
<1> DEFINE sets == {k \in 1..Before : items[k].kind = "set" /\ items[k].name = o}
           last == CHOOSE k \in sets : \A m \in sets : m <= k
<1>1. Before \in Nat
  BY BeforeIs, Complete
<1>2. o \in DOMAIN entries /\ SettledAs(Before, o)
  BY DEF Consumed, Settled
<1>3. Meant(o) = IF sets = {} THEN Word(Defaults(program)[o]) ELSE items[last].value
  BY DEF Meant
<1>4. \A k : k \in sets <=> k \in 1..Before /\ Setting(k, o)
  BY DEF Setting
<1>5. CASE /\ \A k \in 1..Before : ~Setting(k, o)
           /\ entries[o] = [value |-> Word(Defaults(program)[o]), explicit |-> FALSE]
  <2>1. sets = {}
    BY <1>4, <1>5
  <2>2. entries[o].value = Word(Defaults(program)[o]) /\ ~entries[o].explicit
    BY <1>5
  <2> HIDE DEF sets
  <2> QED BY <1>2, <1>3, <1>5, <2>1, <2>2
<1>6. CASE \E k \in 1..Before :
             /\ Setting(k, o) /\ \A m \in (k + 1)..Before : ~Setting(m, o)
             /\ entries[o] = [value |-> items[k].value, explicit |-> TRUE]
  <2>1. PICK k \in 1..Before :
             /\ Setting(k, o) /\ \A m \in (k + 1)..Before : ~Setting(m, o)
             /\ entries[o] = [value |-> items[k].value, explicit |-> TRUE]
    BY <1>6
  <2>2. k \in sets /\ sets \subseteq Nat
    BY <1>1, <1>4, <2>1
  <2> HIDE DEF sets
  <2>3. ASSUME NEW m \in sets PROVE m <= k
    <3>1. m \in 1..Before /\ m \notin (k + 1)..Before
      BY <1>4, <2>1
    <3> QED BY <1>1, <3>1
  <2>4. last \in sets /\ \A m \in sets : m <= last
    BY <2>2, <2>3
  <2>5. last \in Nat /\ k \in Nat /\ last <= k /\ k <= last
    BY <2>2, <2>3, <2>4
  <2> HIDE DEF last
  <2>6. last = k
    BY <2>5
  <2>7. entries[o].value = items[k].value /\ entries[o].explicit
    BY <2>1
  <2> QED BY <1>2, <1>3, <2>1, <2>2, <2>6, <2>7
<1> QED BY <1>2, <1>5, <1>6 DEF SettledAs

LEMMA NoComplaint ==
  ASSUME ItemsOK, Consumed(Before)
  PROVE  Complaint = None
<1>1. DOMAIN Refusals = {"unknown", "flag_value", "dangling"}
  BY DEF Refusals
<1>2. {k \in 1..Before : items[k].kind \in DOMAIN Refusals} = {}
  BY <1>1 DEF Consumed, WellFormed
<1> QED BY <1>2 DEF Complaint

\* However long a command line is, whatever words it is made of and however options
\* are written, CommandLine::parse() takes it for what its user meant: the last
\* setting of every option, the flags, the arguments; it refuses it only for its
\* first malformed item or for too many arguments.
THEOREM ParserKeepsMeaning == Spec => []MeaningKept
<1>1. CommandInv => MeaningKept
  <2> SUFFICES ASSUME CommandInv PROVE MeaningKept
    OBVIOUS
  <2> DEFINE meant == FlattenSeq([k \in DOMAIN items |-> ArgumentsOf(k)])
  <2>1. ItemsOK
    BY DEF CommandInv
  <2>2. Args(Len(items)) = meant
    BY <2>1, Complete
  <2> HIDE DEF meant
  <2>3. ASSUME result \in {"parsed", "help", "accepted"}
        PROVE  /\ Complaint = None
               /\ \A o \in DOMAIN entries : value(o) = Meant(o)
               /\ flags = {items[k].name : k \in {j \in 1..Before : items[j].kind = "flag"}}
               /\ positionals = meant
    <3>1. Done
      BY <2>3 DEF CommandInv, Outcomes
    <3>2. Consumed(Before) /\ positionals = meant
      BY <2>2, <3>1 DEF Done
    <3>3. Complaint = None
      BY <2>1, <3>2, NoComplaint
    <3>4. flags = {items[k].name : k \in {j \in 1..Before : items[j].kind = "flag"}}
      BY <3>2, Zenon DEF Consumed, FlagsRead
    <3>5. ASSUME NEW o \in DOMAIN entries PROVE value(o) = Meant(o)
      <4>1. o \in DOMAIN Defaults(program)
        BY <3>2 DEF Consumed, Settled
      <4> QED BY <2>1, <3>2, <4>1, MeantIs DEF value
    <3> QED BY <3>2, <3>3, <3>4, <3>5
  <2>4. result \in Refused => result = Complaint
    BY DEF CommandInv
  <2>5. ASSUME result = "unexpected argument" PROVE Complaint = None /\ Len(meant) > MaxPositionals(program)
    <3>1. Done /\ Len(positionals) > MaxPositionals(program)
      BY <2>5 DEF CommandInv
    <3> QED BY <2>1, <2>2, <3>1, NoComplaint DEF Done
  <2> QED BY <2>3, <2>4, <2>5 DEF MeaningKept, meant, Refused
<1> QED BY <1>1, CommandInvariance, PTL

\* parse_producer_options() lets a producer start only with one payload size, given
\* once, and a positive report interval, and no value that is wrong keeps help from
\* whoever asked for it, for every command line.
THEOREM OptionsAreJudged == Spec => []StartsAsMeant
<1>1. CommandInv => StartsAsMeant
  <2> SUFFICES ASSUME CommandInv PROVE StartsAsMeant
    OBVIOUS
  <2>1. ItemsOK
    BY DEF CommandInv
  <2>2. ASSUME result = "accepted", program = "producer"
        PROVE  LET settings == {k \in 1..Before : items[k].kind = "set" /\ items[k].name = "payload_size"}
               IN  /\ (settings = {}) # (positionals = <<>>)
                   /\ PayloadText \in ByteSizes
                   /\ Meant("report_interval") # Word("0")
    <3> DEFINE settings == {k \in 1..Before : items[k].kind = "set" /\ items[k].name = "payload_size"}
    <3>1. Consumed(Before) /\ Verdict = "accepted"
      BY <2>2 DEF CommandInv, Outcomes, Done
    <3>2. {"payload_size", "report_interval"} \subseteq DOMAIN Defaults(program)
      BY <2>2 DEF Defaults
    <3>3. /\ "payload_size" \in DOMAIN entries /\ entries["payload_size"].value = Meant("payload_size")
          /\ entries["payload_size"].explicit <=> \E k \in 1..Before : Setting(k, "payload_size")
          /\ "report_interval" \in DOMAIN entries /\ entries["report_interval"].value = Meant("report_interval")
      BY <2>1, <3>1, <3>2, MeantIs
    <3>4. /\ ~ (positionals # <<>> /\ given("payload_size"))
          /\ PayloadText \in ByteSizes
          /\ value("report_interval") # Word("0")
      BY <2>2, <3>1, VerdictIs
    <3>5. given("payload_size") <=> settings # {}
      BY <3>3 DEF given, Setting
    <3>6. Meant("report_interval") # Word("0")
      BY <3>3, <3>4 DEF value
    <3>7. ASSUME settings = {}, positionals = <<>> PROVE FALSE
      <4>1. Meant("payload_size") = Word("")
        BY <2>2, <3>7 DEF Meant, Defaults
      <4>2. PayloadText = Word("")
        BY <3>3, <3>7, <4>1 DEF PayloadText, value
      <4>3. Word("") \notin ByteSizes
        BY DEF Word, ByteSizes, Uints
      <4> QED BY <3>4, <4>2, <4>3
    <3> HIDE DEF settings
    <3>8. (settings = {}) # (positionals = <<>>)
      BY <3>4, <3>5, <3>7
    <3> QED BY <3>4, <3>6, <3>8 DEF settings
  <2>3. ASSUME result \in {"given both", "not a byte size", "not a number", "must be positive", "accepted"}
        PROVE  ~ \E k \in 1..Before : items[k].kind = "flag" /\ items[k].name = "help"
    <3>1. Consumed(Before) /\ Verdict = result /\ Verdict # "help"
      BY <2>3 DEF CommandInv, Outcomes, Done
    <3>2. ~given("help")
      BY <3>1, VerdictIs
    <3>3. "help" \notin DOMAIN entries
      BY <2>1, <3>1, Names DEF ItemsOK, Consumed, Settled
    <3>4. "help" \notin flags
      BY <3>2, <3>3 DEF given
    <3> QED BY <3>1, <3>4 DEF Consumed, FlagsRead
  <2> QED BY <2>2, <2>3 DEF StartsAsMeant
<1> QED BY <1>1, CommandInvariance, PTL

-----------------------------------------------------------------------------
(* The sizes among the options: PacketSizes, for every width of the         *)
(* integers, page size, header size and unit.  A capacity above Quarter is  *)
(* not doubled, so that no doubling wraps.                                  *)

\* What the options mean once they have been accepted, and where the capacity is
\* in every round of the loop.
SizesInv ==
  /\ payloadText \in Texts /\ ringText \in Texts
  /\ pc \in {"options", "refused", "normalize", "run", "running"}
  /\ capacity \in Nat /\ PageSize <= capacity /\ capacity <= 2 * Quarter
  /\ pc = "options" => capacity = PageSize
  /\ pc \in {"normalize", "run", "running"} =>
       /\ payload \in Nat /\ payload < SizeModulus /\ payload = Means(payloadText)
       /\ ring \in Nat /\ ring = Means(ringText)
       /\ capacity = PageSize \/ capacity < 2 * ring
  /\ pc \in {"run", "running"} => capacity >= ring
  /\ pc = "running" => record_size <= max_record_size

\* Unsigned arithmetic that stays below the modulus does not wrap.
LEMMA NoWrap == ASSUME NEW n \in Nat, NEW m \in Nat, n < m PROVE n % m = n
  BY SMT

\* The overflow check of parse_byte_size(): a number up to a quotient times the
\* divisor stays within the dividend.
LEMMA QuotientBound ==
  ASSUME NEW a \in Nat, NEW b \in Nat \ {0}, NEW c \in Nat, a <= c \div b
  PROVE  a * b <= c
<1> DEFINE q == c \div b
<1>1. q \in Nat /\ b * q <= c
  BY SMT
<1>2. a * b <= q * b
  <2>1. PICK d \in Nat : q = a + d
    <3>1. q - a \in Nat /\ q = a + (q - a)
      BY <1>1, SMT
    <3> QED BY <3>1
  <2>2. q * b = a * b + d * b /\ d * b \in Nat /\ a * b \in Nat
    BY <2>1, SMT
  <2> QED BY <2>2, <1>1, SMT
<1>3. q * b = b * q /\ a * b \in Nat /\ b * q \in Nat
  BY <1>1, SMT
<1> QED BY <1>1, <1>2, <1>3, SMT

LEMMA ModulusNat == SizeModulus \in Nat \ {0} /\ Quarter < SizeModulus /\ 2 * Quarter < SizeModulus
  BY SizesAssumption DEF SizeModulus

LEMMA MultiplierNat == ASSUME NEW letters PROVE Multiplier(letters) \in Nat \ {0}
  BY SizesAssumption DEF Multiplier, HasUnit

\* What parse_byte_size() accepts is what was written.
LEMMA ParseExact ==
  ASSUME NEW text \in Texts, parse_byte_size(text) # NoNumber
  PROVE  /\ parse_byte_size(text) = Means(text)
         /\ Means(text) \in Nat
         /\ Means(text) < SizeModulus
<1> DEFINE mult == Multiplier(text.letters)
<1>1. mult \in Nat \ {0}
  BY MultiplierNat
<1>2. parse_uint(text.number) # NoNumber /\ text.number <= (SizeModulus - 1) \div mult
  BY DEF parse_byte_size
<1>3. text.number \in Nat
  BY <1>2, SizesAssumption DEF parse_uint
<1>4. text.number * mult <= SizeModulus - 1
  <2> DEFINE number == text.number
             largest == SizeModulus - 1
  <2>1. largest \in Nat /\ number \in Nat /\ mult \in Nat \ {0} /\ number <= largest \div mult
    BY <1>1, <1>2, <1>3, ModulusNat
  <2> HIDE DEF number, largest, mult
  <2>2. number * mult <= largest
    BY <2>1, QuotientBound
  <2> QED BY <2>2 DEF number, largest
<1>5. text.number * mult \in Nat
  BY <1>1, <1>3
<1>6. Means(text) = text.number * mult
  BY DEF Means
<1>7. parse_byte_size(text) = Means(text)
  BY <1>6 DEF parse_byte_size
<1> QED BY <1>4, <1>5, <1>6, <1>7, ModulusNat

LEMMA InitSizesInv == SizesInit => SizesInv
  BY SizesAssumption DEF SizesInit, SizesInv

LEMMA NextSizesInv == SizesInv /\ [SizesNext]_sizeVars => SizesInv'
<1> SUFFICES ASSUME SizesInv, [SizesNext]_sizeVars PROVE SizesInv'
  OBVIOUS
<1>1. CASE ParseOptions
  <2>1. CASE payload' = NoNumber \/ ring' = NoNumber
    BY <1>1, <2>1 DEF ParseOptions, SizesInv
  <2>2. CASE payload' # NoNumber /\ ring' # NoNumber
    <3>1. payload' = Means(payloadText) /\ payload' \in Nat /\ payload' < SizeModulus
      BY <1>1, <2>2, ParseExact DEF ParseOptions, SizesInv
    <3>2. ring' = Means(ringText) /\ ring' \in Nat
      BY <1>1, <2>2, ParseExact DEF ParseOptions, SizesInv
    <3> QED BY <1>1, <2>2, <3>1, <3>2 DEF ParseOptions, SizesInv, Means
  <2> QED BY <2>1, <2>2
<1>2. CASE Grow
  <2>1. CASE capacity > Quarter
    BY <1>2, <2>1 DEF Grow, SizesInv
  <2>2. CASE capacity <= Quarter
    <3>1. capacity' = 2 * capacity
      BY <1>2, <2>2, NoWrap, ModulusNat, SizesAssumption DEF Grow, SizesInv
    <3> QED BY <1>2, <2>2, <3>1, SizesAssumption DEF Grow, SizesInv, Means
  <2> QED BY <2>1, <2>2, SizesAssumption DEF SizesInv
<1>3. CASE Normalized
  BY <1>3 DEF Normalized, SizesInv, Means
<1>4. CASE CheckSize
  <2>1. UNCHANGED <<payloadText, ringText, payload, ring, capacity>> /\ pc = "run" /\ pc' \in {"refused", "running"}
    BY <1>4 DEF CheckSize
  <2>2. pc' = "running" => (record_size <= max_record_size)'
    <3>1. record_size \in Nat /\ max_record_size \in Int
      BY <1>4, ModulusNat, SizesAssumption DEF CheckSize, SizesInv, record_size, max_record_size
    <3>2. record_size' = record_size /\ max_record_size' = max_record_size
      BY <2>1 DEF record_size, max_record_size
    <3> QED BY <1>4, <3>1, <3>2 DEF CheckSize
  <2> QED BY <2>1, <2>2 DEF SizesInv, Means
<1>5. CASE UNCHANGED sizeVars
  BY <1>5 DEF sizeVars, SizesInv, Means, record_size, max_record_size
<1> QED BY <1>1, <1>2, <1>3, <1>4, <1>5 DEF SizesNext

LEMMA SizesInvariant == SizesSpec => []SizesInv
<1> QED BY InitSizesInv, NextSizesInv, PTL DEF SizesSpec

\* normalize_capacity() never returns less than what was asked for nor twice as
\* much, and never wraps, for integers of every width.
THEOREM CapacityRounded == SizesSpec => []CapacityTight
<1>1. SizesInv => CapacityTight
  BY DEF SizesInv, CapacityTight
<1> QED BY <1>1, SizesInvariant, PTL

\* A producer that runs stores the size its user wrote, unharmed by the narrower
\* fields of header and length prefix, and its packets fit into the ring.
THEOREM SizesKept == SizesSpec => []SizesFaithful
<1>1. SizesInv => SizesFaithful
  <2> SUFFICES ASSUME SizesInv, pc = "running", Means(payloadText) + HeaderSize < SizeModulus
               PROVE  /\ HeaderPayloadSize = Means(payloadText)
                      /\ RecordLength = HeaderSize + Means(payloadText)
                      /\ PrefixSize + RecordLength <= capacity
    BY DEF SizesFaithful
  <2>1. payload \in Nat /\ payload = Means(payloadText) /\ record_size <= max_record_size /\ capacity \in Nat
    BY DEF SizesInv
  <2>2. record_size = HeaderSize + payload
    BY <2>1, NoWrap, ModulusNat, SizesAssumption DEF record_size
  <2>3. record_size < LengthModulus /\ PrefixSize + record_size <= capacity
    BY <2>1, <2>2, SizesAssumption DEF max_record_size
  <2>4. RecordLength = record_size
    BY <2>1, <2>2, <2>3, NoWrap, SizesAssumption DEF RecordLength
  <2>5. HeaderPayloadSize = payload
    <3>1. record_size - HeaderSize = payload /\ payload < LengthModulus
      BY <2>1, <2>2, <2>3, SizesAssumption
    <3> QED BY <2>1, <3>1, NoWrap, SizesAssumption DEF HeaderPayloadSize
  <2> QED BY <2>1, <2>2, <2>3, <2>4, <2>5
<1> QED BY <1>1, SizesInvariant, PTL

=============================================================================
