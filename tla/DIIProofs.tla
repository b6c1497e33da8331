------------------------------- MODULE DIIProofs -------------------------------
(***************************************************************************)
(* What holds of ingredient sessions.                                      *)
(*                                                                         *)
(* Any number of processes serve the sessions, any writes fail and any     *)
(* process dies.  Of a session that no two of them had in memory at once,  *)
(* memory and file never contradict each other where it matters: if the    *)
(* last change was answered, the file and the memory that has the session  *)
(* are what the answer told; if a finalization was answered, both say so.  *)
(* A finalization whose flag could not be saved is in the memory of its    *)
(* process, and is lost only with that.  A call that runs is about no such *)
(* session.                                                                *)
(*                                                                         *)
(* Without exception: a failed finalization leaves no trace, none wipes    *)
(* the recipe, and every copy of a session, in memory or file, has each    *)
(* ingredient once.                                                        *)
(***************************************************************************)
EXTENDS DIISessions, FoldLemmas, TLAPS

-------------------------------------------------------------------------------
(* The folds over lists of items.                                          *)

\* Without goes through the list and keeps the other ingredients.
LEMMA WithoutFolds ==
  ASSUME NEW list \in Seq(Items), NEW i
  PROVE  \E f : /\ f[0] = <<>>
                /\ \A n \in 0 .. Len(list) - 1 :
                     f[n + 1] = IF list[n + 1].ingredient = i THEN f[n] ELSE Append(f[n], list[n + 1])
                /\ Without(list, i) = f[Len(list)]
<1> DEFINE N == Len(list)
           step == [k \in 1 .. N |-> [y \in Seq(Items) |->
                      IF list[k].ingredient = i THEN y ELSE Append(y, list[k])]]
           Body(g, S) == IF S = {} THEN <<>>
                         ELSE IF list[Max(S)].ingredient = i THEN g[S \ {Max(S)}]
                         ELSE Append(g[S \ {Max(S)}], list[Max(S)])
           iter == CHOOSE g : g = [S \in SUBSET DOMAIN list |-> Body(g, S)]
<1>1. N \in Nat /\ DOMAIN list = 1 .. N /\ \A k \in 1 .. N : list[k] \in Items
  OBVIOUS
<1>2. \A y \in Seq(Items), k \in 1 .. N :
        /\ step[k][y] = IF list[k].ingredient = i THEN y ELSE Append(y, list[k])
        /\ step[k][y] \in Seq(Items)
  BY <1>1
<1>3. PICK g : Folding(g, Seq(Items), <<>>, step, N)
  <2>1. <<>> \in Seq(Items) /\ step \in [1 .. N -> [Seq(Items) -> Seq(Items)]]
    BY <1>2
  <2> HIDE DEF step, N
  <2> QED BY <1>1, <2>1, FoldExists
<1>4. g = [S \in SUBSET DOMAIN list |-> Body(g, S)]
  <2>1. ASSUME NEW S \in SUBSET (1 .. N) PROVE g[S] = Body(g, S)
    <3>1. CASE S = {}
      BY <1>3, <3>1 DEF Folding
    <3>2. CASE S # {}
      <4>1. Max(S) \in 1 .. N
        BY <1>1, <3>2, LargestIsOne
      <4>2. S \ {Max(S)} \in SUBSET (1 .. N)
        OBVIOUS
      <4>3. g[S \ {Max(S)}] \in Seq(Items) /\ g[S] = step[Max(S)][g[S \ {Max(S)}]]
        BY <1>3, <3>2, <4>2 DEF Folding
      <4> HIDE DEF step
      <4> QED BY <1>2, <3>2, <4>1, <4>3
    <3> QED BY <3>1, <3>2
  <2> QED BY <1>1, <1>3, <2>1 DEF Folding
<1>5. iter = [S \in SUBSET DOMAIN list |-> Body(iter, S)]
  BY <1>4
<1>6. Without(list, i) = iter[DOMAIN list]
  BY DEF Without, FoldLeft, MapThenFoldSet
<1> DEFINE f == [n \in 0 .. N |-> iter[1 .. n]]
<1> HIDE DEF iter
<1>7. f[0] = <<>>
  BY <1>1, <1>5
<1>8. ASSUME NEW n \in 0 .. N - 1
      PROVE  f[n + 1] = IF list[n + 1].ingredient = i THEN f[n] ELSE Append(f[n], list[n + 1])
  <2>1. iter[1 .. n + 1] = IF list[n + 1].ingredient = i THEN iter[1 .. n] ELSE Append(iter[1 .. n], list[n + 1])
    <3>1. /\ Max(1 .. n + 1) = n + 1 /\ (1 .. n + 1) \ {n + 1} = 1 .. n
          /\ 1 .. n + 1 \in SUBSET (1 .. N) /\ 1 .. n + 1 # {}
      BY <1>1, EachPrefix
    <3>2. iter[1 .. n + 1] = Body(iter, 1 .. n + 1)
      BY <1>1, <1>5, <3>1
    <3> QED BY <3>1, <3>2
  <2> QED BY <1>1, <2>1
<1>9. Without(list, i) = f[N]
  BY <1>1, <1>6
<1> QED BY <1>7, <1>8, <1>9

\* The list has the ingredient of the item.
Repeats(rest, item) == \E k \in DOMAIN rest : rest[k].ingredient = item.ingredient

\* Cleaned keeps what does not repeat an ingredient.
LEMMA CleanedFolds ==
  ASSUME NEW list \in Seq(Items)
  PROVE  \E f : /\ f[0] = <<>>
                /\ \A n \in 0 .. Len(list) - 1 :
                     f[n + 1] = IF Repeats(f[n], list[n + 1]) THEN f[n] ELSE Append(f[n], list[n + 1])
                /\ Cleaned(list) = f[Len(list)]
<1> DEFINE N == Len(list)
           step == [k \in 1 .. N |-> [y \in Seq(Items) |->
                      IF Repeats(y, list[k]) THEN y ELSE Append(y, list[k])]]
           Body(g, S) == IF S = {} THEN <<>>
                         ELSE IF Repeats(g[S \ {Max(S)}], list[Max(S)]) THEN g[S \ {Max(S)}]
                         ELSE Append(g[S \ {Max(S)}], list[Max(S)])
           iter == CHOOSE g : g = [S \in SUBSET DOMAIN list |-> Body(g, S)]
<1>1. N \in Nat /\ DOMAIN list = 1 .. N /\ \A k \in 1 .. N : list[k] \in Items
  OBVIOUS
<1>2. \A y \in Seq(Items), k \in 1 .. N :
        /\ step[k][y] = IF Repeats(y, list[k]) THEN y ELSE Append(y, list[k])
        /\ step[k][y] \in Seq(Items)
  BY <1>1
<1>3. PICK g : Folding(g, Seq(Items), <<>>, step, N)
  <2>1. <<>> \in Seq(Items) /\ step \in [1 .. N -> [Seq(Items) -> Seq(Items)]]
    BY <1>2
  <2> HIDE DEF step, N
  <2> QED BY <1>1, <2>1, FoldExists
<1>4. g = [S \in SUBSET DOMAIN list |-> Body(g, S)]
  <2>1. ASSUME NEW S \in SUBSET (1 .. N) PROVE g[S] = Body(g, S)
    <3>1. CASE S = {}
      BY <1>3, <3>1 DEF Folding
    <3>2. CASE S # {}
      <4>1. Max(S) \in 1 .. N
        BY <1>1, <3>2, LargestIsOne
      <4>2. S \ {Max(S)} \in SUBSET (1 .. N)
        OBVIOUS
      <4>3. g[S \ {Max(S)}] \in Seq(Items) /\ g[S] = step[Max(S)][g[S \ {Max(S)}]]
        BY <1>3, <3>2, <4>2 DEF Folding
      <4> HIDE DEF step
      <4> QED BY <1>2, <3>2, <4>1, <4>3
    <3> QED BY <3>1, <3>2
  <2> QED BY <1>1, <1>3, <2>1 DEF Folding
<1>5. iter = [S \in SUBSET DOMAIN list |-> Body(iter, S)]
  BY <1>4
<1>6. Cleaned(list) = iter[DOMAIN list]
  BY DEF Cleaned, FoldLeft, MapThenFoldSet, Repeats
<1> DEFINE f == [n \in 0 .. N |-> iter[1 .. n]]
<1> HIDE DEF iter
<1>7. f[0] = <<>>
  BY <1>1, <1>5
<1>8. ASSUME NEW n \in 0 .. N - 1
      PROVE  f[n + 1] = IF Repeats(f[n], list[n + 1]) THEN f[n] ELSE Append(f[n], list[n + 1])
  <2>1. iter[1 .. n + 1] = IF Repeats(iter[1 .. n], list[n + 1]) THEN iter[1 .. n] ELSE Append(iter[1 .. n], list[n + 1])
    <3>1. /\ Max(1 .. n + 1) = n + 1 /\ (1 .. n + 1) \ {n + 1} = 1 .. n
          /\ 1 .. n + 1 \in SUBSET (1 .. N) /\ 1 .. n + 1 # {}
      BY <1>1, EachPrefix
    <3>2. iter[1 .. n + 1] = Body(iter, 1 .. n + 1)
      BY <1>1, <1>5, <3>1
    <3> QED BY <3>1, <3>2
  <2> QED BY <1>1, <2>1
<1>9. Cleaned(list) = f[N]
  BY <1>1, <1>6
<1> QED BY <1>7, <1>8, <1>9

-------------------------------------------------------------------------------
Unrepeated(list) ==
  \A k, l \in DOMAIN list : list[k].ingredient = list[l].ingredient => k = l

LEMMA CleanedIs ==
  ASSUME NEW list \in Seq(Items)
  PROVE  Cleaned(list) \in Seq(Items) /\ Unrepeated(Cleaned(list))
<1> DEFINE N == Len(list)
<1>1. PICK f : /\ f[0] = <<>>
               /\ \A n \in 0 .. N - 1 :
                    f[n + 1] = IF Repeats(f[n], list[n + 1]) THEN f[n] ELSE Append(f[n], list[n + 1])
               /\ Cleaned(list) = f[N]
  BY CleanedFolds
<1> DEFINE Good == {n \in 0 .. N : f[n] \in Seq(Items) /\ Unrepeated(f[n])}
<1>2. N \in Nat /\ 0 \in Good
  <2>1. 0 \in 0 .. N /\ N \in Nat /\ <<>> \in Seq(Items) /\ Unrepeated(<<>>) /\ DOMAIN <<>> = {}
    BY DEF Unrepeated
  <2>2. f[0] \in Seq(Items) /\ Unrepeated(f[0]) /\ DOMAIN f[0] = {}
    BY <1>1, <2>1
  <2> QED BY <2>1, <2>2
<1>3. ASSUME NEW n \in 0 .. N - 1, n \in Good PROVE n + 1 \in Good
  <2>1. f[n] \in Seq(Items) /\ Unrepeated(f[n]) /\ list[n + 1] \in Items /\ n + 1 \in 0 .. N
    BY <1>3
  <2>2. PICK rest \in Seq(Items), item \in Items : rest = f[n] /\ item = list[n + 1]
    BY <2>1
  <2>3. ~Repeats(rest, item) => Append(rest, item) \in Seq(Items) /\ Unrepeated(Append(rest, item))
    BY <2>1, <2>2 DEF Repeats, Unrepeated
  <2> QED BY <1>1, <2>1, <2>2, <2>3
<1>4. N \in Good
  <2> HIDE DEF Good, N
  <2> QED BY <1>2, <1>3, EveryIndex
<1> QED BY <1>1, <1>4

LEMMA WithoutIs ==
  ASSUME NEW list \in Seq(Items), NEW i, Unrepeated(list)
  PROVE  /\ Without(list, i) \in Seq(Items) /\ Unrepeated(Without(list, i))
         /\ \A k \in DOMAIN Without(list, i) :
              /\ Without(list, i)[k].ingredient # i
              /\ \E j \in DOMAIN list : Without(list, i)[k] = list[j]
<1> DEFINE N == Len(list)
<1>1. PICK f : /\ f[0] = <<>>
               /\ \A n \in 0 .. N - 1 :
                    f[n + 1] = IF list[n + 1].ingredient = i THEN f[n] ELSE Append(f[n], list[n + 1])
               /\ Without(list, i) = f[N]
  BY WithoutFolds
<1> DEFINE Holds(rest, n) ==
             /\ rest \in Seq(Items) /\ Unrepeated(rest)
             /\ \A k \in DOMAIN rest : rest[k].ingredient # i /\ \E j \in 1 .. n : rest[k] = list[j]
           Good == {n \in 0 .. N : Holds(f[n], n)}
<1>2. N \in Nat /\ 0 \in Good
  <2>1. 0 \in 0 .. N /\ N \in Nat /\ <<>> \in Seq(Items) /\ Unrepeated(<<>>) /\ DOMAIN <<>> = {}
    BY DEF Unrepeated
  <2>2. f[0] \in Seq(Items) /\ Unrepeated(f[0]) /\ DOMAIN f[0] = {}
    BY <1>1, <2>1
  <2> QED BY <2>1, <2>2
<1>3. ASSUME NEW n \in 0 .. N - 1, n \in Good PROVE n + 1 \in Good
  <2>1. Holds(f[n], n) /\ list[n + 1] \in Items /\ n + 1 \in 0 .. N
    BY <1>3
  <2>2. PICK rest \in Seq(Items), item \in Items : rest = f[n] /\ item = list[n + 1]
    BY <2>1
  <2>3. \A k \in DOMAIN rest : \E j \in 1 .. n : rest[k] = list[j]
    BY <2>1, <2>2
  <2>4. Holds(rest, n + 1)
    <3>1. \A j \in 1 .. n : j \in 1 .. n + 1
      OBVIOUS
    <3> QED BY <2>1, <2>2, <2>3, <3>1
  <2>5. ASSUME item.ingredient # i PROVE Holds(Append(rest, item), n + 1)
    <3>1. \A k \in DOMAIN rest : rest[k].ingredient # item.ingredient
      <4> SUFFICES ASSUME NEW k \in DOMAIN rest, rest[k].ingredient = item.ingredient PROVE FALSE
        OBVIOUS
      <4>1. PICK j \in 1 .. n : rest[k] = list[j]
        BY <2>3
      <4>2. j \in DOMAIN list /\ n + 1 \in DOMAIN list /\ j # n + 1
        OBVIOUS
      <4> QED BY <2>2, <4>1, <4>2 DEF Unrepeated
    <3>2. Unrepeated(Append(rest, item))
      <4>1. Unrepeated(rest)
        BY <2>1, <2>2
      <4> QED BY <3>1, <4>1 DEF Unrepeated
    <3>3. /\ DOMAIN Append(rest, item) = DOMAIN rest \cup {Len(rest) + 1}
          /\ \A k \in DOMAIN rest : Append(rest, item)[k] = rest[k]
          /\ Append(rest, item)[Len(rest) + 1] = item
          /\ Append(rest, item) \in Seq(Items)
      OBVIOUS
    <3>4. n + 1 \in 1 .. n + 1 /\ item = list[n + 1]
      BY <2>2
    <3> QED BY <2>2, <2>4, <2>5, <3>2, <3>3, <3>4
  <2>6. f[n + 1] = IF item.ingredient = i THEN rest ELSE Append(rest, item)
    BY <1>1, <2>2
  <2>7. Holds(f[n + 1], n + 1)
    <3> HIDE DEF Holds
    <3> QED BY <2>4, <2>5, <2>6
  <2> QED BY <2>1, <2>7
<1>4. N \in Good
  <2> HIDE DEF Good, N
  <2> QED BY <1>2, <1>3, EveryIndex
<1>5. Holds(Without(list, i), N)
  BY <1>1, <1>4
<1> QED BY <1>5

\* The rest of a list is a list.
LEMMA WithoutIsList ==
  ASSUME NEW list \in Seq(Items), NEW i
  PROVE  Without(list, i) \in Seq(Items)
<1> DEFINE N == Len(list)
<1>1. PICK f : /\ f[0] = <<>>
               /\ \A n \in 0 .. N - 1 :
                    f[n + 1] = IF list[n + 1].ingredient = i THEN f[n] ELSE Append(f[n], list[n + 1])
               /\ Without(list, i) = f[N]
  BY WithoutFolds
<1> DEFINE Good == {n \in 0 .. N : f[n] \in Seq(Items)}
<1>2. N \in Nat /\ 0 \in Good
  <2>1. N \in Nat /\ 0 \in 0 .. N /\ <<>> \in Seq(Items)
    OBVIOUS
  <2> QED BY <1>1, <2>1
<1>3. ASSUME NEW n \in 0 .. N - 1, n \in Good PROVE n + 1 \in Good
  <2>1. f[n] \in Seq(Items) /\ list[n + 1] \in Items /\ n + 1 \in 0 .. N
    BY <1>3
  <2>2. Append(f[n], list[n + 1]) \in Seq(Items)
    BY <2>1
  <2> QED BY <1>1, <2>1, <2>2
<1>4. N \in Good
  <2> HIDE DEF Good, N
  <2> QED BY <1>2, <1>3, EveryIndex
<1> QED BY <1>1, <1>4

-------------------------------------------------------------------------------
(* What holds of the system.                                               *)

MaybeSession(x) == x \in DIISession \cup {None}

Calls == {Idle} \cup [write : {"session"}, p : Processes, s : Sessions]
Stock == [Ingredients -> [available : BOOLEAN, cycle : Nat]]
Finalizations ==
  [write : Writes, p : Processes, s : Sessions, toFridge : BOOLEAN, toDish : BOOLEAN, before : Stock]

Shapes ==
  /\ now \in Nat
  /\ memory = [p \in Processes |-> [s \in Sessions |-> memory[p][s]]]
  /\ file = [s \in Sessions |-> file[s]]
  /\ told = [s \in Sessions |-> told[s]]
  /\ \A p \in Processes, s \in Sessions : MaybeSession(memory[p][s])
  /\ \A s \in Sessions : MaybeSession(file[s]) /\ MaybeSession(told[s])
  /\ fridge \in Stock
  /\ call \in Calls \cup Finalizations
  /\ call # Idle => memory[call.p][call.s] \in DIISession
  /\ outcome = [s \in Sessions |-> outcome[s]]
  /\ shared \subseteq Sessions

\* One process has the session, that of the call if there is one.
Alone(s) ==
  /\ \A p \in Processes : memory[p][s] # None =>
       \A q \in Processes \ {p} : memory[q][s] = None
  /\ call # Idle /\ call.s = s => \A q \in Processes \ {call.p} : memory[q][s] = None

\* The last change of s was answered, and it has not expired.
Standing(s) == told[s] # None /\ ~Expired(told[s])

\* Memory and file are as answered, but for a flag that could not be saved.
Backed(s) ==
  Standing(s) =>
    /\ call = Idle \/ call.s # s
    /\ \/ file[s] = told[s] /\ \A p \in Processes : memory[p][s] \in {None, told[s]}
       \/ /\ told[s].finalized
          /\ \/ outcome[s] = "unsaved" /\ \E p \in Processes : memory[p][s] = told[s]
             \/ outcome[s] = "lost"

\* Who has the session or reads it finds that it is finalized.
Marked(s) ==
  outcome[s] \in {"settled", "unsaved"} =>
    /\ call = Idle \/ call.s # s
    /\ \A p \in Processes : memory[p][s] # None => memory[p][s].finalized
    /\ file[s] # None => \/ outcome[s] = "settled" /\ file[s].finalized
                         \/ outcome[s] = "unsaved" /\ \E p \in Processes : memory[p][s] # None

Sound(s) == s \notin shared => Alone(s) /\ Backed(s) /\ Marked(s)

Flagged == call # Idle /\ call.write = "finalized" => memory[call.p][call.s].finalized

DIIInv == Shapes /\ Flagged /\ \A s \in Sessions : Sound(s)

-------------------------------------------------------------------------------
(* Sessions.                                                               *)

LEMMA TouchedSession == ASSUME NEW x \in DIISession, now \in Nat PROVE Touched(x) \in DIISession
BY DEF Touched, DIISession

LEMMA OfferingSession ==
  ASSUME NEW x \in DIISession, NEW list \in Seq(Items)
  PROVE  Offering(x, list) \in DIISession
<1>1. /\ (IF list = <<>> THEN None ELSE Head(list)) \in Items \cup {None}
      /\ (IF list = <<>> THEN <<>> ELSE Tail(list)) \in Seq(Items)
  OBVIOUS
<1>2. ASSUME NEW c \in Items \cup {None}, NEW q \in Seq(Items)
      PROVE  [x EXCEPT !.current = c, !.queue = q] \in DIISession
  BY DEF DIISession
<1> QED BY <1>1, <1>2 DEF Offering

LEMMA SelectedSession ==
  ASSUME NEW x \in DIISession, NEW item \in Items
  PROVE  Select(x, item) \in DIISession /\ Select(x, item).current = x.current
BY DEF Select, DIISession, Items

\* Every operation of the engine makes a session of a session.
LEMMA Engine ==
  ASSUME NEW x \in DIISession, now \in Nat
  PROVE  /\ x.current # None => AddSuggested(x) \in DIISession
         /\ Skip(x) \in DIISession /\ Cleared(x) \in DIISession
         /\ Finalized(x) \in DIISession /\ Finalized(x).finalized
         /\ \A i : Removed(x, i) \in DIISession
         /\ \A item \in Items : AddManual(x, item) \in DIISession
<1>1. ASSUME NEW y \in DIISession PROVE Advanced(y) \in DIISession
  BY OfferingSession DEF Advanced, DIISession
<1>2. Skip(x) \in DIISession
  BY <1>1, TouchedSession DEF Skip
<1>3. ASSUME x.current # None PROVE AddSuggested(x) \in DIISession
  <2>1. x.current \in Items
    BY <1>3 DEF DIISession
  <2> QED BY <1>1, <2>1, SelectedSession, TouchedSession DEF AddSuggested
<1>4. Cleared(x) \in DIISession
  <2>1. ASSUME NEW b \in BOOLEAN
        PROVE  [x EXCEPT !.essential = {}, !.optional = {}, !.pending = b] \in DIISession
    BY DEF DIISession
  <2>2. (x.pending \/ Selection(x) # {}) \in BOOLEAN
    BY DEF DIISession
  <2> QED BY <2>1, <2>2, TouchedSession DEF Cleared
<1>5. Finalized(x) \in DIISession /\ Finalized(x).finalized
  BY DEF Finalized, Touched, DIISession
<1>6. ASSUME NEW i PROVE Removed(x, i) \in DIISession
  BY DEF Removed, Touched, DIISession
<1>7. ASSUME NEW item \in Items PROVE AddManual(x, item) \in DIISession
  <2>1. PICK y \in DIISession : y = Select(x, item)
    BY SelectedSession
  <2>2. Without(y.queue, item.ingredient) \in Seq(Items)
    BY WithoutIsList DEF DIISession
  <2>3. [y EXCEPT !.queue = Without(@, item.ingredient)] \in DIISession
    BY <2>2 DEF DIISession
  <2> QED BY <1>1, <2>1, <2>3, TouchedSession DEF AddManual
<1> QED BY <1>2, <1>3, <1>4, <1>5, <1>6, <1>7

LEMMA BuiltSession ==
  ASSUME NEW ranked \in Rankings, NEW n \in PreSelect, now \in Nat
  PROVE  Built(ranked, n) \in DIISession
<1> DEFINE list == Cleaned(ranked)
<1>1. list \in Seq(Items) /\ n \in Nat
  BY DIIConstants, CleanedIs
<1>2. SubSeq(list, n + 1, Len(list)) \in Seq(Items)
  BY <1>1
<1>3. ASSUME NEW E \in SUBSET Ingredients, NEW O \in SUBSET Ingredients
      PROVE  [essential |-> E, optional |-> O, current |-> None, queue |-> <<>>,
              last |-> now, finalized |-> FALSE, pending |-> FALSE] \in DIISession
  BY DEF DIISession
<1>4. \A i \in Items : i.ingredient \in Ingredients
  BY DEF Items
<1> DEFINE top == {list[k] : k \in {k \in DOMAIN list : k <= n}}
           E == {item.ingredient : item \in {i \in top : i.essential}}
           O == {item.ingredient : item \in {i \in top : ~i.essential}}
           x == [essential |-> E, optional |-> O, current |-> None, queue |-> <<>>,
                 last |-> now, finalized |-> FALSE, pending |-> FALSE]
<1>5. top \subseteq Items
  <2>1. \A k \in DOMAIN list : list[k] \in Items
    <3> HIDE DEF list
    <3> QED BY <1>1
  <2> QED BY <2>1
<1>6. E \in SUBSET Ingredients /\ O \in SUBSET Ingredients
  <2> HIDE DEF top
  <2> QED BY <1>4, <1>5
<1>7. x \in DIISession
  <2> HIDE DEF E, O
  <2> QED BY <1>3, <1>6
<1>8. Built(ranked, n) = Offering(x, SubSeq(list, n + 1, Len(list)))
  BY DEF Built
<1> QED
  <2> HIDE DEF x, list
  <2> QED BY <1>2, <1>7, <1>8, OfferingSession

-------------------------------------------------------------------------------
(* The store.                                                              *)

\* What a call finds is in memory or in the file; it forgets only what expired.
LEMMA Finding ==
  ASSUME Shapes, NEW p \in Processes, NEW s \in Sessions
  PROVE  /\ MaybeSession(Got(p, s))
         /\ Got(p, s) \in {None, memory[p][s], file[s]}
         /\ \A t \in Sessions :
              /\ \/ MemoryCleaned(p)[t] = memory[p][t]
                 \/ /\ MemoryCleaned(p)[t] = None /\ Expired(memory[p][t])
                    /\ FileCleaned(p)[t] = None
              /\ \/ FileCleaned(p)[t] = file[t]
                 \/ FileCleaned(p)[t] = None /\ (Expired(memory[p][t]) \/ Expired(file[t]))
         /\ Got(p, s) = None => file[s] = None \/ Expired(memory[p][s]) \/ Expired(file[s])
         /\ memory[p][s] # None =>
              Got(p, s) = memory[p][s] \/ (Got(p, s) = None /\ Expired(memory[p][s]))
<1>1. \A t \in Sessions :
        /\ MemoryCleaned(p)[t] = IF CleanUpDue(p) /\ Expired(memory[p][t]) THEN None ELSE memory[p][t]
        /\ FileCleaned(p)[t] = IF CleanUpDue(p) /\ (Expired(memory[p][t]) \/ Expired(file[t]))
                               THEN None ELSE file[t]
  BY DEF MemoryCleaned, FileCleaned
<1>2. Expired(None) = FALSE
  BY DEF Expired
<1> QED BY <1>1, <1>2 DEF Got, Shapes, MaybeSession

\* Process p may forget a session that expired, and its file with it, or the
\* file alone; it may read the file if it has no session.
Kept(p, t) ==
  /\ memory'[p][t] \in {None, memory[p][t], file[t]}
  /\ memory[p][t] # None => \/ memory'[p][t] = memory[p][t]
                            \/ memory'[p][t] = None /\ Expired(memory[p][t]) /\ file'[t] = None
  /\ file'[t] \in {None, file[t]}
  /\ file'[t] = None => file[t] = None \/ Expired(memory[p][t]) \/ Expired(file[t])
  /\ \A q \in Processes \ {p} : memory'[q][t] = memory[q][t]

StoresShaped ==
  /\ memory' = [p \in Processes |-> [s \in Sessions |-> memory'[p][s]]]
  /\ file' = [s \in Sessions |-> file'[s]]
  /\ \A p \in Processes, s \in Sessions : MaybeSession(memory'[p][s])
  /\ \A s \in Sessions : MaybeSession(file'[s])

LEMMA Leaving ==
  ASSUME Shapes, NEW p \in Processes, NEW s \in Sessions, NEW x, MaybeSession(x), Leave(p, s, x)
  PROVE  /\ StoresShaped
         /\ memory'[p][s] = x
         /\ \A q \in Processes \ {p} : memory'[q] = memory[q]
         /\ \A t \in Sessions \ {s} : Kept(p, t) /\ memory'[p][t] \in {None, memory[p][t]}
         /\ x = Got(p, s) => Kept(p, s)
         /\ shared' \subseteq shared \cup {s} /\ shared \subseteq shared'
         /\ s \notin shared' /\ Got(p, s) # None =>
              \A q \in Processes \ {p} : memory[q][s] = None
<1>1. /\ memory' = [memory EXCEPT ![p] = [MemoryCleaned(p) EXCEPT ![s] = x]]
      /\ file' = [FileCleaned(p) EXCEPT ![s] = IF Got(p, s) = None THEN None ELSE @]
  BY DEF Leave
<1>2. MemoryCleaned(p) = [t \in Sessions |-> MemoryCleaned(p)[t]]
  BY DEF MemoryCleaned
<1>3. FileCleaned(p) = [t \in Sessions |-> FileCleaned(p)[t]]
  BY DEF FileCleaned
<1>4. /\ memory'[p] = [t \in Sessions |-> IF t = s THEN x ELSE MemoryCleaned(p)[t]]
      /\ \A q \in Processes \ {p} : memory'[q] = memory[q]
      /\ DOMAIN memory' = Processes
  BY <1>1, <1>2 DEF Shapes
<1>5. file' = [t \in Sessions |-> IF t = s /\ Got(p, s) = None THEN None ELSE FileCleaned(p)[t]]
  BY <1>1, <1>3
<1>6. \A t \in Sessions \ {s} : Kept(p, t) /\ memory'[p][t] \in {None, memory[p][t]}
  BY <1>4, <1>5, Finding DEF Kept
<1>7. x = Got(p, s) => Kept(p, s)
  BY <1>4, <1>5, Finding DEF Kept
<1>8. StoresShaped
  <2>1. memory' = [q \in Processes |-> [t \in Sessions |-> memory'[q][t]]]
    <3>1. \A q \in Processes : memory'[q] = [t \in Sessions |-> memory'[q][t]]
      BY <1>4 DEF Shapes
    <3>2. memory' = [q \in Processes |-> memory'[q]]
      BY <1>1 DEF Shapes
    <3> QED BY <3>1, <3>2
  <2>2. \A q \in Processes, t \in Sessions : MaybeSession(memory'[q][t])
    BY <1>4, Finding DEF Shapes, MaybeSession
  <2>3. \A t \in Sessions : MaybeSession(file'[t])
    BY <1>5, Finding DEF Shapes, MaybeSession
  <2>4. file' = [t \in Sessions |-> file'[t]]
    BY <1>5
  <2> QED BY <2>1, <2>2, <2>3, <2>4 DEF StoresShaped
<1>9. /\ shared' \subseteq shared \cup {s} /\ shared \subseteq shared'
      /\ s \notin shared' /\ Got(p, s) # None => \A q \in Processes \ {p} : memory[q][s] = None
  BY DEF Leave, Elsewhere
<1> QED BY <1>4, <1>6, <1>7, <1>8, <1>9

-------------------------------------------------------------------------------
-------------------------------------------------------------------------------
(* The steps.                                                              *)

\* What p forgets or reads of t, no call being about t, leaves t sound.
LEMMA KeptSound ==
  ASSUME DIIInv, NEW p \in Processes, NEW t \in Sessions, Kept(p, t),
         t \notin shared' => t \notin shared /\ Alone(t)',
         told'[t] = told[t], outcome'[t] = outcome[t], now' = now,
         call = Idle \/ call.s # t, call' = Idle \/ call'.s # t
  PROVE  Sound(t)'
<1> SUFFICES ASSUME t \notin shared' PROVE Backed(t)' /\ Marked(t)'
  BY DEF Sound
<1>1. Alone(t)' /\ Backed(t) /\ Marked(t)
  BY DEF DIIInv, Sound
<1>2. ~Expired(None)
  BY DEF Expired
<1>3. Backed(t)'
  <2> SUFFICES ASSUME Standing(t)' PROVE Backed(t)'
    BY DEF Backed
  <2>1. Standing(t)
    BY DEF Standing, Expired
  <2>2. CASE file[t] = told[t] /\ \A q \in Processes : memory[q][t] \in {None, told[t]}
    <3>1. ~Expired(file[t]) /\ ~Expired(memory[p][t]) /\ file[t] # None
      BY <1>2, <2>1, <2>2 DEF Standing
    <3>2. file'[t] = told'[t]
      BY <2>2, <3>1 DEF Kept
    <3>3. \A q \in Processes : memory'[q][t] \in {None, told'[t]}
      BY <2>2 DEF Kept
    <3> QED BY <3>2, <3>3 DEF Backed
  <2>3. ASSUME NEW q \in Processes, memory[q][t] = told[t], told[t].finalized,
               outcome[t] = "unsaved"
        PROVE  Backed(t)'
    <3>1. memory'[q][t] = told'[t]
      BY <2>1, <2>3 DEF Kept, Standing
    <3> QED BY <2>3, <3>1 DEF Backed
  <2>4. CASE told[t].finalized /\ outcome[t] = "lost"
    BY <2>4 DEF Backed
  <2> QED BY <1>1, <2>1, <2>2, <2>3, <2>4 DEF Backed
<1>4. Marked(t)'
  <2> SUFFICES ASSUME outcome'[t] \in {"settled", "unsaved"} PROVE Marked(t)'
    BY DEF Marked
  <2>1. /\ \A q \in Processes : memory[q][t] # None => memory[q][t].finalized
        /\ file[t] # None => \/ outcome[t] = "settled" /\ file[t].finalized
                             \/ outcome[t] = "unsaved" /\ \E q \in Processes : memory[q][t] # None
    BY <1>1 DEF Marked
  <2>2. CASE outcome[t] = "settled"
    BY <2>1, <2>2 DEF Marked, Kept
  <2>3. CASE outcome[t] = "unsaved"
    <3>1. ASSUME file[t] # None
          PROVE  \E q \in Processes : memory[q][t] # None /\ (memory'[q][t] = memory[q][t] \/ file'[t] = None)
      BY <2>1, <2>3, <3>1 DEF Kept
    <3>2. memory[p][t] = None /\ file[t] # None => memory'[p][t] = None
      <4> SUFFICES ASSUME memory[p][t] = None, file[t] # None PROVE memory'[p][t] = None
        OBVIOUS
      <4>1. PICK q \in Processes \ {p} : memory[q][t] # None
        BY <3>1
      <4>2. memory'[q][t] # None
        BY <4>1 DEF Kept
      <4> QED BY <1>1, <4>1, <4>2 DEF Alone
    <3>3. \A q \in Processes : memory'[q][t] # None => memory'[q][t].finalized
      BY <2>1, <3>2 DEF Kept
    <3>4. file'[t] # None => \E q \in Processes : memory'[q][t] # None
      BY <3>1 DEF Kept
    <3> QED BY <2>3, <3>3, <3>4 DEF Marked
  <2> QED BY <2>2, <2>3
<1> QED BY <1>3, <1>4

CallShaped ==
  /\ call' \in Calls \cup Finalizations
  /\ call' # Idle => memory'[call'.p][call'.s] \in DIISession
  /\ call' # Idle /\ call'.write = "finalized" => memory'[call'.p][call'.s].finalized

HistoryShaped ==
  /\ told' = [t \in Sessions |-> told'[t]] /\ \A t \in Sessions : MaybeSession(told'[t])
  /\ outcome' = [t \in Sessions |-> outcome'[t]]
  /\ shared' \subseteq Sessions

\* The invariant holds in the next state when it does of each session.
LEMMA Assembled ==
  ASSUME StoresShaped, CallShaped, HistoryShaped, now' \in Nat, fridge' \in Stock,
         \A t \in Sessions : Sound(t)'
  PROVE  DIIInv'
<1>1. Shapes'
  BY DEF Shapes, StoresShaped, CallShaped, HistoryShaped
<1>2. Flagged'
  BY DEF Flagged, CallShaped
<1> QED BY <1>1, <1>2 DEF DIIInv

\* A step is about one session, s, and others may only be forgotten.
About(p, s) ==
  /\ \A t \in Sessions \ {s} :
       /\ Kept(p, t) /\ memory'[p][t] \in {None, memory[p][t]}
       /\ told'[t] = told[t] /\ outcome'[t] = outcome[t]
       /\ t \in shared => t \in shared'
  /\ call = Idle \/ call.s = s
  /\ call' = Idle \/ call'.s = s
  /\ now' = now /\ fridge' \in Stock

LEMMA Stepping ==
  ASSUME DIIInv, NEW p \in Processes, NEW s \in Sessions,
         StoresShaped, CallShaped, HistoryShaped, About(p, s), Sound(s)'
  PROVE  DIIInv'
<1>1. ASSUME NEW t \in Sessions \ {s} PROVE Sound(t)'
  <2>1. /\ Kept(p, t) /\ memory'[p][t] \in {None, memory[p][t]}
        /\ told'[t] = told[t] /\ outcome'[t] = outcome[t]
        /\ t \in shared => t \in shared'
        /\ call = Idle \/ call.s # t
        /\ call' = Idle \/ call'.s # t
        /\ now' = now
    BY DEF About
  <2>2. ASSUME t \notin shared' PROVE Alone(t)'
    <3>1. Alone(t)
      BY <2>1, <2>2 DEF DIIInv, Sound
    <3>2. \A q \in Processes : memory'[q][t] \in {None, memory[q][t]}
      BY <2>1 DEF Kept
    <3> QED BY <2>1, <3>1, <3>2 DEF Alone
  <2> QED BY <2>1, <2>2, KeptSound
<1>2. now' \in Nat /\ fridge' \in Stock
  BY DEF DIIInv, Shapes, About
<1> QED BY <1>1, <1>2, Assembled

\* A change of a session, by a call that finds it or that builds it.
LEMMA Changing ==
  ASSUME DIIInv, NEW p \in Processes, NEW s \in Sessions, StoresShaped,
         memory'[p][s] \in DIISession, \A q \in Processes \ {p} : memory'[q] = memory[q],
         \A t \in Sessions \ {s} : Kept(p, t) /\ memory'[p][t] \in {None, memory[p][t]},
         call = Idle, call' \in Calls \cup Finalizations, call' # Idle, call'.p = p, call'.s = s,
         call'.write # "finalized", now' = now, fridge' = fridge,
         told' = [told EXCEPT ![s] = None], outcome' = [t \in Sessions |-> outcome'[t]],
         \A t \in Sessions \ {s} : outcome'[t] = outcome[t],
         shared' \subseteq shared \cup {s}, shared \subseteq shared' \cup {s},
         s \notin shared' => /\ \A q \in Processes \ {p} : memory[q][s] = None
                             /\ outcome'[s] \notin {"settled", "unsaved"}
  PROVE  DIIInv'
<1>1. /\ told' = [t \in Sessions |-> told'[t]] /\ told'[s] = None
      /\ \A t \in Sessions \ {s} : told'[t] = told[t]
  BY DEF DIIInv, Shapes
<1>2. CallShaped
  BY DEF CallShaped
<1>3. HistoryShaped
  BY <1>1 DEF HistoryShaped, DIIInv, Shapes, MaybeSession
<1>4. Sound(s)'
  <2> SUFFICES ASSUME s \notin shared' PROVE Alone(s)' /\ Backed(s)' /\ Marked(s)'
    BY DEF Sound
  <2>1. \A q \in Processes \ {p} : memory'[q][s] = None
    OBVIOUS
  <2>2. Alone(s)'
    BY <2>1 DEF Alone
  <2>3. Backed(s)' /\ Marked(s)'
    BY <1>1 DEF Backed, Standing, Marked
  <2> QED BY <2>2, <2>3
<1>5. About(p, s)
  BY <1>1 DEF About, DIIInv, Shapes
<1> QED BY <1>2, <1>3, <1>4, <1>5, Stepping

\* A call finds no session that was finalized, in memory or file, unless
\* another process has it.
LEMMA Opening ==
  ASSUME DIIInv, NEW p \in Processes, NEW s \in Sessions, Open(p, s)
  PROVE  /\ Got(p, s) \in DIISession /\ Got(p, s) # None /\ call = Idle
         /\ s \notin shared /\ (\A q \in Processes \ {p} : memory[q][s] = None)
              => outcome[s] \notin {"settled", "unsaved"}
<1>1. /\ MaybeSession(Got(p, s)) /\ Got(p, s) # None /\ ~Got(p, s).finalized
      /\ Got(p, s) \in {None, memory[p][s], file[s]} /\ call = Idle
      /\ memory[p][s] # None => Got(p, s) \in {None, memory[p][s]}
  BY Finding DEF Open, DIIInv
<1>2. ASSUME s \notin shared, \A q \in Processes \ {p} : memory[q][s] = None
      PROVE  outcome[s] \notin {"settled", "unsaved"}
  <2> SUFFICES ASSUME outcome[s] \in {"settled", "unsaved"} PROVE FALSE
    OBVIOUS
  <2>1. /\ memory[p][s] # None => memory[p][s].finalized
        /\ file[s] # None => \/ file[s].finalized
                             \/ \E q \in Processes : memory[q][s] # None
    BY <1>2 DEF DIIInv, Sound, Marked
  <2> QED BY <1>1, <1>2, <2>1
<1> QED BY <1>1, <1>2 DEF MaybeSession

LEMMA ChangeStep ==
  ASSUME DIIInv, NEW p \in Processes, NEW s \in Sessions, Open(p, s),
         NEW x, x \in DIISession, Change(p, s, x)
  PROVE  DIIInv'
<1>1. Leave(p, s, x) /\ call = Idle
  BY Opening DEF Change
<1>2. /\ StoresShaped /\ memory'[p][s] = x
      /\ \A q \in Processes \ {p} : memory'[q] = memory[q]
      /\ \A t \in Sessions \ {s} : Kept(p, t) /\ memory'[p][t] \in {None, memory[p][t]}
      /\ shared' \subseteq shared \cup {s} /\ shared \subseteq shared'
      /\ s \notin shared' => \A q \in Processes \ {p} : memory[q][s] = None
  BY <1>1, Leaving, Opening DEF DIIInv, MaybeSession
<1>3. /\ call' = [write |-> "session", p |-> p, s |-> s]
      /\ told' = [told EXCEPT ![s] = None]
      /\ now' = now /\ fridge' = fridge /\ outcome' = outcome
  BY DEF Change, kitchen
<1>4. /\ call' \in Calls /\ call' # Idle /\ call'.p = p /\ call'.s = s
      /\ call'.write # "finalized"
  BY <1>3 DEF Calls, Idle
<1>5. /\ outcome' = [t \in Sessions |-> outcome'[t]]
      /\ s \notin shared' => outcome'[s] \notin {"settled", "unsaved"}
  BY <1>2, <1>3, Opening DEF DIIInv, Shapes
<1> QED BY <1>1, <1>2, <1>3, <1>4, <1>5, Changing

\* The call that runs.
LEMMA Running ==
  ASSUME DIIInv, call # Idle
  PROVE  /\ call.p \in Processes /\ call.s \in Sessions
         /\ call.write = "session" \/ call \in Finalizations
         /\ memory[call.p][call.s] \in DIISession
         /\ call.s \notin shared =>
              /\ outcome[call.s] \notin {"settled", "unsaved"} /\ ~Standing(call.s)
              /\ \A q \in Processes \ {call.p} : memory[q][call.s] = None
<1>1. call \in [write : {"session"}, p : Processes, s : Sessions] \cup Finalizations
  BY DEF DIIInv, Shapes, Calls
<1>2. call.p \in Processes /\ call.s \in Sessions /\ memory[call.p][call.s] \in DIISession
  BY <1>1 DEF DIIInv, Shapes, Finalizations
<1>3. call.s \notin shared => Alone(call.s) /\ Backed(call.s) /\ Marked(call.s)
  BY <1>2 DEF DIIInv, Sound
<1> QED BY <1>1, <1>2, <1>3 DEF Alone, Backed, Marked

LEMMA StoresKept ==
  ASSUME DIIInv, stores' = stores
  PROVE  StoresShaped /\ \A p \in Processes, t \in Sessions : Kept(p, t) /\ memory'[p][t] = memory[p][t]
BY DEF DIIInv, Shapes, StoresShaped, Kept, stores

\* A call goes on or ends and leaves the stores and the history alone.
LEMMA Going ==
  ASSUME DIIInv, call # Idle, stores' = stores, now' = now,
         fridge' \in Stock, history' = history,
         \/ call' = Idle
         \/ /\ call' \in Finalizations /\ call'.p = call.p /\ call'.s = call.s
            /\ call'.write # "finalized"
  PROVE  DIIInv'
<1>1. PICK p \in Processes, s \in Sessions : p = call.p /\ s = call.s
  BY Running
<1>2. /\ memory[p][s] \in DIISession
      /\ s \notin shared => /\ outcome[s] \notin {"settled", "unsaved"} /\ ~Standing(s)
                            /\ \A q \in Processes \ {p} : memory[q][s] = None
  BY <1>1, Running
<1>3. memory' = memory /\ told' = told /\ outcome' = outcome /\ shared' = shared
  BY DEF stores, history
<1>4. CallShaped
  BY <1>1, <1>2, <1>3 DEF CallShaped, Calls
<1>5. HistoryShaped
  BY <1>3 DEF HistoryShaped, DIIInv, Shapes
<1>6. Sound(s)'
  <2> SUFFICES ASSUME s \notin shared' PROVE (Alone(s))' /\ (Backed(s))' /\ (Marked(s))'
    BY DEF Sound
  <2> QED BY <1>1, <1>2, <1>3 DEF Alone, Backed, Marked, Standing, Expired
<1>7. About(p, s)
  BY <1>1, <1>2, <1>3, StoresKept DEF About
<1> QED BY <1>2, <1>4, <1>5, <1>6, <1>7, StoresKept, Stepping

LEMMA Continued ==
  ASSUME call \in Finalizations, NEW step \in Writes, Continue(step)
  PROVE  /\ call' \in Finalizations /\ call'.p = call.p /\ call'.s = call.s
         /\ call'.write = step
BY DEF Continue, Finalizations

-------------------------------------------------------------------------------
(* One lemma per tool or write.                                            *)

LEMMA InitSessionStep ==
  ASSUME DIIInv, NEW p \in Processes, NEW s \in Sessions, InitSession(p, s)
  PROVE  DIIInv'
<1>1. PICK ranked \in Rankings, n \in PreSelect :
        /\ call = Idle
        /\ memory' = [memory EXCEPT ![p] = [MemoryCleaned(p) EXCEPT ![s] = Built(ranked, n)]]
        /\ file' = FileCleaned(p)
        /\ call' = [write |-> "session", p |-> p, s |-> s]
        /\ told' = [told EXCEPT ![s] = None]
        /\ outcome' = [outcome EXCEPT ![s] = "open"]
        /\ shared' = IF Elsewhere(p, s) THEN shared \cup {s} ELSE shared \ {s}
        /\ now' = now /\ fridge' = fridge
  BY Zenon DEF InitSession, kitchen
<1>2. Built(ranked, n) \in DIISession
  BY BuiltSession DEF DIIInv, Shapes
<1>3. /\ memory'[p] = [t \in Sessions |-> IF t = s THEN Built(ranked, n) ELSE MemoryCleaned(p)[t]]
      /\ \A q \in Processes \ {p} : memory'[q] = memory[q]
      /\ memory' = [q \in Processes |-> memory'[q]]
  BY <1>1 DEF DIIInv, Shapes, MemoryCleaned
<1>4. file' = [t \in Sessions |-> FileCleaned(p)[t]]
  BY <1>1 DEF FileCleaned
<1>5. \A t \in Sessions \ {s} : Kept(p, t) /\ memory'[p][t] \in {None, memory[p][t]}
  BY <1>3, <1>4, Finding DEF Kept, DIIInv
<1>6. StoresShaped
  <2>1. \A q \in Processes : memory'[q] = [t \in Sessions |-> memory'[q][t]]
    BY <1>3 DEF DIIInv, Shapes
  <2>2. memory' = [q \in Processes |-> [t \in Sessions |-> memory'[q][t]]]
    BY <1>3, <2>1
  <2>3. \A q \in Processes, t \in Sessions : MaybeSession(memory'[q][t])
    BY <1>2, <1>3, Finding DEF DIIInv, Shapes, MaybeSession
  <2>4. \A t \in Sessions : MaybeSession(file'[t])
    BY <1>4, Finding DEF DIIInv, Shapes, MaybeSession
  <2>5. file' = [t \in Sessions |-> file'[t]]
    BY <1>4
  <2> QED BY <2>2, <2>3, <2>4, <2>5 DEF StoresShaped
<1>7. /\ call' \in Calls /\ call' # Idle /\ call'.p = p /\ call'.s = s
      /\ call'.write # "finalized"
  BY <1>1 DEF Calls, Idle
<1>8. /\ shared' \subseteq shared \cup {s} /\ shared \subseteq shared' \cup {s}
      /\ s \notin shared' => \A q \in Processes \ {p} : memory[q][s] = None
  BY <1>1 DEF Elsewhere
<1>9. /\ outcome' = [t \in Sessions |-> outcome'[t]] /\ outcome'[s] = "open"
      /\ \A t \in Sessions \ {s} : outcome'[t] = outcome[t]
  BY <1>1 DEF DIIInv, Shapes
<1>10. memory'[p][s] \in DIISession
  BY <1>2, <1>3
<1> QED BY <1>1, <1>3, <1>5, <1>6, <1>7, <1>8, <1>9, <1>10, Changing

LEMMA GetStateStep ==
  ASSUME DIIInv, NEW p \in Processes, NEW s \in Sessions, GetState(p, s)
  PROVE  DIIInv'
<1>1. /\ call = Idle /\ call' = call /\ told' = told /\ outcome' = outcome
      /\ now' = now /\ fridge' = fridge /\ Leave(p, s, Got(p, s))
  BY DEF GetState, kitchen
<1>2. /\ StoresShaped /\ Kept(p, s) /\ memory'[p][s] = Got(p, s)
      /\ \A t \in Sessions \ {s} : Kept(p, t) /\ memory'[p][t] \in {None, memory[p][t]}
      /\ shared' \subseteq shared \cup {s} /\ shared \subseteq shared'
      /\ s \notin shared' /\ Got(p, s) # None => \A q \in Processes \ {p} : memory[q][s] = None
  BY <1>1, Finding, Leaving DEF DIIInv
<1>3. ASSUME s \notin shared' PROVE Alone(s)'
  <2>1. Alone(s)
    BY <1>2, <1>3 DEF DIIInv, Sound
  <2>2. \A q \in Processes \ {p} : memory'[q][s] = memory[q][s]
    BY <1>2 DEF Kept
  <2> QED BY <1>1, <1>2, <1>3, <2>1, <2>2 DEF Alone
<1>4. Sound(s)'
  BY <1>1, <1>2, <1>3, KeptSound
<1>5. CallShaped /\ HistoryShaped /\ About(p, s)
  BY <1>1, <1>2 DEF CallShaped, HistoryShaped, About, Calls, DIIInv, Shapes
<1> QED BY <1>2, <1>4, <1>5, Stepping

LEMMA FinalizeSessionStep ==
  ASSUME DIIInv, NEW p \in Processes, NEW s \in Sessions, FinalizeSession(p, s)
  PROVE  DIIInv'
<1>1. PICK toFridge \in BOOLEAN, toDish \in BOOLEAN :
        /\ Open(p, s)
        /\ Leave(p, s, Got(p, s))
        /\ call' = [write |-> "fridge", p |-> p, s |-> s, toFridge |-> toFridge,
                    toDish |-> toDish, before |-> fridge]
        /\ told' = [told EXCEPT ![s] = None]
        /\ now' = now /\ fridge' = fridge /\ outcome' = outcome
  BY Zenon DEF FinalizeSession, kitchen
<1>2. Got(p, s) \in DIISession /\ Got(p, s) # None /\ call = Idle
  BY <1>1, Opening
<1>3. /\ StoresShaped /\ memory'[p][s] = Got(p, s)
      /\ \A q \in Processes \ {p} : memory'[q] = memory[q]
      /\ \A t \in Sessions \ {s} : Kept(p, t) /\ memory'[p][t] \in {None, memory[p][t]}
      /\ shared' \subseteq shared \cup {s} /\ shared \subseteq shared'
      /\ s \notin shared' => \A q \in Processes \ {p} : memory[q][s] = None
  BY <1>1, <1>2, Leaving DEF DIIInv, MaybeSession
<1>4. /\ call' \in Finalizations /\ call' # Idle /\ call'.p = p /\ call'.s = s
      /\ call'.write # "finalized"
  BY <1>1 DEF Finalizations, Writes, Idle, DIIInv, Shapes
<1>5. /\ outcome' = [t \in Sessions |-> outcome'[t]]
      /\ s \notin shared' => outcome'[s] \notin {"settled", "unsaved"}
  BY <1>1, <1>3, Opening DEF DIIInv, Shapes
<1> QED BY <1>1, <1>2, <1>3, <1>4, <1>5, Changing

\* Each tool keeps the invariant.
LEMMA ToolStep ==
  ASSUME DIIInv, NEW p \in Processes, NEW s \in Sessions, Tool(p, s)
  PROVE  DIIInv'
<1> DEFINE x == Got(p, s)
<1>1. now \in Nat
  BY DEF DIIInv, Shapes
<1>2. Open(p, s) => x \in DIISession
  BY Opening
<1>3. ASSUME AddSuggestedIngredient(p, s) PROVE DIIInv'
  BY <1>1, <1>2, <1>3, Engine, ChangeStep DEF AddSuggestedIngredient, Active
<1>4. ASSUME SkipSuggestedIngredient(p, s) PROVE DIIInv'
  BY <1>1, <1>2, <1>4, Engine, ChangeStep DEF SkipSuggestedIngredient, Active
<1>5. ASSUME RemoveIngredient(p, s) PROVE DIIInv'
  BY <1>1, <1>2, <1>5, Engine, ChangeStep DEF RemoveIngredient
<1>6. ASSUME AddManualIngredient(p, s) PROVE DIIInv'
  BY <1>1, <1>2, <1>6, Engine, ChangeStep DEF AddManualIngredient
<1>7. ASSUME ClearAllIngredients(p, s) PROVE DIIInv'
  BY <1>1, <1>2, <1>7, Engine, ChangeStep DEF ClearAllIngredients
<1> QED BY <1>3, <1>4, <1>5, <1>6, <1>7, InitSessionStep, GetStateStep, FinalizeSessionStep DEF Tool

\* A write that is answered: the file has the session, or the flag is unsaved.
LEMMA PersistStep ==
  ASSUME DIIInv, Persist \/ PersistFinalized \/ PersistFinalizedFails
  PROVE  DIIInv'
<1>1. call # Idle
  BY DEF Persist, PersistFinalized, PersistFinalizedFails, Fails, Idle
<1>2. PICK p \in Processes, s \in Sessions : p = call.p /\ s = call.s
  BY <1>1, Running
<1>3. /\ memory[p][s] \in DIISession
      /\ s \notin shared => /\ outcome[s] \notin {"settled", "unsaved"}
                            /\ \A q \in Processes \ {p} : memory[q][s] = None
      /\ call.write = "finalized" => memory[p][s].finalized
  BY <1>1, <1>2, Running DEF DIIInv, Flagged
<1> DEFINE x == memory[p][s]
<1>4. /\ told' = [told EXCEPT ![s] = x]
      /\ memory' = memory /\ call' = Idle /\ now' = now /\ fridge' = fridge /\ shared' = shared
      /\ \/ file' = [file EXCEPT ![s] = x] /\ outcome' = outcome
         \/ /\ file' = [file EXCEPT ![s] = x] /\ x.finalized
            /\ outcome' = [outcome EXCEPT ![s] = "settled"]
         \/ /\ file' = file /\ x.finalized
            /\ outcome' = [outcome EXCEPT ![s] = "unsaved"]
  <2>1. CASE Persist
    BY <1>2, <2>1 DEF Persist, kitchen
  <2>2. CASE PersistFinalized
    BY <1>2, <1>3, <2>2 DEF PersistFinalized, Session, kitchen
  <2>3. CASE PersistFinalizedFails
    BY <1>2, <1>3, <2>3 DEF PersistFinalizedFails, Fails, Session, kitchen, stores
  <2> QED BY <2>1, <2>2, <2>3
<1>5. /\ told' = [t \in Sessions |-> told'[t]] /\ told'[s] = x
      /\ outcome' = [t \in Sessions |-> outcome'[t]]
      /\ file' = [t \in Sessions |-> file'[t]]
      /\ \/ file'[s] = x /\ outcome'[s] = outcome[s]
         \/ file'[s] = x /\ outcome'[s] = "settled" /\ x.finalized
         \/ file'[s] = file[s] /\ outcome'[s] = "unsaved" /\ x.finalized
      /\ \A t \in Sessions \ {s} : file'[t] = file[t] /\ told'[t] = told[t] /\ outcome'[t] = outcome[t]
  BY <1>4 DEF DIIInv, Shapes
<1>6. StoresShaped
  BY <1>3, <1>4, <1>5 DEF StoresShaped, DIIInv, Shapes, MaybeSession
<1>7. Sound(s)'
  <2> SUFFICES ASSUME s \notin shared' PROVE (Alone(s))' /\ (Backed(s))' /\ (Marked(s))'
    BY DEF Sound
  <2>1. \A q \in Processes : memory'[q][s] \in {None, x}
    BY <1>3, <1>4
  <2>2. Alone(s)'
    BY <1>3, <1>4 DEF Alone
  <2>3. Backed(s)'
    BY <1>4, <1>5, <2>1 DEF Backed
  <2>4. Marked(s)'
    BY DIIConstants, <1>3, <1>4, <1>5, <2>1 DEF Marked, Idle
  <2> QED BY <2>2, <2>3, <2>4
<1>8. CallShaped
  BY <1>4 DEF CallShaped, Calls
<1>9. HistoryShaped
  BY <1>3, <1>4, <1>5 DEF HistoryShaped, DIIInv, Shapes, MaybeSession
<1>10. About(p, s)
  BY <1>2, <1>4, <1>5 DEF About, Kept, DIIInv, Shapes
<1> QED BY <1>6, <1>7, <1>8, <1>9, <1>10, Stepping

LEMMA CommitDishStep ==
  ASSUME DIIInv, CommitDish
  PROVE  DIIInv'
<1>1. call # Idle /\ call.write = "dish"
  BY DEF CommitDish, Idle
<1>2. PICK p \in Processes, s \in Sessions : p = call.p /\ s = call.s
  BY <1>1, Running
<1>3. /\ memory[p][s] \in DIISession /\ call \in Finalizations
      /\ s \notin shared => /\ outcome[s] \notin {"settled", "unsaved"} /\ ~Standing(s)
                            /\ \A q \in Processes \ {p} : memory[q][s] = None
  BY <1>1, <1>2, Running
<1>4. /\ memory' = [memory EXCEPT ![p][s] = Finalized(@)]
      /\ file' = file /\ told' = told /\ outcome' = outcome /\ shared' = shared
      /\ now' = now /\ fridge' = fridge /\ Continue("finalized")
  BY <1>2 DEF CommitDish, history
<1>5. Finalized(memory[p][s]) \in DIISession /\ Finalized(memory[p][s]).finalized
  BY <1>3, Engine DEF DIIInv, Shapes
<1>6. PICK y : y = Finalized(memory[p][s])
  OBVIOUS
<1>7. /\ memory'[p] = [t \in Sessions |-> IF t = s THEN y ELSE memory[p][t]]
      /\ \A q \in Processes \ {p} : memory'[q] = memory[q]
      /\ memory' = [q \in Processes |-> memory'[q]]
  BY <1>4, <1>6 DEF DIIInv, Shapes
<1>8. StoresShaped
  <2>1. \A q \in Processes : memory'[q] = [t \in Sessions |-> memory'[q][t]]
    BY <1>7 DEF DIIInv, Shapes
  <2>2. memory' = [q \in Processes |-> [t \in Sessions |-> memory'[q][t]]]
    BY <1>7, <2>1
  <2>3. \A q \in Processes, t \in Sessions : MaybeSession(memory'[q][t])
    BY <1>5, <1>6, <1>7 DEF DIIInv, Shapes, MaybeSession
  <2> QED BY <1>4, <2>2, <2>3 DEF StoresShaped, DIIInv, Shapes
<1>9. call' \in Finalizations /\ call'.p = p /\ call'.s = s /\ memory'[p][s] = y
  BY <1>2, <1>3, <1>4, <1>7, Continued DEF Writes
<1>10. CallShaped
  BY <1>5, <1>6, <1>9 DEF CallShaped
<1>11. HistoryShaped
  BY <1>4 DEF HistoryShaped, DIIInv, Shapes
<1>12. Sound(s)'
  <2> SUFFICES ASSUME s \notin shared' PROVE (Alone(s))' /\ (Backed(s))' /\ (Marked(s))'
    BY DEF Sound
  <2>1. \A q \in Processes \ {p} : memory'[q][s] = None
    BY <1>3, <1>4, <1>7
  <2>2. Alone(s)'
    BY <1>9, <2>1 DEF Alone
  <2> QED BY <1>3, <1>4, <2>2 DEF Backed, Marked, Standing, Expired
<1>13. About(p, s)
  BY <1>2, <1>4, <1>7, <1>9 DEF About, Kept, DIIInv, Shapes
<1> QED BY <1>8, <1>10, <1>11, <1>12, <1>13, Stepping

\* Each write keeps the invariant.
LEMMA WriteStep ==
  ASSUME DIIInv, Write
  PROVE  DIIInv'
<1>1. fridge \in Stock /\ (call # Idle => call.write = "session" \/ call \in Finalizations)
  BY Running DEF DIIInv, Shapes
<1>2. ASSUME PersistFails \/ CommitFridgeFails \/ RollBackFails PROVE DIIInv'
  BY <1>1, <1>2, Going DEF PersistFails, CommitFridgeFails, RollBackFails, Fails, Idle, kitchen
<1>3. ASSUME CommitFridge PROVE DIIInv'
  <2>1. /\ call # Idle /\ call.write = "fridge" /\ Continue("dish")
        /\ stores' = stores /\ now' = now /\ history' = history
    BY <1>3 DEF CommitFridge, Idle
  <2>2. fridge' \in Stock
    <3>1. \A i \in Ingredients : [fridge[i] EXCEPT !.available = TRUE] \in [available : BOOLEAN, cycle : Nat]
      BY <1>1 DEF Stock
    <3> QED BY <1>1, <1>3, <3>1 DEF CommitFridge, Stock
  <2>3. call \in Finalizations
    BY <1>1, <2>1
  <2>4. /\ call' \in Finalizations /\ call'.p = call.p /\ call'.s = call.s
        /\ call'.write # "finalized"
    BY <2>1, <2>3, Continued DEF Writes
  <2> QED BY <2>1, <2>2, <2>4, Going
<1>4. ASSUME CommitDishFails PROVE DIIInv'
  <2>1. /\ call # Idle /\ call.write = "dish"
        /\ stores' = stores /\ now' = now /\ history' = history
        /\ fridge' = fridge
        /\ call' = Idle \/ Continue("rollback")
    BY <1>4 DEF CommitDishFails, Fails, Idle, kitchen
  <2>2. call \in Finalizations
    BY <1>1, <2>1
  <2>3. CASE call' = Idle
    BY <1>1, <2>1, <2>3, Going
  <2>4. CASE Continue("rollback")
    <3>1. /\ call' \in Finalizations /\ call'.p = call.p /\ call'.s = call.s
          /\ call'.write # "finalized"
      BY <2>2, <2>4, Continued DEF Writes
    <3> QED BY <1>1, <2>1, <3>1, Going
  <2> QED BY <2>1, <2>3, <2>4
<1>5. ASSUME RollBack PROVE DIIInv'
  <2>1. /\ call # Idle /\ call.write = "rollback" /\ call' = Idle
        /\ stores' = stores /\ now' = now /\ history' = history
        /\ fridge' = call.before
    BY <1>5 DEF RollBack, Restored, Idle
  <2>2. fridge' \in Stock
    BY <1>1, <2>1 DEF Finalizations
  <2> QED BY <2>1, <2>2, Going
<1> QED BY <1>2, <1>3, <1>4, <1>5, PersistStep, CommitDishStep DEF Write

\* A process that dies loses the flags that are in its memory alone.
LEMMA CrashStep ==
  ASSUME DIIInv, NEW p \in Processes, Crash(p)
  PROVE  DIIInv'
<1>1. call' = Idle \/ (call' = call /\ call.p # p)
  BY DEF Crash
<1>2. /\ memory' = [memory EXCEPT ![p] = [s \in Sessions |-> None]]
      /\ outcome' = [t \in Sessions |-> IF outcome[t] = "unsaved" /\ memory[p][t] # None
                                        THEN "lost" ELSE outcome[t]]
      /\ file' = file /\ told' = told /\ shared' = shared /\ now' = now /\ fridge' = fridge
  BY DEF Crash, kitchen
<1>3. /\ \A t \in Sessions : memory'[p][t] = None
      /\ \A q \in Processes \ {p} : memory'[q] = memory[q]
      /\ memory' = [q \in Processes |-> [t \in Sessions |-> memory'[q][t]]]
  BY <1>2 DEF DIIInv, Shapes
<1>4. StoresShaped
  BY <1>2, <1>3 DEF StoresShaped, DIIInv, Shapes, MaybeSession
<1>5. CallShaped
  BY <1>1, <1>3, Running DEF CallShaped, Calls, DIIInv, Shapes, Flagged
<1>6. HistoryShaped
  BY <1>2 DEF HistoryShaped, DIIInv, Shapes
<1>7. ASSUME NEW t \in Sessions PROVE Sound(t)'
  <2> SUFFICES ASSUME t \notin shared' PROVE (Alone(t))' /\ (Backed(t))' /\ (Marked(t))'
    BY DEF Sound
  <2>1. Alone(t) /\ Backed(t) /\ Marked(t)
    BY <1>2 DEF DIIInv, Sound
  <2>2. \A q \in Processes : memory'[q][t] = IF q = p THEN None ELSE memory[q][t]
    BY <1>3
  <2>3. outcome'[t] = IF outcome[t] = "unsaved" /\ memory[p][t] # None THEN "lost" ELSE outcome[t]
    BY <1>2
  <2>4. call' = Idle \/ (call' = call /\ call.p # p)
    BY <1>1
  <2>5. Alone(t)'
    BY <2>1, <2>2, <2>4 DEF Alone
  <2>6. Backed(t)'
    <3> SUFFICES ASSUME Standing(t)' PROVE Backed(t)'
      BY DEF Backed
    <3>1. Standing(t) /\ told'[t] = told[t] /\ file'[t] = file[t]
      BY <1>2 DEF Standing, Expired
    <3>2. CASE file[t] = told[t] /\ \A q \in Processes : memory[q][t] \in {None, told[t]}
      BY <2>1, <2>2, <2>4, <3>1, <3>2 DEF Backed
    <3>3. ASSUME NEW q \in Processes, memory[q][t] = told[t], told[t].finalized,
                 outcome[t] = "unsaved"
          PROVE  Backed(t)'
      BY <2>1, <2>2, <2>3, <2>4, <3>1, <3>3 DEF Backed, Standing
    <3>4. CASE told[t].finalized /\ outcome[t] = "lost"
      BY <2>1, <2>3, <2>4, <3>1, <3>4 DEF Backed
    <3> QED BY <2>1, <3>1, <3>2, <3>3, <3>4 DEF Backed
  <2>7. Marked(t)'
    <3> SUFFICES ASSUME outcome'[t] \in {"settled", "unsaved"} PROVE Marked(t)'
      BY DEF Marked
    <3>1. /\ outcome'[t] = outcome[t] /\ file'[t] = file[t]
          /\ outcome[t] = "unsaved" => memory[p][t] = None
      BY <1>2, <2>3
    <3> QED BY <2>1, <2>2, <2>4, <3>1 DEF Marked
  <2> QED BY <2>5, <2>6, <2>7
<1>8. now' \in Nat /\ fridge' \in Stock
  BY <1>2 DEF DIIInv, Shapes
<1> QED BY <1>4, <1>5, <1>6, <1>7, <1>8, Assembled

\* Time passes, an ingredient is used up, or nothing happens.
LEMMA WorldStep ==
  ASSUME DIIInv, Tick \/ UseUp \/ UNCHANGED vars
  PROVE  DIIInv'
<1>1. /\ memory' = memory /\ file' = file /\ told' = told /\ outcome' = outcome
      /\ shared' = shared /\ call' = call /\ now' \in Nat /\ now <= now'
  BY DIIConstants DEF Tick, UseUp, vars, stores, history, DIIInv, Shapes
<1>2. fridge' \in Stock
  <2>1. CASE UseUp
    BY <2>1 DEF UseUp, Stock, DIIInv, Shapes
  <2>2. CASE ~UseUp
    BY <2>2 DEF Tick, vars, kitchen, DIIInv, Shapes
  <2> QED BY <2>1, <2>2
<1>3. StoresShaped /\ CallShaped /\ HistoryShaped
  BY <1>1 DEF StoresShaped, CallShaped, HistoryShaped, DIIInv, Shapes, Flagged
<1>4. ASSUME NEW t \in Sessions PROVE Sound(t)'
  <2> SUFFICES ASSUME t \notin shared' PROVE (Alone(t))' /\ (Backed(t))' /\ (Marked(t))'
    BY DEF Sound
  <2>1. Alone(t) /\ Backed(t) /\ Marked(t)
    BY <1>1 DEF DIIInv, Sound
  <2>2. Standing(t)' => Standing(t)
    <3> SUFFICES ASSUME Standing(t)' PROVE Standing(t)
      OBVIOUS
    <3>1. told[t] # None /\ ~(told[t].last + TTL < now')
      BY <1>1 DEF Standing, Expired
    <3>2. told[t].last \in Nat /\ now \in Nat /\ TTL \in Nat
      BY <3>1, DIIConstants DEF DIIInv, Shapes, MaybeSession, DIISession
    <3>3. ~(told[t].last + TTL < now)
      BY <1>1, <3>1, <3>2
    <3> QED BY <3>1, <3>3 DEF Standing, Expired
  <2> QED BY <1>1, <2>1, <2>2 DEF Alone, Backed, Marked
<1> QED BY <1>1, <1>2, <1>3, <1>4, Assembled

-------------------------------------------------------------------------------
(* Theorems.                                                               *)

\* Whatever fails or dies, memory and file tell the same of a session where it
\* matters, unless two processes had it in memory at once; an unsaved flag is
\* in the memory of the process that answered, as long as that lives.
THEOREM SessionInvariance == Spec => []DIIInv
<1>1. Init => DIIInv
  <2> SUFFICES ASSUME Init PROVE DIIInv
    OBVIOUS
  <2>1. Shapes
    BY DEF Init, Shapes, MaybeSession, Stock, Calls
  <2>2. Flagged
    BY DEF Init, Flagged
  <2>3. ASSUME NEW s \in Sessions PROVE Sound(s)
    BY DEF Init, Sound, Alone, Backed, Standing, Marked
  <2> QED BY <2>1, <2>2, <2>3 DEF DIIInv
<1>2. DIIInv /\ [Next]_vars => DIIInv'
  BY ToolStep, WriteStep, CrashStep, WorldStep DEF Next
<1> QED BY <1>1, <1>2, PTL DEF Spec

\* What was answered is in the backup until it expires, for any faults and
\* crashes of any processes, but for sessions that two of them had and flags
\* that could not be saved.
THEOREM AnswersSurvive == Spec => []AnswersAreKept
<1>1. DIIInv => AnswersAreKept
  BY DEF DIIInv, Sound, Backed, Standing, AnswersAreKept
<1> QED BY <1>1, SessionInvariance, PTL

\* A finalization that was answered is never repeated, for any faults and
\* crashes of any processes, unless its flag was lost, or two processes had
\* the session.
THEOREM FinalizesOnce == Spec => RecommitsOnlyIfLost
<1>1. DIIInv /\ [Next]_vars =>
        [call # Idle /\ outcome[call.s] \in {"settled", "unsaved"} /\ call.s \notin shared
           => kitchen' = kitchen]_vars
  BY Running
<1> QED BY <1>1, SessionInvariance, PTL DEF Spec, RecommitsOnlyIfLost

-------------------------------------------------------------------------------
(* Failed finalizations, for any number of processes.                      *)

\* The call has a write to do, and while that is the fridge, nothing is done.
Undoable ==
  /\ "write" \in DOMAIN call
  /\ call.write = "fridge" => call.before = fridge
  /\ faults \in Nat /\ crashes \in Nat

\* The next write of a call is the one it continues with.
LEMMA Continuing ==
  ASSUME "write" \in DOMAIN call, NEW step, Continue(step)
  PROVE  "write" \in DOMAIN call' /\ call'.write = step
BY DEF Continue

\* What was noted down before the first write is what there was.
THEOREM FinalizationIsUndoable == Spec => []Undoable
<1>1. Init => Undoable
  BY DEF Init, Undoable, Idle
<1>2. Undoable /\ [Next]_vars => Undoable'
  <2> SUFFICES ASSUME Undoable, [Next]_vars PROVE Undoable'
    OBVIOUS
  <2>1. ASSUME call' = Idle \/ (call' = call /\ fridge' = fridge),
               faults' \in {faults, faults + 1}, crashes' \in {crashes, crashes + 1}
        PROVE  Undoable'
    BY <2>1 DEF Undoable, Idle
  <2>2. ASSUME NEW p \in Processes, NEW s \in Sessions, NEW x, Change(p, s, x) PROVE Undoable'
    BY <2>2 DEF Change, Undoable
  <2>3. ASSUME NEW p \in Processes, NEW s \in Sessions, Tool(p, s) PROVE Undoable'
    <3>1. ASSUME InitSession(p, s) PROVE Undoable'
      BY <3>1 DEF InitSession, Undoable
    <3>2. ASSUME GetState(p, s) PROVE Undoable'
      BY <3>2, <2>1 DEF GetState, kitchen
    <3>3. ASSUME FinalizeSession(p, s) PROVE Undoable'
      BY <3>3 DEF FinalizeSession, kitchen, Undoable
    <3> QED
      BY <2>2, <2>3, <3>1, <3>2, <3>3
      DEF Tool, AddSuggestedIngredient, SkipSuggestedIngredient, RemoveIngredient,
          AddManualIngredient, ClearAllIngredients
  <2>4. ASSUME Write PROVE Undoable'
    <3>1. ASSUME NEW step, Continue(step), step # "fridge", faults' \in {faults, faults + 1},
                 crashes' = crashes
          PROVE  Undoable'
      BY <3>1, Continuing DEF Undoable
    <3>2. ASSUME CommitFridge \/ CommitDish \/ CommitDishFails PROVE Undoable'
      BY <3>1, <3>2, <2>1 DEF CommitFridge, CommitDish, CommitDishFails, Fails, kitchen
    <3>3. ASSUME Persist \/ RollBack \/ PersistFinalized PROVE Undoable'
      BY <2>1, <3>3 DEF Persist, RollBack, PersistFinalized
    <3>4. ASSUME PersistFails \/ CommitFridgeFails \/ RollBackFails \/ PersistFinalizedFails
          PROVE  Undoable'
      BY <2>1, <3>4
      DEF PersistFails, CommitFridgeFails, RollBackFails, PersistFinalizedFails, Fails, kitchen
    <3> QED BY <2>4, <3>2, <3>3, <3>4 DEF Write
  <2>5. ASSUME NEW p \in Processes, Crash(p) PROVE Undoable'
    BY <2>1, <2>5 DEF Crash, kitchen
  <2>6. ASSUME Tick \/ UseUp PROVE Undoable'
    BY <2>6 DEF Tick, UseUp, kitchen, Undoable, Idle
  <2>7. CASE UNCHANGED vars
    BY <2>1, <2>7 DEF vars, kitchen
  <2> QED BY <2>3, <2>4, <2>5, <2>6, <2>7 DEF Next
<1> QED BY <1>1, <1>2, PTL DEF Spec

\* A finalization that is answered by an error, at whichever of its writes,
\* leaves fridge and recipe as they were, unless taking back fails as well.
THEOREM FailedFinalizationIsUndone == Spec => FailedFinalizeUndone
<1> DEFINE Failed == /\ call.write \in {"fridge", "dish", "rollback"} /\ call' = Idle
                    /\ crashes' = crashes /\ ~(call.write = "rollback" /\ faults' # faults)
<1>1. Undoable /\ [Next]_vars => [Failed => fridge' = call.before /\ recipe' = recipe]_vars
  <2> SUFFICES ASSUME Undoable, Next, Failed PROVE fridge' = call.before /\ recipe' = recipe
    BY DEF vars
  <2>1. call # Idle
    BY DEF Idle
  <2>2. ~\E p \in Processes, s \in Sessions : Tool(p, s)
    BY <2>1 DEF Tool, InitSession, GetState, AddSuggestedIngredient, SkipSuggestedIngredient,
             RemoveIngredient, AddManualIngredient, ClearAllIngredients, FinalizeSession,
             Active, Open
  <2>3. ~Tick /\ ~UseUp /\ ~\E p \in Processes : Crash(p)
    BY <2>1 DEF Tick, UseUp, Crash, Undoable
  <2>4. \A step \in {"dish", "rollback", "finalized"} : ~Continue(step)
    BY Continuing DEF Undoable, Idle
  <2>5. CommitFridgeFails \/ CommitDishFails \/ RollBack \/ RollBackFails
    BY <2>2, <2>3, <2>4
    DEF Next, Write, Persist, PersistFails, CommitFridge, CommitDish, PersistFinalized,
        PersistFinalizedFails, Fails
  <2>6. CASE CommitFridgeFails
    BY <2>6 DEF CommitFridgeFails, Fails, kitchen, Undoable
  <2>7. CASE CommitDishFails
    BY <2>4, <2>7 DEF CommitDishFails, kitchen
  <2>8. CASE RollBack
    BY <2>8 DEF RollBack, Restored
  <2>9. ~RollBackFails
    BY DEF RollBackFails, Fails, Undoable
  <2> QED BY <2>5, <2>6, <2>7, <2>8, <2>9
<1> QED BY <1>1, FinalizationIsUndoable, PTL DEF Spec, FailedFinalizeUndone

-------------------------------------------------------------------------------
(* What is selected and what is on offer.                                  *)

\* A record with the fields of a session, whatever is in them.
Fields == {"essential", "optional", "current", "queue", "last", "finalized", "pending"}

IsSession(x) ==
  /\ DOMAIN x = Fields /\ x = [f \in Fields |-> x[f]]
  /\ x.last \in Nat

LEMMA Touch == ASSUME NEW x, IsSession(x), now \in Nat PROVE IsSession(Touched(x))
BY DEF IsSession, Touched, Fields

LEMMA Offer == ASSUME NEW x, IsSession(x), NEW list PROVE IsSession(Offering(x, list))
<1> DEFINE y == [x EXCEPT !.current = IF list = <<>> THEN None ELSE Head(list)]
<1>1. IsSession(y)
  BY DEF IsSession, Fields
<1> DEFINE z == [y EXCEPT !.queue = IF list = <<>> THEN <<>> ELSE Tail(list)]
<1>2. IsSession(z)
  <2> HIDE DEF y
  <2> QED BY <1>1 DEF IsSession, Fields
<1>3. Offering(x, list) = z
  BY DEF Offering
<1> QED BY <1>2, <1>3

LEMMA Pick == ASSUME NEW x, IsSession(x), NEW item PROVE IsSession(Select(x, item))
<1>1. ASSUME NEW E, NEW O PROVE IsSession([x EXCEPT !.essential = E, !.optional = O])
  BY DEF IsSession, Fields
<1>2. IsSession([x EXCEPT !.essential = @ \cup {item.ingredient}, !.optional = @ \ {item.ingredient}])
  BY <1>1
<1>3. IsSession([x EXCEPT !.optional = @ \cup {item.ingredient}, !.essential = @ \ {item.ingredient}])
  BY DEF IsSession, Fields
<1> QED BY <1>2, <1>3 DEF Select

Offers(list, selected) ==
  /\ list \in Seq(Items) /\ Unrepeated(list)
  /\ \A k \in DOMAIN list : list[k].ingredient \notin selected

\* A session whose lists, and what is left of its funnel, have nothing twice.
Neat(x) ==
  /\ IsSession(x)
  /\ x.current \in Items \cup {None} /\ x.queue \in Seq(Items)
  /\ x.essential \cap x.optional = {}
  /\ Offers(Funnel(x), Selection(x))

LEMMA Fewer ==
  ASSUME NEW list, NEW S, NEW T, T \subseteq S, Offers(list, S)
  PROVE  Offers(list, T)
BY DEF Offers

\* An item ahead of a list that does not have its ingredient.
LEMMA Ahead ==
  ASSUME NEW list, NEW S, Offers(list, S), NEW c \in Items, c.ingredient \notin S,
         \A k \in DOMAIN list : list[k].ingredient # c.ingredient
  PROVE  Offers(<<c>> \o list, S)
<1>1. list \in Seq(Items)
  BY DEF Offers
<1>2. /\ <<c>> \o list \in Seq(Items)
      /\ \A k \in DOMAIN (<<c>> \o list) :
           (k = 1 /\ (<<c>> \o list)[k] = c)
             \/ (k - 1 \in DOMAIN list /\ (<<c>> \o list)[k] = list[k - 1] /\ k \in Nat)
  BY <1>1
<1>3. PICK l : l = <<c>> \o list
  OBVIOUS
<1>4. Unrepeated(l)
  <2> SUFFICES ASSUME NEW j \in DOMAIN l, NEW k \in DOMAIN l, l[j].ingredient = l[k].ingredient
               PROVE  j = k
    BY DEF Unrepeated
  <2>1. CASE j = 1 /\ k = 1
    BY <2>1
  <2>2. CASE j # 1 /\ k # 1
    <3>1. /\ j - 1 \in DOMAIN list /\ k - 1 \in DOMAIN list /\ l[j] = list[j - 1] /\ l[k] = list[k - 1]
          /\ j \in Nat /\ k \in Nat
      BY <1>2, <1>3, <2>2
    <3>2. j - 1 = k - 1
      BY <3>1 DEF Offers, Unrepeated
    <3> QED BY <3>1, <3>2
  <2>3. CASE (j = 1 /\ k # 1) \/ (j # 1 /\ k = 1)
    BY <1>2, <1>3, <2>3
  <2> QED BY <2>1, <2>2, <2>3
<1>5. \A k \in DOMAIN l : l[k].ingredient \notin S
  BY <1>2, <1>3 DEF Offers
<1> QED BY <1>2, <1>3, <1>4, <1>5 DEF Offers

LEMMA FunnelRest ==
  ASSUME NEW x, Neat(x)
  PROVE  /\ Offers(x.queue, Selection(x))
         /\ x.current # None =>
              \A k \in DOMAIN x.queue : x.queue[k].ingredient # x.current.ingredient
<1>1. CASE x.current = None
  BY <1>1 DEF Neat, Funnel
<1>2. CASE x.current # None
  <2>1. PICK item \in Items, q \in Seq(Items) : item = x.current /\ q = x.queue
    BY <1>2 DEF Neat
  <2> DEFINE S == Selection(x)
  <2>2. Offers(<<item>> \o q, S)
    BY <1>2, <2>1 DEF Neat, Funnel
  <2>3. /\ (<<item>> \o q)[1] = item
        /\ \A k \in DOMAIN q : /\ k + 1 \in DOMAIN (<<item>> \o q)
                              /\ (<<item>> \o q)[k + 1] = q[k]
                              /\ 1 \in DOMAIN (<<item>> \o q) /\ k + 1 # 1
    OBVIOUS
  <2>4. \A k, l \in DOMAIN q : k + 1 = l + 1 => k = l
    OBVIOUS
  <2>5. Unrepeated(q)
    BY <2>2, <2>3, <2>4 DEF Offers, Unrepeated
  <2>6. \A k \in DOMAIN q : q[k].ingredient \notin S /\ q[k].ingredient # item.ingredient
    BY <2>2, <2>3 DEF Offers, Unrepeated
  <2> QED BY <2>1, <2>5, <2>6 DEF Offers
<1> QED BY <1>1, <1>2

\* What Offering, Touched and Select make of the fields.
LEMMA OfferedFields ==
  ASSUME NEW x, IsSession(x), NEW list \in Seq(Items), now \in Nat
  PROVE  LET y == Touched(Offering(x, list)) IN
           /\ IsSession(y) /\ Funnel(y) = list
           /\ y.essential = x.essential /\ y.optional = x.optional
           /\ y.current \in Items \cup {None} /\ y.queue \in Seq(Items)
<1> DEFINE c == IF list = <<>> THEN None ELSE Head(list)
           q == IF list = <<>> THEN <<>> ELSE Tail(list)
           y == Touched(Offering(x, list))
<1>1. /\ c \in Items \cup {None} /\ q \in Seq(Items)
      /\ IF c = None THEN q = list ELSE <<c>> \o q = list
  BY DIIConstants
<1>2. IsSession(y)
  BY Offer, Touch
<1>3. y = [[[x EXCEPT !.current = c] EXCEPT !.queue = q] EXCEPT !.last = now]
  BY DEF Offering, Touched
<1>4. y.current = c /\ y.queue = q /\ y.essential = x.essential /\ y.optional = x.optional
  <2> HIDE DEF c, q
  <2> QED BY <1>3 DEF IsSession, Fields
<1> HIDE DEF c, q, y
<1>5. Funnel(y) = list
  BY <1>1, <1>4 DEF Funnel
<1> QED BY <1>1, <1>2, <1>4, <1>5 DEF y

LEMMA OfferedIsNeat ==
  ASSUME NEW x, IsSession(x), NEW list, now \in Nat, x.essential \cap x.optional = {},
         Offers(list, Selection(x))
  PROVE  Neat(Touched(Offering(x, list)))
<1>1. list \in Seq(Items)
  BY DEF Offers
<1> QED BY <1>1, OfferedFields DEF Neat, Selection

LEMMA SelectedFields ==
  ASSUME NEW x, IsSession(x), NEW item, x.essential \cap x.optional = {}
  PROVE  LET y == Select(x, item) IN
           /\ IsSession(y) /\ y.current = x.current /\ y.queue = x.queue
           /\ y.essential \cap y.optional = {}
           /\ Selection(y) = Selection(x) \cup {item.ingredient}
<1> DEFINE i == item.ingredient
<1>1. ASSUME NEW E, NEW O
      PROVE  LET y == [x EXCEPT !.essential = E, !.optional = O] IN
               /\ y.current = x.current /\ y.queue = x.queue
               /\ y.essential = E /\ y.optional = O
  BY DEF IsSession, Fields
<1>2. [x EXCEPT !.optional = @ \cup {i}, !.essential = @ \ {i}]
        = [x EXCEPT !.essential = @ \ {i}, !.optional = @ \cup {i}]
  BY DEF IsSession, Fields
<1> DEFINE E == x.essential
           O == x.optional
<1>5. /\ (E \cup {i}) \cup (O \ {i}) = (E \cup O) \cup {i}
      /\ (E \ {i}) \cup (O \cup {i}) = (E \cup O) \cup {i}
      /\ (E \cup {i}) \cap (O \ {i}) = {} /\ (E \ {i}) \cap (O \cup {i}) = {}
  <2> HIDE DEF i
  <2> QED OBVIOUS
<1>3. CASE item.essential
  <2>1. Select(x, item) = [x EXCEPT !.essential = x.essential \cup {i}, !.optional = x.optional \ {i}]
    BY <1>3 DEF Select, IsSession, Fields
  <2>2. LET y == Select(x, item) IN
          /\ y.current = x.current /\ y.queue = x.queue
          /\ y.essential \cap y.optional = {}
          /\ y.essential \cup y.optional = Selection(x) \cup {item.ingredient}
    BY <1>1, <1>5, <2>1 DEF Selection
  <2> QED BY <2>2, Pick DEF Selection
<1>4. CASE ~item.essential
  <2>1. Select(x, item) = [x EXCEPT !.essential = x.essential \ {i}, !.optional = x.optional \cup {i}]
    BY <1>2, <1>4 DEF Select, IsSession, Fields
  <2>2. LET y == Select(x, item) IN
          /\ y.current = x.current /\ y.queue = x.queue
          /\ y.essential \cap y.optional = {}
          /\ y.essential \cup y.optional = Selection(x) \cup {item.ingredient}
    BY <1>1, <1>5, <2>1 DEF Selection
  <2> QED BY <2>2, Pick DEF Selection
<1> QED BY <1>3, <1>4


LEMMA RestIsNeat ==
  ASSUME NEW x, Neat(x), now \in Nat
  PROVE  /\ Neat(Skip(x))
         /\ x.current # None => Neat(AddSuggested(x))
<1>1. Offers(x.queue, Selection(x)) /\ IsSession(x) /\ x.essential \cap x.optional = {}
  BY FunnelRest DEF Neat
<1>2. Neat(Skip(x))
  BY <1>1, OfferedIsNeat DEF Skip, Advanced
<1>3. ASSUME x.current # None PROVE Neat(AddSuggested(x))
  <2>1. PICK y : y = Select(x, x.current)
    OBVIOUS
  <2>2. /\ IsSession(y) /\ y.queue = x.queue /\ y.essential \cap y.optional = {}
        /\ Selection(y) = Selection(x) \cup {x.current.ingredient}
    BY <1>1, <2>1, SelectedFields
  <2>3. Offers(y.queue, Selection(y))
    BY <1>1, <1>3, <2>2, FunnelRest DEF Offers
  <2> QED BY <2>1, <2>2, <2>3, OfferedIsNeat DEF AddSuggested, Advanced
<1> QED BY <1>2, <1>3

\* Fewer ingredients selected, or only the flags changed.
LEMMA SmallerIsNeat ==
  ASSUME NEW x, Neat(x), NEW y, IsSession(y), now \in Nat,
         y.current = x.current, y.queue = x.queue,
         y.essential \subseteq x.essential, y.optional \subseteq x.optional
  PROVE  Neat(Touched(y))
<1>1. PICK z : z = Touched(y)
  OBVIOUS
<1>2. IsSession(z)
  BY <1>1, Touch
<1>3. /\ z.current = x.current /\ z.queue = x.queue
      /\ z.essential = y.essential /\ z.optional = y.optional
  BY <1>1 DEF Touched, IsSession, Fields
<1>4. Funnel(z) = Funnel(x) /\ Selection(z) \subseteq Selection(x)
  BY <1>3 DEF Funnel, Selection
<1>5. Offers(Funnel(z), Selection(z))
  BY <1>4, Fewer DEF Neat
<1>6. z.essential \cap z.optional = {}
  BY <1>3 DEF Neat
<1> QED BY <1>1, <1>2, <1>3, <1>5, <1>6 DEF Neat

LEMMA FlagsAreNeat ==
  ASSUME NEW x, Neat(x), now \in Nat
  PROVE  /\ Neat(Cleared(x)) /\ Neat(Finalized(x))
         /\ \A i : Neat(Removed(x, i))
<1>1. IsSession(x)
  BY DEF Neat
<1>2. Neat(Cleared(x))
  <2>1. ASSUME NEW b
        PROVE  LET y == [x EXCEPT !.essential = {}, !.optional = {}, !.pending = b] IN
                 /\ IsSession(y) /\ y.current = x.current /\ y.queue = x.queue
                 /\ y.essential \subseteq x.essential /\ y.optional \subseteq x.optional
    BY <1>1 DEF IsSession, Fields
  <2> QED BY <2>1, SmallerIsNeat DEF Cleared
<1>3. Neat(Finalized(x))
  <2>1. LET y == [x EXCEPT !.finalized = TRUE, !.pending = FALSE] IN
                 /\ IsSession(y) /\ y.current = x.current /\ y.queue = x.queue
                 /\ y.essential \subseteq x.essential /\ y.optional \subseteq x.optional
    BY <1>1 DEF IsSession, Fields
  <2> QED BY <2>1, SmallerIsNeat DEF Finalized
<1>4. ASSUME NEW i PROVE Neat(Removed(x, i))
  <2>1. LET y == [x EXCEPT !.essential = @ \ {i}, !.pending = TRUE] IN
                 /\ IsSession(y) /\ y.current = x.current /\ y.queue = x.queue
                 /\ y.essential \subseteq x.essential /\ y.optional \subseteq x.optional
    BY <1>1 DEF IsSession, Fields
  <2>2. LET y == [x EXCEPT !.optional = @ \ {i}] IN
                 /\ IsSession(y) /\ y.current = x.current /\ y.queue = x.queue
                 /\ y.essential \subseteq x.essential /\ y.optional \subseteq x.optional
    BY <1>1 DEF IsSession, Fields
  <2> QED BY <2>1, <2>2, SmallerIsNeat DEF Removed
<1> QED BY <1>2, <1>3, <1>4

LEMMA ManualIsNeat ==
  ASSUME NEW x, Neat(x), now \in Nat, NEW item
  PROVE  Neat(AddManual(x, item))
<1> DEFINE i == item.ingredient
<1>1. PICK z : z = Select(x, item)
  OBVIOUS
<1>2. /\ IsSession(z) /\ z.current = x.current /\ z.queue = x.queue
      /\ z.essential \cap z.optional = {}
      /\ Selection(z) = Selection(x) \cup {i}
  BY <1>1, SelectedFields DEF Neat
<1>3. PICK others : others = Without(x.queue, i)
  OBVIOUS
<1>4. Offers(x.queue, Selection(x))
  BY FunnelRest
<1>5. /\ others \in Seq(Items) /\ Unrepeated(others)
      /\ \A k \in DOMAIN others : others[k].ingredient # i /\ \E j \in DOMAIN x.queue : others[k] = x.queue[j]
  BY <1>3, <1>4, WithoutIs DEF Offers
<1>6. Offers(others, Selection(z))
  BY <1>2, <1>4, <1>5 DEF Offers
<1>7. PICK y : y = [z EXCEPT !.queue = others]
  OBVIOUS
<1>8. /\ IsSession(y) /\ y.current = x.current /\ y.queue = others
      /\ y.essential = z.essential /\ y.optional = z.optional
  BY <1>2, <1>7 DEF IsSession, Fields
<1>9. /\ y.essential \cap y.optional = {} /\ Selection(y) = Selection(z)
  BY <1>2, <1>8 DEF Selection
<1>10. AddManual(x, item) = Touched(IF y.current # None /\ y.current.ingredient = i
                                   THEN Advanced(y) ELSE y)
  BY <1>1, <1>2, <1>3, <1>7 DEF AddManual, IsSession, Fields
<1>11. CASE y.current # None /\ y.current.ingredient = i
  <2>1. Neat(Touched(Offering(y, y.queue)))
    BY <1>6, <1>8, <1>9, OfferedIsNeat
  <2> QED BY <1>10, <1>11, <2>1 DEF Advanced
<1>12. CASE ~(y.current # None /\ y.current.ingredient = i)
  <2>1. Offers(Funnel(y), Selection(y))
    <3>1. CASE y.current = None
      BY <1>6, <1>8, <1>9, <3>1 DEF Funnel
    <3>2. CASE y.current # None
      <4>1. PICK c \in Items : c = x.current
        BY <1>8, <3>2 DEF Neat
      <4>2. c.ingredient # i /\ c.ingredient \notin Selection(x)
        <5>1. PICK q \in Seq(Items) : q = x.queue
          BY DEF Neat
        <5>2. Funnel(x)[1] = c /\ 1 \in DOMAIN Funnel(x)
          BY <1>8, <3>2, <4>1, <5>1 DEF Funnel
        <5> QED BY <1>8, <1>12, <3>2, <4>1, <5>2 DEF Neat, Offers
      <4>3. \A k \in DOMAIN others : others[k].ingredient # c.ingredient
        BY <1>5, <1>8, <3>2, <4>1, FunnelRest
      <4>4. Offers(<<c>> \o others, Selection(z))
        BY <1>2, <1>5, <1>6, <4>2, <4>3, Ahead
      <4> QED BY <1>8, <1>9, <3>2, <4>1, <4>4 DEF Funnel
    <3> QED BY <3>1, <3>2
  <2>2. Neat(y)
    BY <1>5, <1>8, <1>9, <2>1 DEF Neat
  <2>3. Neat(Touched(y))
    BY <1>8, <2>2, SmallerIsNeat
  <2> QED BY <1>10, <1>12, <2>3
<1> QED BY <1>11, <1>12


LEMMA BuiltIsNeat ==
  ASSUME NEW ranked \in Rankings, NEW n \in PreSelect, now \in Nat
  PROVE  Neat(Built(ranked, n))
<1>1. ranked \in Seq(Items) /\ n \in Nat
  BY DIIConstants
<1>2. PICK list : list = Cleaned(ranked)
  OBVIOUS
<1>3. list \in Seq(Items) /\ Unrepeated(list)
  BY <1>1, <1>2, CleanedIs
<1> DEFINE top == {list[k] : k \in {k \in DOMAIN list : k <= n}}
           E == {item.ingredient : item \in {i \in top : i.essential}}
           O == {item.ingredient : item \in {i \in top : ~i.essential}}
           rest == SubSeq(list, n + 1, Len(list))
           chosen == [essential |-> E, optional |-> O, current |-> None, queue |-> <<>>,
                      last |-> now, finalized |-> FALSE, pending |-> FALSE]
<1>4. Built(ranked, n) = Offering(chosen, rest)
  BY <1>2 DEF Built
<1>5. /\ IsSession(chosen) /\ chosen.essential = E /\ chosen.optional = O /\ chosen.last = now
  BY DEF IsSession, Fields
<1>6. E \cap O = {}
  <2> SUFFICES ASSUME NEW i \in E, i \in O PROVE FALSE
    OBVIOUS
  <2>1. PICK j \in DOMAIN list : j <= n /\ list[j].essential /\ list[j].ingredient = i
    OBVIOUS
  <2>2. PICK k \in DOMAIN list : k <= n /\ ~list[k].essential /\ list[k].ingredient = i
    OBVIOUS
  <2> QED BY <1>3, <2>1, <2>2 DEF Unrepeated
<1>7. Offers(rest, E \cup O)
  <2>1. /\ rest \in Seq(Items)
        /\ \A k \in DOMAIN rest : n + k \in DOMAIN list /\ rest[k] = list[n + k] /\ k \in Nat /\ k >= 1
    BY <1>1, <1>3
  <2> HIDE DEF rest
  <2>2. Unrepeated(rest)
    <3> SUFFICES ASSUME NEW j \in DOMAIN rest, NEW k \in DOMAIN rest,
                        rest[j].ingredient = rest[k].ingredient
                 PROVE  j = k
      BY DEF Unrepeated
    <3>1. n + j = n + k
      BY <1>3, <2>1 DEF Unrepeated
    <3> QED BY <1>1, <2>1, <3>1
  <2>3. ASSUME NEW k \in DOMAIN rest, rest[k].ingredient \in E \cup O PROVE FALSE
    <3>1. PICK j \in DOMAIN list : j <= n /\ list[j].ingredient = rest[k].ingredient
      BY <2>3
    <3>2. j = n + k
      BY <1>3, <2>1, <3>1 DEF Unrepeated
    <3> QED BY <1>1, <2>1, <3>1, <3>2
  <2> QED BY <2>1, <2>2, <2>3 DEF Offers
<1>8. Touched(Offering(chosen, rest)) = Offering(chosen, rest)
  <2>1. PICK y : y = Offering(chosen, rest)
    OBVIOUS
  <2>2. IsSession(y) /\ y.last = now
    BY <1>5, <2>1, Offer DEF Offering, IsSession, Fields
  <2>3. Touched(y) = y
    BY <2>2 DEF Touched, IsSession, Fields
  <2> QED BY <2>1, <2>3
<1> HIDE DEF E, O, rest, chosen
<1>9. Neat(Touched(Offering(chosen, rest)))
  BY <1>5, <1>6, <1>7, OfferedIsNeat DEF Selection
<1> QED BY <1>4, <1>8, <1>9

-------------------------------------------------------------------------------
(* Every copy of a session is neat, in every process and on disk.          *)

MaybeNeat(x) == x = None \/ Neat(x)

CopiesNeat ==
  /\ now \in Nat
  /\ memory = [p \in Processes |-> [s \in Sessions |-> memory[p][s]]]
  /\ file = [s \in Sessions |-> file[s]]
  /\ \A p \in Processes, s \in Sessions : MaybeNeat(memory[p][s])
  /\ \A s \in Sessions : MaybeNeat(file[s])
  /\ recipe # {}
  /\ \/ call = Idle
     \/ /\ {"write", "p", "s"} \subseteq DOMAIN call
        /\ call.p \in Processes /\ call.s \in Sessions
        /\ Neat(memory[call.p][call.s])
        /\ call.write # "none"

\* What a call finds and what it leaves is a copy, or what it makes of one.
LEMMA FoundIsNeat ==
  ASSUME CopiesNeat, NEW p \in Processes, NEW s \in Sessions
  PROVE  /\ MaybeNeat(Got(p, s))
         /\ \A t \in Sessions : MaybeNeat(MemoryCleaned(p)[t]) /\ MaybeNeat(FileCleaned(p)[t])
<1>1. \A t \in Sessions :
        MemoryCleaned(p)[t] \in {None, memory[p][t]} /\ FileCleaned(p)[t] \in {None, file[t]}
  BY DEF MemoryCleaned, FileCleaned
<1>2. \A t \in Sessions : MaybeNeat(MemoryCleaned(p)[t]) /\ MaybeNeat(FileCleaned(p)[t])
  BY <1>1 DEF CopiesNeat, MaybeNeat
<1> QED BY <1>2 DEF Got, MaybeNeat

\* The memory of one process holds x for s, and what the clean up left.
LEMMA PutIsNeat ==
  ASSUME CopiesNeat, NEW p \in Processes, NEW s \in Sessions, NEW x, MaybeNeat(x),
         memory' = [memory EXCEPT ![p] = [MemoryCleaned(p) EXCEPT ![s] = x]]
  PROVE  /\ memory' = [q \in Processes |-> [t \in Sessions |-> memory'[q][t]]]
         /\ \A q \in Processes, t \in Sessions : MaybeNeat(memory'[q][t])
         /\ memory'[p][s] = x
<1>1. MemoryCleaned(p) = [t \in Sessions |-> MemoryCleaned(p)[t]]
  BY DEF MemoryCleaned
<1>2. /\ memory'[p] = [t \in Sessions |-> IF t = s THEN x ELSE MemoryCleaned(p)[t]]
      /\ \A q \in Processes \ {p} : memory'[q] = memory[q]
      /\ memory' = [q \in Processes |-> memory'[q]]
  BY <1>1 DEF CopiesNeat
<1>3. \A q \in Processes : memory'[q] = [t \in Sessions |-> memory'[q][t]]
  <2>1. memory'[p] = [t \in Sessions |-> memory'[p][t]]
    BY <1>2
  <2>2. \A q \in Processes : memory[q] = [t \in Sessions |-> memory[q][t]]
    BY DEF CopiesNeat
  <2>3. ASSUME NEW q \in Processes \ {p} PROVE memory'[q] = [t \in Sessions |-> memory'[q][t]]
    BY <1>2, <2>2
  <2> QED BY <2>1, <2>3
<1>4. memory' = [q \in Processes |-> [t \in Sessions |-> memory'[q][t]]]
  BY <1>2, <1>3
<1>5. \A q \in Processes, t \in Sessions : MaybeNeat(memory'[q][t])
  BY <1>2, FoundIsNeat DEF CopiesNeat
<1> QED BY <1>2, <1>4, <1>5

LEMMA LeaveIsNeat ==
  ASSUME CopiesNeat, NEW p \in Processes, NEW s \in Sessions, NEW x, MaybeNeat(x), Leave(p, s, x)
  PROVE  /\ memory' = [q \in Processes |-> [t \in Sessions |-> memory'[q][t]]]
         /\ \A q \in Processes, t \in Sessions : MaybeNeat(memory'[q][t])
         /\ memory'[p][s] = x
         /\ file' = [t \in Sessions |-> file'[t]] /\ \A t \in Sessions : MaybeNeat(file'[t])
<1>1. /\ memory' = [memory EXCEPT ![p] = [MemoryCleaned(p) EXCEPT ![s] = x]]
      /\ file' = [FileCleaned(p) EXCEPT ![s] = IF Got(p, s) = None THEN None ELSE @]
  BY DEF Leave
<1>2. FileCleaned(p) = [t \in Sessions |-> FileCleaned(p)[t]]
  BY DEF FileCleaned
<1>3. file' = [t \in Sessions |-> IF t = s /\ Got(p, s) = None THEN None ELSE FileCleaned(p)[t]]
  BY <1>1, <1>2
<1>4. file' = [t \in Sessions |-> file'[t]] /\ \A t \in Sessions : MaybeNeat(file'[t])
  BY <1>3, FoundIsNeat DEF MaybeNeat
<1> QED BY <1>1, <1>4, PutIsNeat

LEMMA ChangeIsNeat ==
  ASSUME CopiesNeat, NEW p \in Processes, NEW s \in Sessions, NEW x, Neat(x), Change(p, s, x)
  PROVE  CopiesNeat'
<1>1. /\ Leave(p, s, x) /\ call' = [write |-> "session", p |-> p, s |-> s]
      /\ now' = now /\ recipe' = recipe
  BY DEF Change, kitchen
<1> QED BY <1>1, LeaveIsNeat DEF CopiesNeat, MaybeNeat

LEMMA InitSessionIsNeat ==
  ASSUME CopiesNeat, NEW p \in Processes, NEW s \in Sessions, InitSession(p, s)
  PROVE  CopiesNeat'
<1>1. PICK ranked \in Rankings, n \in PreSelect :
        /\ memory' = [memory EXCEPT ![p] = [MemoryCleaned(p) EXCEPT ![s] = Built(ranked, n)]]
        /\ file' = FileCleaned(p)
        /\ call' = [write |-> "session", p |-> p, s |-> s]
        /\ now' = now /\ recipe' = recipe
  BY Zenon DEF InitSession, kitchen
<1>2. Neat(Built(ranked, n))
  BY BuiltIsNeat DEF CopiesNeat
<1>3. file' = [t \in Sessions |-> file'[t]] /\ \A t \in Sessions : MaybeNeat(file'[t])
  BY <1>1, FoundIsNeat DEF FileCleaned
<1>4. /\ memory' = [q \in Processes |-> [t \in Sessions |-> memory'[q][t]]]
      /\ \A q \in Processes, t \in Sessions : MaybeNeat(memory'[q][t])
      /\ memory'[p][s] = Built(ranked, n)
  BY <1>1, <1>2, PutIsNeat DEF MaybeNeat
<1> QED BY <1>1, <1>2, <1>3, <1>4 DEF CopiesNeat

\* Every tool makes neat sessions of neat ones.
LEMMA ToolIsNeat ==
  ASSUME CopiesNeat, NEW p \in Processes, NEW s \in Sessions, Tool(p, s)
  PROVE  CopiesNeat'
<1>1. now \in Nat /\ (Open(p, s) => Neat(Got(p, s)))
  BY FoundIsNeat DEF CopiesNeat, MaybeNeat, Open
<1>2. ASSUME AddSuggestedIngredient(p, s) PROVE CopiesNeat'
  BY <1>1, <1>2, RestIsNeat, ChangeIsNeat DEF AddSuggestedIngredient, Active
<1>3. ASSUME SkipSuggestedIngredient(p, s) PROVE CopiesNeat'
  BY <1>1, <1>3, RestIsNeat, ChangeIsNeat DEF SkipSuggestedIngredient, Active
<1>4. ASSUME RemoveIngredient(p, s) PROVE CopiesNeat'
  BY <1>1, <1>4, FlagsAreNeat, ChangeIsNeat DEF RemoveIngredient
<1>5. ASSUME AddManualIngredient(p, s) PROVE CopiesNeat'
  BY <1>1, <1>5, ManualIsNeat, ChangeIsNeat DEF AddManualIngredient
<1>6. ASSUME ClearAllIngredients(p, s) PROVE CopiesNeat'
  BY <1>1, <1>6, FlagsAreNeat, ChangeIsNeat DEF ClearAllIngredients
<1>7. ASSUME GetState(p, s) PROVE CopiesNeat'
  <2>1. /\ call = Idle /\ call' = call /\ now' = now /\ recipe' = recipe
        /\ Leave(p, s, Got(p, s)) /\ MaybeNeat(Got(p, s))
    BY <1>7, FoundIsNeat DEF GetState, kitchen
  <2> QED BY <2>1, LeaveIsNeat DEF CopiesNeat
<1>8. ASSUME FinalizeSession(p, s) PROVE CopiesNeat'
  <2>1. PICK toFridge \in BOOLEAN, toDish \in BOOLEAN :
        /\ Open(p, s)
        /\ Leave(p, s, Got(p, s))
        /\ call' = [write |-> "fridge", p |-> p, s |-> s, toFridge |-> toFridge,
                    toDish |-> toDish, before |-> fridge]
        /\ now' = now /\ recipe' = recipe
    BY <1>8, Zenon DEF FinalizeSession, kitchen
  <2> QED BY <1>1, <2>1, LeaveIsNeat DEF CopiesNeat, MaybeNeat
<1> QED BY <1>2, <1>3, <1>4, <1>5, <1>6, <1>7, <1>8, InitSessionIsNeat DEF Tool

LEMMA WriteIsNeat ==
  ASSUME CopiesNeat, Write
  PROVE  CopiesNeat'
<1>1. /\ call.p \in Processes /\ call.s \in Sessions
      /\ {"write", "p", "s"} \subseteq DOMAIN call
      /\ Neat(memory[call.p][call.s]) /\ now \in Nat
  <2>1. call # Idle
    BY DEF Write, Persist, PersistFails, CommitFridge, CommitFridgeFails, CommitDish, CommitDishFails,
        RollBack, RollBackFails, PersistFinalized, PersistFinalizedFails, Fails, Idle
  <2> QED BY <2>1 DEF CopiesNeat
<1>2. PICK p \in Processes, s \in Sessions : p = call.p /\ s = call.s
  BY <1>1
<1>3. ASSUME NEW step, Continue(step), step # "none"
      PROVE  /\ {"write", "p", "s"} \subseteq DOMAIN call' /\ call'.p = p /\ call'.s = s
             /\ call'.write # "none"
  BY <1>1, <1>2, <1>3 DEF Continue
<1>4. ASSUME stores' = stores, now' = now, recipe' = recipe,
             call' = Idle \/ \E step \in Writes : Continue(step)
      PROVE  CopiesNeat'
  <2>1. CASE call' = Idle
    BY <1>4, <2>1 DEF CopiesNeat, stores
  <2>2. ASSUME NEW step \in Writes, Continue(step) PROVE CopiesNeat'
    BY <1>1, <1>2, <1>3, <1>4, <2>2 DEF CopiesNeat, stores, Writes
  <2> QED BY <1>4, <2>1, <2>2
<1>5. ASSUME PersistFails \/ CommitFridge \/ CommitFridgeFails \/ CommitDishFails
              \/ RollBack \/ RollBackFails \/ PersistFinalizedFails
      PROVE  CopiesNeat'
  BY <1>4, <1>5
  DEF PersistFails, CommitFridge, CommitFridgeFails, CommitDishFails, RollBack, RollBackFails,
      PersistFinalizedFails, Fails, kitchen, Writes
<1>6. ASSUME Persist \/ PersistFinalized PROVE CopiesNeat'
  <2>1. /\ file' = [file EXCEPT ![s] = memory[p][s]] /\ memory' = memory /\ now' = now
        /\ recipe' = recipe /\ call' = Idle
    BY <1>2, <1>6 DEF Persist, PersistFinalized, Session, kitchen
  <2> QED BY <2>1 DEF CopiesNeat
<1>7. ASSUME CommitDish PROVE CopiesNeat'
  <2>1. PICK y : y = Finalized(memory[p][s])
    OBVIOUS
  <2>2. Neat(y)
    BY <1>1, <1>2, <2>1, FlagsAreNeat
  <2>3. /\ memory' = [memory EXCEPT ![p][s] = y] /\ file' = file /\ now' = now
        /\ Continue("finalized") /\ recipe' # {}
    BY <1>2, <1>7, <2>1 DEF CommitDish, SavesDish, CopiesNeat
  <2>4. /\ memory'[p] = [t \in Sessions |-> IF t = s THEN y ELSE memory[p][t]]
        /\ \A q \in Processes \ {p} : memory'[q] = memory[q]
        /\ memory' = [q \in Processes |-> memory'[q]]
    BY <2>3 DEF CopiesNeat
  <2>5. \A q \in Processes : memory'[q] = [t \in Sessions |-> memory'[q][t]]
    <3>1. memory'[p] = [t \in Sessions |-> memory'[p][t]]
      BY <2>4
    <3>2. \A q \in Processes : memory[q] = [t \in Sessions |-> memory[q][t]]
      BY DEF CopiesNeat
    <3>3. ASSUME NEW q \in Processes \ {p} PROVE memory'[q] = [t \in Sessions |-> memory'[q][t]]
      BY <2>4, <3>2
    <3> QED BY <3>1, <3>3
  <2>6. memory' = [q \in Processes |-> [t \in Sessions |-> memory'[q][t]]]
    BY <2>4, <2>5
  <2>7. \A q \in Processes, t \in Sessions : MaybeNeat(memory'[q][t])
    BY <2>2, <2>4 DEF CopiesNeat, MaybeNeat
  <2>8. memory'[p][s] = y
    BY <2>4
  <2> QED BY <1>3, <2>2, <2>3, <2>6, <2>7, <2>8 DEF CopiesNeat
<1> QED BY <1>5, <1>6, <1>7 DEF Write

LEMMA CrashIsNeat ==
  ASSUME CopiesNeat, NEW p \in Processes, Crash(p)
  PROVE  CopiesNeat'
<1>1. /\ memory' = [memory EXCEPT ![p] = [s \in Sessions |-> None]]
      /\ file' = file /\ now' = now /\ recipe' = recipe
      /\ call' = IF call # Idle /\ call.p = p THEN Idle ELSE call
  BY DEF Crash, kitchen
<1>2. /\ memory'[p] = [s \in Sessions |-> None]
      /\ \A q \in Processes \ {p} : memory'[q] = memory[q]
      /\ memory' = [q \in Processes |-> memory'[q]]
  BY <1>1 DEF CopiesNeat
<1>3. \A q \in Processes : memory'[q] = [t \in Sessions |-> memory'[q][t]]
  <2>1. \A q \in Processes : memory[q] = [t \in Sessions |-> memory[q][t]]
    BY DEF CopiesNeat
  <2>2. ASSUME NEW q \in Processes \ {p} PROVE memory'[q] = [t \in Sessions |-> memory'[q][t]]
    BY <1>2, <2>1
  <2>3. memory'[p] = [t \in Sessions |-> memory'[p][t]]
    BY <1>2
  <2> QED BY <2>2, <2>3
<1>4. memory' = [q \in Processes |-> [t \in Sessions |-> memory'[q][t]]]
  BY <1>2, <1>3
<1>5. \A q \in Processes, t \in Sessions : MaybeNeat(memory'[q][t])
  BY <1>2 DEF CopiesNeat, MaybeNeat
<1>6. ASSUME call' # Idle PROVE call' = call /\ call.p # p /\ call # Idle
  BY <1>1, <1>6
<1> QED BY <1>1, <1>2, <1>4, <1>5, <1>6 DEF CopiesNeat

\* For any number of processes that serve the sessions, and whatever crashes
\* and fails: what was selected is in one list and is not offered again.
THEOREM CopiesStayNeat == Spec => []CopiesNeat
<1>1. Init => CopiesNeat
  BY DIIConstants DEF Init, CopiesNeat, MaybeNeat
<1>2. CopiesNeat /\ [Next]_vars => CopiesNeat'
  <2> SUFFICES ASSUME CopiesNeat, [Next]_vars PROVE CopiesNeat'
    OBVIOUS
  <2>1. ASSUME Tick \/ UseUp \/ UNCHANGED vars PROVE CopiesNeat'
    <3>1. /\ memory' = memory /\ file' = file /\ recipe' = recipe /\ call' = call /\ now' \in Nat
      BY <2>1 DEF Tick, UseUp, vars, stores, kitchen, CopiesNeat
    <3> QED BY <3>1 DEF CopiesNeat
  <2> QED BY <2>1, ToolIsNeat, WriteIsNeat, CrashIsNeat DEF Next
<1> QED BY <1>1, <1>2, PTL DEF Spec

\* What a session offers next was neither selected before nor is it offered
\* again, after any choices, resets, reloads and crashes.
THEOREM NothingIsOfferedTwice == Spec => []NothingOfferedTwice
<1>1. CopiesNeat => NothingOfferedTwice
  <2> SUFFICES ASSUME CopiesNeat, NEW x \in Copies
               PROVE  /\ x.essential \cap x.optional = {}
                      /\ \A k \in DOMAIN Funnel(x) :
                           /\ Funnel(x)[k].ingredient \notin Selection(x)
                           /\ \A l \in 1 .. k - 1 : Funnel(x)[l].ingredient # Funnel(x)[k].ingredient
    BY DEF NothingOfferedTwice
  <2>1. Neat(x)
    BY DEF Copies, CopiesNeat, MaybeNeat
  <2>2. \A k \in DOMAIN Funnel(x) : \A l \in 1 .. k - 1 : l \in DOMAIN Funnel(x) /\ l # k
    BY <2>1 DEF Neat, Offers
  <2> QED BY <2>1, <2>2 DEF Neat, Offers, Unrepeated
<1> QED BY <1>1, CopiesStayNeat, PTL

\* No finalization wipes the recipe, by any process.
THEOREM RecipeKeepsIngredients == Spec => []RecipeHasIngredients
<1>1. CopiesNeat => RecipeHasIngredients
  BY DEF CopiesNeat, RecipeHasIngredients
<1> QED BY <1>1, CopiesStayNeat, PTL
===============================================================================
