-------------------------- MODULE RingBufferProofs --------------------------
(***************************************************************************)
(* Proofs about RingBuffer, for every setting of the ring buffer: the      *)
(* folder holds no more pictures than it may, and maintain_ringbuffer      *)
(* deletes the oldest pictures and never the one just saved.               *)
(***************************************************************************)
EXTENDS RingBuffer, FiniteSetTheorems, FunctionTheorems, WellFoundedInduction, TLAPS

Pictures == [time : Nat, counter : Nat, saved : Nat]

RingTyped ==
    /\ ring \in Rings
    /\ rpc \in {"wait", "scan", "unlink", "ended"}
    /\ files \in SUBSET Pictures /\ IsFiniteSet(files)
    /\ namelist \in SUBSET files
    /\ counter \in Nat /\ now \in Nat /\ saves \in Nat /\ faults \in Nat /\ lost \in Nat
    /\ misnamed \in BOOLEAN
    /\ counter <= saves + faults /\ saves <= MaxSaves /\ faults <= MaxFaults

\* No two files of a folder have the same name.
Distinct(F) == \A f, g \in F : f # g => f.time # g.time \/ f.counter # g.counter

\* While maintain_ringbuffer works, what is neither in its list nor was spared is
\* no more than the ring buffer holds, and comes after all of the list.
ListInv ==
    /\ rpc \in {"scan", "unlink"} => ring.size >= 0
    /\ rpc = "unlink" <=> namelist # {}
    /\ rpc = "unlink" =>
          /\ Cardinality(files \ (namelist \cup spared)) <= ring.size
          /\ \A f \in namelist, g \in files \ (namelist \cup spared) : Before(f, g)

\* Between two pictures there is one more for each picture since the last clean-up.
HoldInv ==
    rpc = "wait" /\ counter > 0 /\ ring.size >= 0 =>
        Cardinality(files \ spared) <= ring.size + (counter % (ring.exceed + 1))

\* The pictures were saved in the order of their names, before now.
AgeInv ==
    /\ lost <= saves /\ \A f \in files : f.saved <= saves
    /\ \A f, g \in files : f # g => f.saved # g.saved
    /\ ~misnamed =>
          /\ \A f, g \in files : Before(f, g) <=> f.saved < g.saved
          /\ \A f \in files : f.time < now \/ (f.time = now /\ f.counter < counter)

\* The picture just saved is not in the list.
LatestInv ==
    rpc # "ended" /\ counter > 0 /\ ring.size # 0 /\ ~misnamed =>
        \E f \in files \ namelist : f.saved = saves

RingInv ==
    /\ RingTyped /\ Distinct(files) /\ ListInv /\ HoldInv
    /\ AgeInv /\ NewestKept /\ LatestInv
-----------------------------------------------------------------------------
(* alphasort *)

\* The order of the names is total, even where the counter has outgrown its digits.
LEMMA Sorted ==
    ASSUME NEW f \in Pictures, NEW g \in Pictures, NEW h \in Pictures
    PROVE  /\ ~Before(f, f)
           /\ Before(f, g) => ~Before(g, f)
           /\ f.time # g.time \/ f.counter # g.counter => Before(f, g) \/ Before(g, f)
           /\ Before(f, g) /\ Before(g, h) => Before(f, h)
<1>1. /\ f.time \in Nat /\ g.time \in Nat /\ h.time \in Nat
      /\ f.counter \in Nat /\ g.counter \in Nat /\ h.counter \in Nat
  BY DEF Pictures
<1>2. Widen \in Nat
  BY RingAssumption
<1> QED BY <1>1, <1>2 DEF Before

\* The number of names before a name.
Rank(F, f) == Cardinality({g \in F : Before(g, f)})

LEMMA Ranks ==
    ASSUME NEW F \in SUBSET Pictures, IsFiniteSet(F), NEW f \in F
    PROVE  /\ Rank(F, f) \in Nat /\ Cardinality(F) \in Nat /\ Rank(F, f) <= Cardinality(F) - 1
           /\ \A g \in F : Before(f, g) => Rank(F, f) < Rank(F, g)
<1> DEFINE Lower(g) == {h \in F : Before(h, g)}
<1>1. \A g \in F : Lower(g) \in SUBSET F /\ IsFiniteSet(Lower(g)) /\ Cardinality(Lower(g)) \in Nat
  <2> SUFFICES ASSUME NEW g \in F
               PROVE  /\ Lower(g) \in SUBSET F /\ IsFiniteSet(Lower(g))
                      /\ Cardinality(Lower(g)) \in Nat
    OBVIOUS
  <2>1. Lower(g) \in SUBSET F
    OBVIOUS
  <2>2. IsFiniteSet(Lower(g))
    BY <2>1, FS_Subset
  <2> QED BY <2>1, <2>2, FS_CardinalityType
<1>2. f \notin Lower(f)
  BY Sorted
<1>3. /\ IsFiniteSet(Lower(f) \cup {f})
      /\ Cardinality(Lower(f) \cup {f}) = Cardinality(Lower(f)) + 1
  BY <1>1, <1>2, FS_AddElement
<1>4. Rank(F, f) <= Cardinality(F) - 1 /\ Cardinality(F) \in Nat
  <2>1. Lower(f) \cup {f} \in SUBSET F
    BY <1>1
  <2>2. Cardinality(Lower(f) \cup {f}) <= Cardinality(F) /\ Cardinality(F) \in Nat
    BY <2>1, FS_Subset, FS_CardinalityType
  <2>3. Rank(F, f) = Cardinality(Lower(f))
    BY DEF Rank
  <2> HIDE DEF Lower
  <2> QED BY <1>1, <1>3, <2>2, <2>3
<1>5. ASSUME NEW g \in F, Before(f, g) PROVE Rank(F, f) < Rank(F, g)
  <2>1. Lower(f) \cup {f} \in SUBSET Lower(g)
    BY <1>5, Sorted
  <2>2. Cardinality(Lower(f) \cup {f}) <= Cardinality(Lower(g))
    BY <1>1, <2>1, FS_Subset
  <2>3. Rank(F, f) = Cardinality(Lower(f)) /\ Rank(F, g) = Cardinality(Lower(g))
    BY DEF Rank
  <2> HIDE DEF Lower
  <2> QED BY <1>1, <1>3, <2>2, <2>3
<1>6. Rank(F, f) \in Nat
  BY <1>1 DEF Rank
<1> QED BY <1>4, <1>5, <1>6

\* What maintain_ringbuffer leaves: not more than size, and all later than what it deletes.
LEMMA Leaves ==
    ASSUME NEW F \in SUBSET Pictures, IsFiniteSet(F), Distinct(F), NEW size \in Nat,
           NEW E, E = {f \in F : Rank(F, f) < Cardinality(F) - size}
    PROVE  /\ Cardinality(F \ E) <= size
           /\ \A f \in E, g \in F \ E : Before(f, g)
<1> DEFINE Places == (Cardinality(F) - size) .. (Cardinality(F) - 1)
           r == [f \in F \ E |-> Rank(F, f)]
<1>0. Cardinality(F) \in Nat
  BY FS_CardinalityType
<1>1. r \in [F \ E -> Places]
  <2>1. ASSUME NEW f \in F \ E PROVE Rank(F, f) \in Places
    <3>1. /\ Rank(F, f) \in Nat /\ Rank(F, f) <= Cardinality(F) - 1
          /\ ~(Rank(F, f) < Cardinality(F) - size)
      BY <2>1, Ranks
    <3> QED BY <1>0, <3>1
  <2> QED BY <2>1
<1>2. ASSUME NEW f \in F \ E, NEW g \in F \ E, r[f] = r[g] PROVE f = g
  <2>1. Rank(F, f) = Rank(F, g) /\ Rank(F, f) \in Nat
    BY <1>2, Ranks
  <2>2. ~Before(f, g) /\ ~Before(g, f)
    BY <2>1, Ranks
  <2> QED BY <2>2, Sorted DEF Distinct
<1>3. r \in Injection(F \ E, Places)
  <2> HIDE DEF r, Places
  <2> QED BY <1>1, <1>2, Fun_IsInj
<1>4. IsFiniteSet(Places) /\ Cardinality(Places) = size
  <2>1. PICK a \in Int, b \in Int : a = Cardinality(F) - size /\ b = Cardinality(F) - 1
    BY <1>0
  <2>2. /\ IsFiniteSet(a .. b)
        /\ Cardinality(a .. b) = IF a > b THEN 0 ELSE b - a + 1
    BY FS_Interval
  <2>3. Cardinality(a .. b) = size
    BY <1>0, <2>1, <2>2
  <2> QED BY <2>1, <2>2, <2>3
<1>5. Cardinality(F \ E) <= Cardinality(Places)
  <2> HIDE DEF r, Places
  <2> QED BY <1>3, <1>4, FS_Injection
<1>6. ASSUME NEW f \in E, NEW g \in F \ E PROVE Before(f, g)
  <2>1. f \in F /\ Rank(F, f) < Cardinality(F) - size /\ ~(Rank(F, g) < Cardinality(F) - size)
    BY <1>6
  <2>2. Rank(F, f) \in Nat /\ Rank(F, g) \in Nat
    BY <2>1, Ranks
  <2>3. ~Before(g, f)
    <3>1. Before(g, f) => Rank(F, g) < Rank(F, f)
      BY <2>1, Ranks
    <3> QED BY <1>0, <2>1, <2>2, <3>1
  <2>4. f # g
    BY <1>6
  <2> QED BY <2>1, <2>3, <2>4, Sorted DEF Distinct
<1> QED BY <1>4, <1>5, <1>6

\* A list of names has a first one.
LEMMA HasFirst ==
    ASSUME NEW F \in SUBSET Pictures, IsFiniteSet(F), Distinct(F), NEW N \in SUBSET F, N # {}
    PROVE  \E f \in N : \A g \in N \ {f} : Before(f, g)
<1> DEFINE S == {Rank(F, f) : f \in N}
<1>1. S \in SUBSET Nat /\ S # {}
  BY Ranks
<1>2. PICK x \in S : \A y \in S : ~(<<y, x>> \in OpToRel(<, Nat))
  <2> HIDE DEF S
  <2> QED BY <1>1, NatLessThanWellFounded, WFMin
<1>3. PICK f \in N : x = Rank(F, f)
  OBVIOUS
<1>4. ASSUME NEW g \in N \ {f} PROVE Before(f, g)
  <2>1. Rank(F, g) \in S /\ Rank(F, g) \in Nat /\ x \in Nat
    BY <1>1
  <2>2. <<Rank(F, g), x>> \in Nat \X Nat
    BY <2>1
  <2>3. ~(<<Rank(F, g), x>>[1] < <<Rank(F, g), x>>[2])
    BY <1>2, <2>1, <2>2 DEF OpToRel
  <2>4. ~(Rank(F, g) < Rank(F, f))
    BY <1>3, <2>3
  <2>5. ~Before(g, f)
    BY <2>4, Ranks
  <2> QED BY <1>4, <2>5, Sorted DEF Distinct
<1> QED BY <1>4

-----------------------------------------------------------------------------
(* Saving a picture. *)

\* What holds of the folder by itself, of its names and of its age.
Folder ==
    /\ files \in SUBSET Pictures /\ IsFiniteSet(files) /\ Distinct(files)
    /\ AgeInv /\ NewestKept

LEMMA Settings == ASSUME RingTyped PROVE ring.size \in Int /\ ring.exceed \in Nat
BY RingAssumption DEF RingTyped

\* A new picture is the last of the folder, in age and, unless names are not in order,
\* in name; and there is at most one more.
LEMMA Created ==
    ASSUME RingTyped, Folder, Create, lost' = lost, now' = now, counter' = counter + 1,
           spared' = spared
    PROVE  /\ Folder' /\ saves' = saves + 1 /\ misnamed' \in BOOLEAN
           /\ \E n \in files' : n.saved = saves'
           /\ Cardinality(files \ spared) \in Nat
           /\ Cardinality(files' \ spared) <= Cardinality(files \ spared) + 1
<1> DEFINE new == [time |-> now, counter |-> counter, saved |-> saves + 1]
           old == {f \in files : ~(f.time = now /\ f.counter = counter)}
<1>0. now \in Nat /\ counter \in Nat /\ saves \in Nat /\ saves + 1 \in Nat /\ lost \in Nat
  BY DEF RingTyped
<1>1. PICK n \in Pictures : n = new
  BY <1>0 DEF Pictures
<1>2. n.time = now /\ n.counter = counter /\ n.saved = saves + 1
  BY <1>1
<1>3. PICK o \in SUBSET files : o = old
  OBVIOUS
<1>4. /\ files' = o \cup {n} /\ saves' = saves + 1
      /\ misnamed' = (misnamed \/ (counter >= Widen /\ \E f \in files : f.time = now /\ f.counter < Widen))
  BY <1>1, <1>3 DEF Create
<1>5. \A f \in o : f.time # now \/ f.counter # counter
  BY <1>3
<1> HIDE DEF new, old
<1>6. \A f \in files : f \in Pictures /\ f.time \in Nat /\ f.counter \in Nat /\ f.saved \in Nat
  BY DEF Folder, Pictures
<1>7. misnamed' \in BOOLEAN /\ (~misnamed' => ~misnamed)
  BY <1>4 DEF RingTyped
<1>8. IsFiniteSet(o) /\ IsFiniteSet(files')
  <2>1. IsFiniteSet(o)
    BY <1>3, FS_Subset DEF Folder
  <2>2. IsFiniteSet(o \cup {n})
    BY <2>1, FS_AddElement
  <2> QED BY <1>4, <2>1, <2>2
<1>9. Distinct(files')
  BY <1>2, <1>3, <1>4, <1>5 DEF Folder, Distinct
<1>10. lost < n.saved /\ \A f \in files : f.saved < n.saved
  BY <1>2, <1>6 DEF Folder, AgeInv, RingTyped
<1>11. AgeInv'
  <2>1. lost' <= saves' /\ \A f \in files' : f.saved <= saves'
    BY <1>2, <1>4, <1>6 DEF Folder, AgeInv, RingTyped
  <2>2. \A f, g \in files' : f # g => f.saved # g.saved
    BY <1>2, <1>4, <1>6, <1>10 DEF Folder, AgeInv, RingTyped
  <2>3. ASSUME ~misnamed'
        PROVE  /\ \A f, g \in files' : Before(f, g) <=> f.saved < g.saved
               /\ \A f \in files' : f.time < now' \/ (f.time = now' /\ f.counter < counter')
    <3>1. /\ \A f, g \in files : Before(f, g) <=> f.saved < g.saved
          /\ \A f \in files : f.time < now \/ (f.time = now /\ f.counter < counter)
      BY <1>7, <2>3 DEF Folder, AgeInv
    <3>2. \A f \in files : f.time = now => (f.counter < Widen) = (counter < Widen)
      <4>1. ~(counter >= Widen /\ \E f \in files : f.time = now /\ f.counter < Widen)
        BY <1>4, <2>3
      <4> QED BY <1>0, <1>6, <3>1, <4>1, RingAssumption
    <3>3. \A f \in files : Before(f, n)
      BY <1>2, <1>6, <3>1, <3>2 DEF Before
    <3>4. \A f \in files : ~Before(n, f) /\ ~(n.saved < f.saved)
      <4>1. \A f \in files : ~Before(n, f)
        BY <1>6, <3>3, Sorted
      <4> QED BY <1>0, <1>2, <1>6, <1>10, <4>1
    <3>5. ~Before(n, n) /\ ~(n.saved < n.saved)
      <4>1. ~Before(n, n)
        BY Sorted
      <4> QED BY <1>0, <1>2, <4>1
    <3>6. \A f, g \in files' : Before(f, g) <=> f.saved < g.saved
      BY <1>4, <1>10, <3>1, <3>3, <3>4, <3>5
    <3>7. \A f \in files' : f.time < now' \/ (f.time = now' /\ f.counter < counter')
      BY <1>2, <1>4, <1>6, <3>1 DEF RingTyped
    <3> QED BY <3>6, <3>7
  <2> QED BY <2>1, <2>2, <2>3 DEF AgeInv
<1>12. NewestKept'
  <2>1. ~misnamed' => \A f \in files \ spared : f.saved > lost
    BY <1>7 DEF Folder, NewestKept
  <2>2. n.saved > lost
    BY <1>0, <1>2, <1>10
  <2> QED BY <1>4, <2>1, <2>2 DEF NewestKept
<1>13. /\ Cardinality(files \ spared) \in Nat
       /\ Cardinality(files' \ spared) <= Cardinality(files \ spared) + 1
  <2>1. files' \ spared \in SUBSET ((files \ spared) \cup {n})
    BY <1>4
  <2>2. IsFiniteSet(files \ spared)
    BY FS_Difference DEF Folder
  <2>3. Cardinality(files \ spared) \in Nat
    BY <2>2, FS_CardinalityType
  <2>4. /\ IsFiniteSet((files \ spared) \cup {n})
        /\ Cardinality((files \ spared) \cup {n}) =
              IF n \in files \ spared THEN Cardinality(files \ spared)
              ELSE Cardinality(files \ spared) + 1
    BY <2>2, FS_AddElement
  <2>5. /\ Cardinality(files' \ spared) <= Cardinality((files \ spared) \cup {n})
        /\ IsFiniteSet(files' \ spared)
    BY <2>1, <2>4, FS_Subset
  <2>6. Cardinality(files' \ spared) \in Nat
    BY <2>5, FS_CardinalityType
  <2> QED BY <2>3, <2>4, <2>5, <2>6
<1>14. \E f \in files' : f.saved = saves'
  BY <1>2, <1>4
<1>15. files' \in SUBSET Pictures
  BY <1>4, <1>6
<1> QED BY <1>4, <1>7, <1>8, <1>9, <1>11, <1>12, <1>13, <1>14, <1>15 DEF Folder

\* x % n for the x after one that is not a multiple of n.
LEMMA Modulo ==
    ASSUME NEW x \in Nat, NEW n \in Nat \ {0}
    PROVE  /\ x % n \in 0 .. n - 1
           /\ (x + 1) % n # 0 => (x + 1) % n = (x % n) + 1
OBVIOUS

LEMMA SaveKeeps == ASSUME RingInv, Save PROVE RingInv'
<1>1. RingTyped /\ Folder /\ namelist = {} /\ rpc = "wait" /\ saves < MaxSaves
  BY DEF RingInv, RingTyped, Folder, Save, ListInv
<1>2. /\ Create /\ counter' = counter + 1
      /\ rpc' = IF Due(counter') /\ ring.size >= 0 THEN "scan" ELSE "wait"
      /\ UNCHANGED <<ring, namelist, now, faults, lost, spared>>
  BY DEF Save
<1>3. /\ Folder' /\ saves' = saves + 1 /\ misnamed' \in BOOLEAN
      /\ \E n \in files' : n.saved = saves'
      /\ Cardinality(files \ spared) \in Nat
      /\ Cardinality(files' \ spared) <= Cardinality(files \ spared) + 1
  BY <1>1, <1>2, Created
<1>4. RingTyped'
  BY <1>1, <1>2, <1>3, RingAssumption DEF RingTyped, Folder
<1>5. ListInv'
  BY <1>1, <1>2 DEF ListInv
<1>6. HoldInv'
  <2> SUFFICES ASSUME rpc' = "wait", ring.size >= 0
               PROVE  Cardinality(files' \ spared) <= ring.size + (counter' % (ring.exceed + 1))
    BY <1>2 DEF HoldInv
  <2>1. ring.size \in Int /\ ring.exceed \in Nat /\ counter \in Nat
    BY <1>1, Settings DEF RingTyped
  <2>2. ~(ring.exceed <= 0) /\ counter + 1 # 1 /\ (counter + 1) % (ring.exceed + 1) # 0
    BY <1>2, <2>1 DEF Due
  <2>3. counter > 0
    BY <2>1, <2>2
  <2>4. Cardinality(files \ spared) <= ring.size + (counter % (ring.exceed + 1))
    BY <1>1, <2>3 DEF RingInv, HoldInv
  <2>5. ring.exceed + 1 \in Nat \ {0}
    BY <2>1
  <2>6. /\ counter % (ring.exceed + 1) \in Int
        /\ (counter + 1) % (ring.exceed + 1) = (counter % (ring.exceed + 1)) + 1
    <3>1. PICK n \in Nat \ {0} : n = ring.exceed + 1
      BY <2>5
    <3>2. counter % n \in 0 .. n - 1 /\ ((counter + 1) % n # 0 => (counter + 1) % n = (counter % n) + 1)
      BY <2>1, Modulo
    <3> QED BY <2>2, <3>1, <3>2
  <2>7. Cardinality(files' \ spared) \in Nat
    <3>1. IsFiniteSet(files' \ spared)
      BY <1>3, FS_Difference DEF Folder
    <3> QED BY <3>1, FS_CardinalityType
  <2> QED BY <1>2, <1>3, <2>1, <2>4, <2>6, <2>7
<1>7. LatestInv'
  BY <1>1, <1>2, <1>3 DEF LatestInv
<1> QED BY <1>3, <1>4, <1>5, <1>6, <1>7 DEF RingInv, Folder

LEMMA SaveFailsKeeps == ASSUME RingInv, SaveFails PROVE RingInv'
<1>1. RingTyped /\ Folder /\ namelist = {} /\ saves < MaxSaves /\ faults < MaxFaults
  BY DEF RingInv, RingTyped, Folder, SaveFails, ListInv
<1>2. /\ counter' = counter + 1 /\ rpc' = "ended" /\ faults' = faults + 1
      /\ UNCHANGED <<ring, namelist, now, lost, spared>>
  BY DEF SaveFails
<1>3. /\ Folder' /\ saves' \in {saves, saves + 1} /\ misnamed' \in BOOLEAN
  <2>1. CASE Create
    BY <1>1, <1>2, <2>1, Created
  <2>2. CASE UNCHANGED <<files, saves, misnamed>>
    <3>1. AgeInv' /\ NewestKept'
      BY <1>1, <1>2, <2>2 DEF Folder, AgeInv, NewestKept, Before, RingTyped, Pictures
    <3> QED BY <1>1, <2>2, <3>1 DEF Folder, RingTyped
  <2> QED BY <2>1, <2>2 DEF SaveFails
<1>4. RingTyped'
  <2>1. /\ saves \in Nat /\ faults \in Nat /\ counter \in Nat /\ counter <= saves + faults
        /\ MaxSaves \in Nat /\ MaxFaults \in Nat /\ saves < MaxSaves /\ faults < MaxFaults
    BY <1>1, RingAssumption DEF RingTyped
  <2>2. saves' \in Nat /\ saves <= saves' /\ saves' <= MaxSaves
    <3>1. CASE saves' = saves
      BY <2>1, <3>1
    <3>2. CASE saves' = saves + 1
      BY <2>1, <3>2
    <3> QED BY <1>3, <3>1, <3>2
  <2>3. /\ counter' \in Nat /\ faults' \in Nat
        /\ counter' <= saves' + faults' /\ faults' <= MaxFaults
    <3>1. counter' = counter + 1 /\ faults' = faults + 1
      BY <1>2
    <3>2. counter' \in Nat /\ faults' \in Nat /\ faults' <= MaxFaults
      BY <2>1, <3>1
    <3>3. counter + 1 <= saves' + (faults + 1)
      <4>1. CASE saves' = saves
        BY <2>1, <4>1
      <4>2. CASE saves' = saves + 1
        BY <2>1, <4>2
      <4> QED BY <1>3, <4>1, <4>2
    <3> QED BY <3>1, <3>2, <3>3
  <2>4. ring' \in Rings /\ now' \in Nat /\ lost' \in Nat /\ namelist' = {} /\ rpc' = "ended"
    BY <1>1, <1>2 DEF RingTyped
  <2> QED BY <1>3, <2>2, <2>3, <2>4 DEF RingTyped, Folder
<1>5. ListInv' /\ HoldInv' /\ LatestInv'
  BY <1>1, <1>2 DEF ListInv, HoldInv, LatestInv
<1> QED BY <1>3, <1>4, <1>5 DEF RingInv, Folder

-----------------------------------------------------------------------------
(* maintain_ringbuffer *)

\* The picture just saved has the last name, and is not among the first n - size.
LEMMA LatestStays ==
    ASSUME RingTyped, Folder, ~misnamed, ring.size > 0, NEW f \in files, f.saved = saves
    PROVE  f \notin Excess(ring.size)
<1>1. \A g \in files : g \in Pictures /\ g.saved \in Nat
  BY DEF Folder, Pictures
<1>2. {g \in files : Before(g, f)} = files \ {f}
  <2>1. ASSUME NEW g \in files, g # f PROVE Before(g, f)
    <3>1. g.saved <= saves /\ g.saved # f.saved
      BY <2>1 DEF Folder, AgeInv
    <3>2. g.saved < f.saved
      BY <1>1, <3>1
    <3> QED BY <2>1, <3>2 DEF Folder, AgeInv
  <2>2. ~Before(f, f)
    BY <1>1, Sorted
  <2> QED BY <2>1, <2>2
<1>3. Cardinality(files \ {f}) = Cardinality(files) - 1 /\ Cardinality(files) \in Nat
  BY FS_RemoveElement, FS_CardinalityType DEF Folder
<1>4. ring.size \in Int
  BY Settings
<1>5. ~(Cardinality({g \in files : Before(g, f)}) < Cardinality(files) - ring.size)
  <2>1. ~(Cardinality(files) - 1 < Cardinality(files) - ring.size)
    BY <1>3, <1>4
  <2> QED BY <1>2, <1>3, <2>1
<1> QED BY <1>5 DEF Excess

LEMMA ScanKeeps == ASSUME RingInv, Scan PROVE RingInv'
<1>1. /\ RingTyped /\ Folder /\ namelist = {} /\ rpc = "scan" /\ ring.size >= 0
      /\ ring.size \in Int /\ ring.exceed \in Nat /\ counter \in Nat
  BY Settings DEF RingInv, RingTyped, Folder, Scan, ListInv
<1>2. UNCHANGED <<ring, counter, files, now, saves, lost, misnamed>>
  BY DEF Scan
<1>3. PICK E \in SUBSET files : E = Excess(ring.size)
  BY DEF Excess
<1>4. Cardinality(files \ E) <= ring.size /\ \A f \in E, g \in files \ E : Before(f, g)
  <2>1. E = {f \in files : Rank(files, f) < Cardinality(files) - ring.size}
    BY <1>3 DEF Excess, Rank
  <2>2. ring.size \in Nat
    BY <1>1
  <2> QED BY <1>1, <2>1, <2>2, Leaves DEF Folder
<1>5. \A X \in SUBSET (files \ E) : Cardinality(X) \in Nat /\ Cardinality(X) <= ring.size
  <2> SUFFICES ASSUME NEW X \in SUBSET (files \ E)
               PROVE  Cardinality(X) \in Nat /\ Cardinality(X) <= ring.size
    OBVIOUS
  <2>1. IsFiniteSet(files \ E)
    BY <1>1, FS_Difference DEF Folder
  <2>2. IsFiniteSet(X) /\ Cardinality(X) <= Cardinality(files \ E)
    BY <2>1, FS_Subset
  <2>3. Cardinality(X) \in Nat /\ Cardinality(files \ E) \in Nat
    BY <2>1, <2>2, FS_CardinalityType
  <2> QED BY <1>1, <1>4, <2>2, <2>3
<1>6. counter % (ring.exceed + 1) \in Nat
  <2>1. PICK n \in Nat \ {0} : n = ring.exceed + 1
    BY <1>1
  <2>2. counter % n \in 0 .. n - 1
    BY <1>1, Modulo
  <2> QED BY <2>1, <2>2
<1>7. \A X \in SUBSET (files \ E) :
         Cardinality(X) <= ring.size + (counter % (ring.exceed + 1))
  BY <1>1, <1>5, <1>6
<1>8. AgeInv' /\ Distinct(files')
  BY <1>1, <1>2 DEF Folder, AgeInv
<1>9. CASE namelist' = E /\ UNCHANGED <<faults, spared>>
  <2>1. rpc' = IF E = {} THEN "wait" ELSE "unlink"
    BY <1>9 DEF Scan
  <2>2. RingTyped'
    BY <1>1, <1>2, <1>9, <2>1 DEF RingTyped
  <2>3. ListInv'
    <3>1. files \ (E \cup spared) \in SUBSET (files \ E)
      OBVIOUS
    <3>2. Cardinality(files \ (E \cup spared)) <= ring.size
      BY <1>5, <3>1
    <3> QED BY <1>1, <1>2, <1>4, <1>9, <2>1, <3>2 DEF ListInv
  <2>4. HoldInv'
    <3>1. E = {} => files \ spared \in SUBSET (files \ E)
      OBVIOUS
    <3> QED BY <1>2, <1>7, <1>9, <2>1, <3>1 DEF HoldInv
  <2>5. NewestKept'
    BY <1>1, <1>2, <1>9 DEF Folder, NewestKept
  <2>6. LatestInv'
    <3> SUFFICES ASSUME counter > 0, ring.size # 0, ~misnamed
                 PROVE  \E f \in files \ E : f.saved = saves
      BY <1>2, <1>9 DEF LatestInv
    <3>1. PICK f \in files : f.saved = saves
      BY <1>1 DEF RingInv, LatestInv
    <3>2. ring.size > 0
      BY <1>1
    <3>3. f \notin E
      BY <1>1, <1>3, <3>1, <3>2, LatestStays
    <3> QED BY <3>1, <3>3
  <2> QED BY <1>8, <2>2, <2>3, <2>4, <2>5, <2>6 DEF RingInv
<1>10. CASE /\ faults < MaxFaults /\ faults' = faults + 1 /\ spared' = spared \cup E
            /\ UNCHANGED namelist
  <2>1. rpc' = "wait"
    BY <1>1, <1>10 DEF Scan
  <2>2. RingTyped'
    <3>1. faults' \in Nat /\ counter' <= saves' + faults' /\ faults' <= MaxFaults
      BY <1>1, <1>2, <1>10, RingAssumption DEF RingTyped
    <3> QED BY <1>1, <1>2, <1>10, <2>1, <3>1 DEF RingTyped
  <2>3. ListInv'
    BY <1>1, <1>10, <2>1 DEF ListInv
  <2>4. HoldInv'
    <3>1. files \ (spared \cup E) \in SUBSET (files \ E)
      OBVIOUS
    <3> QED BY <1>2, <1>7, <1>10, <3>1 DEF HoldInv
  <2>5. NewestKept'
    BY <1>1, <1>2, <1>10 DEF Folder, NewestKept
  <2>6. LatestInv'
    BY <1>1, <1>2, <1>10 DEF RingInv, LatestInv
  <2> QED BY <1>8, <2>2, <2>3, <2>4, <2>5, <2>6 DEF RingInv
<1> QED BY <1>3, <1>9, <1>10 DEF Scan

LEMMA UnlinkKeeps == ASSUME RingInv, NEW ok \in BOOLEAN, Unlink(ok) PROVE RingInv'
<1>1. /\ RingTyped /\ Folder /\ namelist # {} /\ namelist \in SUBSET files
      /\ rpc = "unlink" /\ ring.size >= 0
      /\ ring.size \in Int /\ ring.exceed \in Nat /\ counter \in Nat
      /\ Cardinality(files \ (namelist \cup spared)) <= ring.size
      /\ \A f \in namelist, g \in files \ (namelist \cup spared) : Before(f, g)
  BY Settings DEF RingInv, RingTyped, Folder, Unlink, ListInv
<1>2. PICK f \in namelist :
         /\ f = CHOOSE h \in namelist : \A g \in namelist \ {h} : Before(h, g)
         /\ \A g \in namelist \ {f} : Before(f, g)
  BY <1>1, HasFirst DEF Folder
<1>3. /\ namelist' = namelist \ {f}
      /\ rpc' = IF namelist' = {} THEN "wait" ELSE "unlink"
      /\ UNCHANGED <<ring, counter, now, saves, misnamed>>
  BY <1>2 DEF Unlink
<1>4. \/ /\ files' = files \ {f} /\ lost' = IF f.saved > lost THEN f.saved ELSE lost
         /\ UNCHANGED <<faults, spared>>
      \/ /\ faults < MaxFaults /\ faults' = faults + 1 /\ spared' = spared \cup {f}
         /\ UNCHANGED <<files, lost>>
  BY <1>2 DEF Unlink
<1>5. files' \in SUBSET files
  BY <1>4
<1>6. files' \ (namelist' \cup spared') = files \ (namelist \cup spared)
  BY <1>3, <1>4
<1>7. \A g \in files : g \in Pictures /\ g.saved \in Nat
  BY <1>1 DEF Folder, Pictures
<1>8. RingTyped'
  <2>1. IsFiniteSet(files')
    BY <1>1, <1>5, FS_Subset DEF Folder
  <2>2. namelist' \in SUBSET files'
    BY <1>1, <1>3, <1>4
  <2>3. faults' \in Nat /\ counter' <= saves' + faults' /\ faults' <= MaxFaults
    BY <1>1, <1>3, <1>4, RingAssumption DEF RingTyped
  <2>4. lost' \in Nat
    BY <1>1, <1>4, <1>7 DEF RingTyped
  <2>5. ring' \in Rings /\ now' \in Nat /\ saves' \in Nat /\ counter' \in Nat /\ saves' <= MaxSaves
        /\ misnamed' \in BOOLEAN
    BY <1>1, <1>3 DEF RingTyped
  <2>6. files' \in SUBSET Pictures /\ rpc' \in {"wait", "unlink"}
    BY <1>3, <1>5, <1>7
  <2> QED BY <2>1, <2>2, <2>3, <2>4, <2>5, <2>6 DEF RingTyped
<1>9. Distinct(files')
  BY <1>1, <1>5 DEF Folder, Distinct
<1>10. ListInv'
  BY <1>1, <1>3, <1>6 DEF ListInv
<1>11. HoldInv'
  <2>1. counter % (ring.exceed + 1) \in Nat
    <3>1. PICK n \in Nat \ {0} : n = ring.exceed + 1
      BY <1>1
    <3>2. counter % n \in 0 .. n - 1
      BY <1>1, Modulo
    <3> QED BY <3>1, <3>2
  <2>2. IsFiniteSet(files \ (namelist \cup spared))
    BY <1>1, FS_Difference DEF Folder
  <2>3. Cardinality(files \ (namelist \cup spared)) \in Nat
    BY <2>2, FS_CardinalityType
  <2>4. Cardinality(files \ (namelist \cup spared)) <= ring.size + (counter % (ring.exceed + 1))
    BY <1>1, <2>1, <2>3
  <2>5. rpc' = "wait" => files' \ spared' = files \ (namelist \cup spared)
    BY <1>3, <1>6
  <2> QED BY <1>3, <2>4, <2>5 DEF HoldInv
<1>12. AgeInv'
  <2>1. lost' <= saves'
    BY <1>1, <1>3, <1>4, <1>7 DEF Folder, AgeInv
  <2> QED BY <1>1, <1>3, <1>4, <1>5, <2>1 DEF Folder, AgeInv
<1>13. NewestKept'
  <2> SUFFICES ASSUME ~misnamed, NEW g \in files' \ spared' PROVE g.saved > lost'
    BY <1>3 DEF NewestKept
  <2>1. g \in files \ spared /\ g # f
    BY <1>4
  <2>2. g.saved > lost
    BY <1>1, <2>1 DEF Folder, NewestKept
  <2>3. Before(f, g)
    BY <1>1, <1>2, <2>1
  <2>4. f.saved < g.saved
    BY <1>1, <2>1, <2>3 DEF Folder, AgeInv
  <2>5. f.saved \in Nat /\ g.saved \in Nat /\ lost \in Nat
    BY <1>1, <1>7, <2>1 DEF RingTyped
  <2> QED BY <1>4, <2>2, <2>4, <2>5
<1>14. LatestInv'
  <2>1. files \ namelist \in SUBSET (files' \ namelist')
    BY <1>3, <1>4
  <2> QED BY <1>1, <1>3, <2>1 DEF RingInv, LatestInv
<1> QED BY <1>8, <1>9, <1>10, <1>11, <1>12, <1>13, <1>14 DEF RingInv

-----------------------------------------------------------------------------
\* A restart forgets the list and the counter, but not the folder.
LEMMA RestartKeeps == ASSUME RingInv, Restart PROVE RingInv'
<1>1. RingTyped /\ Folder
  BY DEF RingInv, RingTyped, Folder
<1>2. /\ faults < MaxFaults /\ faults' = faults + 1 /\ ring' \in Rings
      /\ rpc' = "wait" /\ counter' = 0 /\ namelist' = {}
      /\ UNCHANGED <<files, now, saves, lost, spared>>
  BY DEF Restart
<1>3. misnamed' \in BOOLEAN /\ (~misnamed' => ~misnamed /\ \A f \in files : f.time # now)
  BY <1>1 DEF Restart, RingTyped
<1>4. RingTyped'
  <2>1. faults' \in Nat /\ counter' \in Nat /\ counter' <= saves' + faults' /\ faults' <= MaxFaults
    BY <1>1, <1>2, RingAssumption DEF RingTyped
  <2> QED BY <1>1, <1>2, <1>3, <2>1 DEF RingTyped
<1>5. ListInv' /\ HoldInv' /\ LatestInv'
  <2>1. ~(counter' > 0)
    BY <1>2
  <2> QED BY <1>2, <2>1 DEF ListInv, HoldInv, LatestInv
<1>6. AgeInv' /\ NewestKept' /\ Distinct(files')
  BY <1>1, <1>2, <1>3 DEF Folder, AgeInv, NewestKept
<1> QED BY <1>4, <1>5, <1>6 DEF RingInv

LEMMA ClockKeeps == ASSUME RingInv, Clock PROVE RingInv'
<1>1. RingTyped /\ Folder
  BY DEF RingInv, RingTyped, Folder
<1>2. UNCHANGED <<ring, rpc, counter, files, namelist, saves, lost, spared>>
  BY DEF Clock
<1>3. \/ now' = now + 1 /\ faults' = faults /\ misnamed' = misnamed
      \/ now > 0 /\ now' = now - 1 /\ faults < MaxFaults /\ faults' = faults + 1 /\ misnamed' = TRUE
  BY DEF Clock
<1>4. RingTyped'
  <2>1. now' \in Nat /\ faults' \in Nat /\ counter' <= saves' + faults' /\ faults' <= MaxFaults
    BY <1>1, <1>2, <1>3, RingAssumption DEF RingTyped
  <2>2. misnamed' \in BOOLEAN
    BY <1>1, <1>3 DEF RingTyped
  <2> QED BY <1>1, <1>2, <2>1, <2>2 DEF RingTyped
<1>5. ListInv' /\ HoldInv' /\ Distinct(files')
  BY <1>2 DEF RingInv, ListInv, HoldInv
<1>6. misnamed' \/ (misnamed' = misnamed /\ now' = now + 1)
  BY <1>3
<1>7. AgeInv'
  <2>1. \A f \in files : f.time \in Nat
    BY <1>1 DEF Folder, Pictures
  <2>2. ~misnamed' => \A f \in files : f.time < now'
    BY <1>1, <1>6, <2>1 DEF Folder, AgeInv, RingTyped
  <2> QED BY <1>1, <1>2, <1>6, <2>2 DEF Folder, AgeInv
<1>8. NewestKept' /\ LatestInv'
  BY <1>2, <1>6 DEF RingInv, NewestKept, LatestInv
<1> QED BY <1>4, <1>5, <1>7, <1>8 DEF RingInv

LEMMA InitRingInv == ASSUME RingInit PROVE RingInv
<1> USE DEF RingInit
<1>1. IsFiniteSet(files)
  BY FS_EmptySet
<1>2. RingTyped
  <2>1. counter <= saves + faults /\ saves <= MaxSaves /\ faults <= MaxFaults
    BY RingAssumption
  <2>2. misnamed \in BOOLEAN
    OBVIOUS
  <2>3. files \in SUBSET Pictures /\ namelist \in SUBSET files
    OBVIOUS
  <2>4. counter \in Nat /\ now \in Nat /\ saves \in Nat /\ faults \in Nat /\ lost \in Nat
    OBVIOUS
  <2>5. ring \in Rings /\ rpc \in {"wait", "scan", "unlink", "ended"}
    OBVIOUS
  <2> HIDE DEF RingInit
  <2> QED BY <1>1, <2>1, <2>2, <2>3, <2>4, <2>5 DEF RingTyped
<1>3. Distinct(files) /\ ListInv /\ HoldInv /\ LatestInv
  BY DEF Distinct, ListInv, HoldInv, LatestInv
<1>4. AgeInv /\ NewestKept
  BY DEF AgeInv, NewestKept
<1> QED BY <1>2, <1>3, <1>4 DEF RingInv

\* The inductive invariant.
THEOREM RingInvariance == RingSpec => []RingInv
<1>1. RingInit => RingInv
  BY InitRingInv
<1>2. RingInv /\ [RingNext]_ringVars => RingInv'
  <2>1. ASSUME RingInv, UNCHANGED ringVars PROVE RingInv'
    BY <2>1 DEF ringVars, RingInv, RingTyped, ListInv, HoldInv, AgeInv, NewestKept, LatestInv
  <2> QED
    BY <2>1, SaveKeeps, SaveFailsKeeps, ScanKeeps, UnlinkKeeps, RestartKeeps, ClockKeeps
    DEF RingNext
<1> QED BY <1>1, <1>2, PTL DEF RingSpec

\* The type invariant: the counter is bounded by the pictures, and unlink is called for
\* as long as there are pictures in the list.
THEOREM RingTypeCorrect == RingSpec => []RingTypeOK
<1>1. RingInv => RingTypeOK
  <2> SUFFICES ASSUME RingInv PROVE RingTypeOK
    OBVIOUS
  <2>1. counter \in 0 .. MaxSaves + MaxFaults /\ faults \in 0 .. MaxFaults
    BY RingAssumption DEF RingInv, RingTyped
  <2>2. rpc = "unlink" <=> namelist # {}
    BY DEF RingInv, ListInv
  <2> QED BY <2>1, <2>2 DEF RingInv, RingTyped, RingTypeOK
<1> QED BY <1>1, RingInvariance, PTL

\* Between two pictures the folder holds at most size + exceed of them, whatever an
\* earlier run left in it.
THEOREM FolderStaysSmall == RingSpec => []RingHolds
<1>1. RingInv => RingHolds
  <2> SUFFICES ASSUME RingInv, rpc = "wait", counter > 0, ring.size >= 0
               PROVE  Cardinality(files \ spared) <= ring.size + ring.exceed
    BY DEF RingHolds
  <2>1. Cardinality(files \ spared) <= ring.size + (counter % (ring.exceed + 1))
    BY DEF RingInv, HoldInv
  <2>2. ring.size \in Int /\ ring.exceed \in Nat /\ counter \in Nat
    BY Settings DEF RingInv, RingTyped
  <2>3. counter % (ring.exceed + 1) \in 0 .. ring.exceed
    <3>1. PICK n \in Nat \ {0} : n = ring.exceed + 1
      BY <2>2
    <3>2. counter % n \in 0 .. n - 1
      BY <2>2, Modulo
    <3> QED BY <2>2, <3>1, <3>2
  <2>4. Cardinality(files \ spared) \in Nat
    <3>1. IsFiniteSet(files \ spared)
      BY FS_Difference DEF RingInv, RingTyped
    <3> QED BY <3>1, FS_CardinalityType
  <2> QED BY <2>1, <2>2, <2>3, <2>4
<1> QED BY <1>1, RingInvariance, PTL

\* Whatever is deleted is older than whatever stays, if the names are in order.
THEOREM OldestDeleted == RingSpec => []NewestKept
<1>1. RingInv => NewestKept
  BY DEF RingInv
<1> QED BY <1>1, RingInvariance, PTL

\* And the picture just saved stays, unless the size is 0.
THEOREM LatestStaysThere == RingSpec => []LatestKept
<1>1. RingInv => LatestKept
  BY DEF RingInv, LatestInv, LatestKept
<1> QED BY <1>1, RingInvariance, PTL
=============================================================================
