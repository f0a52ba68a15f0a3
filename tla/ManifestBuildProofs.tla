------------------------ MODULE ManifestBuildProofs ------------------------
(***************************************************************************)
(* Proofs about ManifestBuild, for any listing, routes, date range and     *)
(* limits: what the manifest of an archive run holds and where it goes.    *)
(***************************************************************************)
EXTENDS ManifestBuild, DataLemmas, SequenceTheorems

-----------------------------------------------------------------------------
(* Places in a group, and what a chunk takes of it                         *)

Below(M, n) == {p \in M : p < n}
Rank(M, o) == Cardinality(Below(M, o))
Span(c) == c.offset..(c.offset + c.length - 1)
Cut(M, c) == {o \in M : Rank(M, o) \in Span(c)}

LEMMA SliceIsCut == \A g, c : Slice(g, c) = Cut(Members(g), c)
  BY DEF Slice, Cut, Rank, Span, Below

LEMMA BelowFinite ==
  ASSUME NEW M \in SUBSET Nat, IsFiniteSet(M), NEW n \in Nat
  PROVE  IsFiniteSet(Below(M, n)) /\ Rank(M, n) \in Nat
  <1>1. Below(M, n) \in SUBSET M
    BY DEF Below
  <1>2. QED
    BY <1>1, FS_Subset, FS_CardinalityType DEF Rank

LEMMA RankAdd ==
  ASSUME NEW M \in SUBSET Nat, IsFiniteSet(M), NEW n \in Nat
  PROVE  /\ n \in M => /\ Below(M, n + 1) = Below(M, n) \cup {n}
                        /\ n \notin Below(M, n)
                        /\ Rank(M, n + 1) = Rank(M, n) + 1
         /\ n \notin M => Below(M, n + 1) = Below(M, n) /\ Rank(M, n + 1) = Rank(M, n)
  <1>0. \A p \in M : p \in Nat /\ (p < n + 1 <=> p < n \/ p = n)
    OBVIOUS
  <1>1. IsFiniteSet(Below(M, n)) /\ Rank(M, n) \in Nat
    BY BelowFinite
  <1>2. n \notin Below(M, n)
    BY DEF Below
  <1>3. CASE n \in M
    <2>1. Below(M, n + 1) = Below(M, n) \cup {n}
      BY <1>0, <1>3 DEF Below
    <2>2. Cardinality(Below(M, n) \cup {n}) = Cardinality(Below(M, n)) + 1
      BY <1>1, <1>2, FS_AddElement
    <2>3. QED
      BY <1>2, <1>3, <2>1, <2>2 DEF Rank
  <1>4. CASE n \notin M
    <2>1. Below(M, n + 1) = Below(M, n)
      BY <1>0, <1>4 DEF Below
    <2>2. QED
      BY <1>4, <2>1 DEF Rank
  <1>5. QED
    BY <1>3, <1>4

LEMMA RankGrows ==
  ASSUME NEW M \in SUBSET Nat, IsFiniteSet(M), NEW o \in M, NEW n \in Nat, o < n
  PROVE  Rank(M, o) < Rank(M, n)
  <1>1. IsFiniteSet(Below(M, n)) /\ Rank(M, n) \in Nat /\ Rank(M, o) \in Nat
    BY BelowFinite
  <1>2. Below(M, o) \in SUBSET Below(M, n) /\ o \in Below(M, n) /\ o \notin Below(M, o)
    <2>1. o \in Nat /\ \A p \in M : p \in Nat /\ (p < o => p < n)
      OBVIOUS
    <2>2. Below(M, o) \subseteq Below(M, n)
      BY <2>1 DEF Below
    <2>3. o \in Below(M, n) /\ o \notin Below(M, o)
      BY <2>1 DEF Below
    <2>4. QED
      BY <2>2, <2>3
  <1>3. Rank(M, o) <= Rank(M, n) /\ Rank(M, o) # Rank(M, n)
    BY <1>1, <1>2, FS_Subset DEF Rank
  <1>4. QED
    BY <1>1, <1>3

LEMMA RankMonotonic ==
  ASSUME NEW M \in SUBSET Nat, IsFiniteSet(M), NEW o \in M, NEW p \in M, Rank(M, o) < Rank(M, p)
  PROVE  o < p
  <1>1. Rank(M, o) \in Nat /\ Rank(M, p) \in Nat /\ o \in Nat /\ p \in Nat
    BY BelowFinite
  <1>2. ~(p < o)
    BY <1>1, RankGrows
  <1>3. QED
    BY <1>1, <1>2

(* What is cut out behind a chunk does not change what the chunk takes,    *)
(* though those after it move up.                                          *)
LEMMA CutStays ==
  ASSUME NEW M \in SUBSET Nat, IsFiniteSet(M), NEW c \in Chunk, NEW d \in Chunk,
         c.offset + c.length <= d.offset
  PROVE  Cut(M \ Cut(M, d), c) = Cut(M, c)
  <1> DEFINE R == M \ Cut(M, d)
  <1>1. R \in SUBSET Nat /\ IsFiniteSet(R) /\ R \subseteq M
    BY FS_Subset
  <1>2. /\ c.offset \in Nat /\ c.length \in Nat /\ d.offset \in Nat /\ d.length \in Nat
        /\ \A o \in M : Rank(M, o) \in Nat
        /\ \A o \in R : Rank(R, o) \in Nat
    BY <1>1, BelowFinite DEF Chunk
  <1>3. ASSUME NEW o \in M, Rank(M, o) < d.offset PROVE o \in R /\ Rank(R, o) = Rank(M, o)
    <2>1. \A p \in Below(M, o) : p \in M /\ Rank(M, p) < Rank(M, o)
      BY RankGrows DEF Below
    <2>2. o \in R /\ Below(M, o) \subseteq R
      BY <1>2, <1>3, <2>1 DEF Cut, Span
    <2>3. Below(R, o) = Below(M, o)
      BY <2>2 DEF Below
    <2>4. QED
      BY <2>2, <2>3 DEF Rank
  <1>4. ASSUME NEW o \in R, d.offset <= Rank(M, o) PROVE d.offset <= Rank(R, o)
    <2> DEFINE T == {q \in M : d.offset <= Rank(M, q)}
    <2>1. T \in SUBSET Nat /\ o \in T
      BY <1>1, <1>4
    <2> HIDE DEF T
    <2>2. PICK q \in T : \A x \in T : q <= x
      BY <2>1, LeastElement
    <2>3. q \in M /\ q \in Nat /\ d.offset <= Rank(M, q) /\ q <= o
      BY <2>1, <2>2 DEF T
    <2>4. ASSUME NEW p \in Below(M, q) PROVE p \in R
      <3>1. p \in M /\ p \in Nat /\ p < q
        BY <2>3 DEF Below
      <3>2. p \notin T
        BY <2>2, <2>3, <3>1
      <3>3. Rank(M, p) < d.offset
        BY <1>2, <3>1, <3>2 DEF T
      <3>4. QED
        BY <1>3, <3>1, <3>3
    <2>5. Below(M, q) \subseteq Below(R, o)
      <3>1. o \in Nat /\ \A p \in M : p \in Nat /\ (p < q => p < o)
        BY <1>1, <2>3
      <3>2. QED
        BY <2>4, <3>1 DEF Below
    <2>6. IsFiniteSet(Below(R, o)) /\ Rank(R, o) \in Nat
      BY <1>1, BelowFinite
    <2>7. Rank(M, q) <= Rank(R, o)
      BY <2>5, <2>6, FS_Subset DEF Rank
    <2>8. QED
      BY <1>2, <2>3, <2>6, <2>7
  <1> HIDE DEF R
  <1>5. ASSUME NEW o \in Cut(M, c) PROVE o \in Cut(R, c)
    <2>1. o \in M /\ Rank(M, o) \in Span(c) /\ Rank(M, o) < d.offset
      BY <1>2 DEF Cut, Span
    <2>2. QED
      BY <1>3, <2>1 DEF Cut
  <1>6. ASSUME NEW o \in Cut(R, c) PROVE o \in Cut(M, c)
    <2>1. o \in R /\ o \in M /\ Rank(R, o) \in Span(c) /\ Rank(R, o) < d.offset
      BY <1>1, <1>2 DEF Cut, Span
    <2>2. Rank(M, o) < d.offset
      BY <1>2, <1>4, <2>1
    <2>3. QED
      BY <1>3, <2>1, <2>2 DEF Cut
  <1>7. Cut(R, c) = Cut(M, c)
    BY <1>5, <1>6
  <1>8. QED
    BY <1>7 DEF R

-----------------------------------------------------------------------------
(* Cutting a group into chunks                                             *)

Sizes == [o \in Objects |-> object[o].size]
ObjectsKnown == object \in [Objects -> Samples]

LEMMA SizesType ==
  ASSUME ObjectsKnown
  PROVE  /\ Objects \subseteq Nat /\ IsFiniteSet(Objects) /\ Sizes \in [Objects -> Nat]
         /\ \A S : Payload(S) = SumFunctionOnSet(Sizes, S)
  <1>1. Objects \subseteq Nat /\ IsFiniteSet(Objects)
    <2>1. NumObjects \in Nat
      BY ManifestConstants
    <2>2. 1..NumObjects \subseteq Nat /\ IsFiniteSet(1..NumObjects)
      BY <2>1, FS_Interval
    <2>3. QED
      BY <2>2 DEF Objects
  <1>2. \A o \in Objects : object[o].size \in Nat
    BY ManifestConstants DEF ObjectsKnown
  <1>3. Sizes \in [Objects -> Nat]
    BY <1>2 DEF Sizes
  <1>4. \A S : Payload(S) = SumFunctionOnSet(Sizes, S)
    BY DEF Sizes, Payload
  <1>5. QED
    BY <1>1, <1>3, <1>4

(* What a chunk takes of the objects before n.                             *)
Filled(M, n, c) == {o \in Below(M, n) : Rank(M, o) \in Span(c)}

ChunkFits(c) == c.length \in 1..MaxObjects /\ (c.length = 1 \/ c.bytes <= MaxBytes)

(* Chunks that cut the objects before n of a group.                        *)
IsCutting(M, n, cs) ==
  /\ cs \in Seq(Chunk)
  /\ cs = <<>> => Below(M, n) = {}
  /\ cs # <<>> => cs[Len(cs)].offset + cs[Len(cs)].length = Rank(M, n)
  /\ \A i, j \in 1..Len(cs) : i < j => cs[i].offset + cs[i].length <= cs[j].offset
  /\ \A o \in Below(M, n) : \E i \in 1..Len(cs) : Rank(M, o) \in Span(cs[i])
  /\ \A i \in 1..Len(cs) :
       /\ ChunkFits(cs[i])
       /\ Cardinality(Filled(M, n, cs[i])) = cs[i].length
       /\ Payload(Filled(M, n, cs[i])) = cs[i].bytes

(* The ends of the chunks do not go beyond what they cut.                  *)
LEMMA CuttingEnds ==
  ASSUME NEW M \in SUBSET Nat, IsFiniteSet(M), NEW n \in Nat, NEW cs, IsCutting(M, n, cs)
  PROVE  \A i \in 1..Len(cs) : cs[i] \in Chunk /\ cs[i].offset + cs[i].length <= Rank(M, n)
  <1> SUFFICES ASSUME NEW i \in 1..Len(cs)
               PROVE  cs[i] \in Chunk /\ cs[i].offset + cs[i].length <= Rank(M, n)
    OBVIOUS
  <1>1. cs \in Seq(Chunk) /\ cs # <<>> /\ Len(cs) \in 1..Len(cs) /\ Len(cs) \in Nat
    BY DEF IsCutting
  <1>2. cs[i] \in Chunk /\ cs[Len(cs)] \in Chunk
    BY <1>1
  <1>3. cs[Len(cs)].offset + cs[Len(cs)].length = Rank(M, n)
    BY <1>1 DEF IsCutting
  <1>4. i < Len(cs) => cs[i].offset + cs[i].length <= cs[Len(cs)].offset
    BY <1>1 DEF IsCutting
  <1>5. QED
    BY <1>1, <1>2, <1>3, <1>4 DEF Chunk

(* An object that is not of the group changes nothing.                     *)
LEMMA CuttingSkips ==
  ASSUME NEW M \in SUBSET Nat, IsFiniteSet(M), NEW n \in Nat, n \notin M, NEW cs, IsCutting(M, n, cs)
  PROVE  IsCutting(M, n + 1, cs)
  <1>1. Below(M, n + 1) = Below(M, n) /\ Rank(M, n + 1) = Rank(M, n)
    BY RankAdd
  <1>2. \A c : Filled(M, n + 1, c) = Filled(M, n, c)
    BY <1>1 DEF Filled
  <1>3. QED
    BY <1>1, <1>2 DEF IsCutting

(* What one more object adds to a chunk.                                   *)
LEMMA FilledAdd ==
  ASSUME ObjectsKnown, NEW M \in SUBSET Objects, NEW n \in M, NEW c
  PROVE  /\ Rank(M, n) \notin Span(c) => Filled(M, n + 1, c) = Filled(M, n, c)
         /\ Rank(M, n) \in Span(c) =>
              /\ Cardinality(Filled(M, n + 1, c)) = Cardinality(Filled(M, n, c)) + 1
              /\ Payload(Filled(M, n + 1, c)) = Payload(Filled(M, n, c)) + object[n].size
  <1>1. M \in SUBSET Nat /\ IsFiniteSet(M) /\ n \in Nat /\ n \in Objects
    BY SizesType, FS_Subset
  <1>2. Below(M, n + 1) = Below(M, n) \cup {n} /\ n \notin Below(M, n)
    BY <1>1, RankAdd
  <1>3. ASSUME Rank(M, n) \in Span(c)
        PROVE  /\ Cardinality(Filled(M, n + 1, c)) = Cardinality(Filled(M, n, c)) + 1
               /\ Payload(Filled(M, n + 1, c)) = Payload(Filled(M, n, c)) + object[n].size
    <2>1. Filled(M, n + 1, c) = Filled(M, n, c) \cup {n}
      BY <1>2, <1>3 DEF Filled
    <2>2. Filled(M, n, c) \in SUBSET Below(M, n) /\ Below(M, n) \in SUBSET M
      BY DEF Filled, Below
    <2>3. IsFiniteSet(Filled(M, n, c)) /\ n \notin Filled(M, n, c) /\ Filled(M, n, c) \in SUBSET Objects
      BY <1>1, <1>2, <2>2, FS_Subset
    <2>4. Payload(Filled(M, n, c) \cup {n}) = Payload(Filled(M, n, c)) + Sizes[n]
      <3>1. n \in Objects \ Filled(M, n, c) /\ Sizes \in [Objects -> Nat]
        BY <1>1, <2>3, SizesType
      <3>2. SumFunctionOnSet(Sizes, Filled(M, n, c) \cup {n}) = SumFunctionOnSet(Sizes, Filled(M, n, c)) + Sizes[n]
        BY <2>3, <3>1, SumAdd
      <3>3. QED
        BY <3>2, SizesType
    <2>5. QED
      BY <1>1, <2>1, <2>3, <2>4, FS_AddElement DEF Sizes
  <1>4. ASSUME Rank(M, n) \notin Span(c) PROVE Filled(M, n + 1, c) = Filled(M, n, c)
    BY <1>2, <1>4 DEF Filled
  <1>5. QED
    BY <1>3, <1>4

LEMMA CuttingAppends ==
  ASSUME ObjectsKnown, NEW M \in SUBSET Objects, NEW n \in M, NEW cs, IsCutting(M, n, cs)
  PROVE  IsCutting(M, n + 1, Append(cs, NewChunk(Rank(M, n), n)))
  <1> DEFINE c == NewChunk(Rank(M, n), n)
             ds == Append(cs, c)
  <1>1. /\ M \in SUBSET Nat /\ IsFiniteSet(M) /\ n \in Nat /\ n \in Objects
        /\ object[n].size \in Nat /\ Rank(M, n) \in Nat
    <2>1. M \in SUBSET Nat /\ IsFiniteSet(M) /\ n \in Nat /\ n \in Objects
      BY SizesType, FS_Subset
    <2>2. object[n].size \in Nat
      BY ManifestConstants, <2>1 DEF ObjectsKnown
    <2>3. QED
      BY <2>1, <2>2, BelowFinite
  <1>2. /\ c \in Chunk /\ c.offset = Rank(M, n) /\ c.length = 1 /\ c.bytes = object[n].size
        /\ Rank(M, n) \in Span(c) /\ \A r \in Nat : r < Rank(M, n) => r \notin Span(c)
    BY <1>1 DEF NewChunk, Chunk, Span
  <1>3. /\ cs \in Seq(Chunk) /\ Len(cs) \in Nat
        /\ \A i \in 1..Len(cs) : cs[i] \in Chunk /\ cs[i].offset + cs[i].length <= Rank(M, n)
    <2>1. \A i \in 1..Len(cs) : cs[i] \in Chunk /\ cs[i].offset + cs[i].length <= Rank(M, n)
      BY <1>1, CuttingEnds
    <2>2. cs \in Seq(Chunk) /\ Len(cs) \in Nat
      BY DEF IsCutting
    <2>3. QED
      BY <2>1, <2>2
  <1> HIDE DEF c
  <1>4. /\ ds \in Seq(Chunk) /\ Len(ds) = Len(cs) + 1 /\ ds # <<>>
        /\ ds[Len(cs) + 1] = c /\ \A i \in 1..Len(cs) : ds[i] = cs[i]
    BY <1>2, <1>3
  <1>5. /\ Below(M, n + 1) = Below(M, n) \cup {n} /\ Rank(M, n + 1) = Rank(M, n) + 1
        /\ \A o \in Below(M, n) : Rank(M, o) \in Nat /\ Rank(M, o) < Rank(M, n)
    <2>1. ASSUME NEW o \in Below(M, n) PROVE Rank(M, o) \in Nat /\ Rank(M, o) < Rank(M, n)
      BY <1>1, BelowFinite, RankGrows DEF Below
    <2>2. QED
      BY <1>1, <2>1, RankAdd
  <1> HIDE DEF ds
  <1>6. ds[Len(ds)].offset + ds[Len(ds)].length = Rank(M, n + 1)
    BY <1>2, <1>4, <1>5
  <1>7. \A i, j \in 1..Len(ds) : i < j => ds[i].offset + ds[i].length <= ds[j].offset
    <2>1. ASSUME NEW i \in 1..Len(ds), NEW j \in 1..Len(ds), i < j
          PROVE  ds[i].offset + ds[i].length <= ds[j].offset
      <3>1. i \in 1..Len(cs) /\ (j \in 1..Len(cs) \/ j = Len(cs) + 1)
        BY <1>3, <1>4, <2>1
      <3>2. CASE j = Len(cs) + 1
        BY <1>2, <1>3, <1>4, <3>1, <3>2
      <3>3. CASE j \in 1..Len(cs)
        BY <1>4, <2>1, <3>1, <3>3 DEF IsCutting
      <3>4. QED
        BY <3>1, <3>2, <3>3
    <2>2. QED
      BY <2>1
  <1>8. \A o \in Below(M, n + 1) : \E i \in 1..Len(ds) : Rank(M, o) \in Span(ds[i])
    <2>1. ASSUME NEW o \in Below(M, n) PROVE \E i \in 1..Len(ds) : Rank(M, o) \in Span(ds[i])
      <3>1. PICK i \in 1..Len(cs) : Rank(M, o) \in Span(cs[i])
        BY DEF IsCutting
      <3>2. i \in 1..Len(ds) /\ ds[i] = cs[i]
        BY <1>3, <1>4
      <3>3. QED
        BY <3>1, <3>2
    <2>2. Len(ds) \in 1..Len(ds) /\ Rank(M, n) \in Span(ds[Len(ds)])
      BY <1>2, <1>3, <1>4
    <2>3. QED
      BY <1>5, <2>1, <2>2
  <1>9. ASSUME NEW i \in 1..Len(ds)
        PROVE  /\ ChunkFits(ds[i])
               /\ Cardinality(Filled(M, n + 1, ds[i])) = ds[i].length
               /\ Payload(Filled(M, n + 1, ds[i])) = ds[i].bytes
    <2>1. CASE i \in 1..Len(cs)
      <3>1. ds[i] = cs[i] /\ Rank(M, n) \notin Span(cs[i])
        <4>1. /\ cs[i].offset \in Nat /\ cs[i].length \in Nat
              /\ cs[i].offset + cs[i].length <= Rank(M, n)
          BY <1>3, <2>1 DEF Chunk
        <4>2. Rank(M, n) \notin Span(cs[i])
          BY <1>1, <4>1 DEF Span
        <4>3. QED
          BY <1>4, <2>1, <4>2
      <3>2. Filled(M, n + 1, cs[i]) = Filled(M, n, cs[i])
        BY <3>1, FilledAdd
      <3>3. QED
        BY <2>1, <3>1, <3>2 DEF IsCutting
    <2>2. CASE i = Len(cs) + 1
      <3>1. ds[i] = c
        BY <1>4, <2>2
      <3>2. Filled(M, n, c) = {}
        BY <1>2, <1>5 DEF Filled
      <3>3. Cardinality({}) = 0 /\ Payload({}) = 0
        BY SizesType, SumType, FS_EmptySet
      <3>4. Cardinality(Filled(M, n + 1, c)) = 1 /\ Payload(Filled(M, n + 1, c)) = object[n].size
        <4>1. /\ Cardinality(Filled(M, n + 1, c)) = Cardinality(Filled(M, n, c)) + 1
              /\ Payload(Filled(M, n + 1, c)) = Payload(Filled(M, n, c)) + object[n].size
          BY <1>2, FilledAdd
        <4>2. Cardinality(Filled(M, n, c)) = 0 /\ Payload(Filled(M, n, c)) = 0
          BY <3>2, <3>3
        <4>3. QED
          BY <1>1, <4>1, <4>2
      <3>5. ChunkFits(c)
        BY <1>2, ManifestConstants DEF ChunkFits
      <3>6. QED
        BY <1>2, <3>1, <3>4, <3>5
    <2>3. QED
      BY <1>3, <1>4, <2>1, <2>2
  <1>10. IsCutting(M, n + 1, ds)
    BY <1>4, <1>6, <1>7, <1>8, <1>9 DEF IsCutting
  <1>11. QED
    BY <1>10 DEF ds, c

Extended(cs, o) == [cs EXCEPT ![Len(cs)] = Longer(cs[Len(cs)], o)]

LEMMA ExtendedType ==
  ASSUME ObjectsKnown, NEW o \in Objects, NEW cs \in Seq(Chunk), cs # <<>>
  PROVE  /\ Extended(cs, o) \in Seq(Chunk) /\ Len(Extended(cs, o)) = Len(cs)
         /\ \A i \in 1..Len(cs) : i # Len(cs) => Extended(cs, o)[i] = cs[i]
         /\ Extended(cs, o)[Len(cs)] = Longer(cs[Len(cs)], o)
  <1> DEFINE d == Longer(cs[Len(cs)], o)
  <1>1. Len(cs) \in 1..Len(cs) /\ Len(cs) \in Nat /\ cs[Len(cs)] \in Chunk
    OBVIOUS
  <1>2. object[o].size \in Nat
    BY ManifestConstants DEF ObjectsKnown
  <1>3. d \in Chunk
    BY <1>1, <1>2 DEF Chunk, Longer
  <1> HIDE DEF d
  <1>4. [cs EXCEPT ![Len(cs)] = d] \in Seq(Chunk) /\ Len([cs EXCEPT ![Len(cs)] = d]) = Len(cs)
    BY <1>1, <1>3
  <1>5. /\ [cs EXCEPT ![Len(cs)] = d][Len(cs)] = d
        /\ \A i \in 1..Len(cs) : i # Len(cs) => [cs EXCEPT ![Len(cs)] = d][i] = cs[i]
    BY <1>1
  <1>6. QED
    BY <1>4, <1>5 DEF d, Extended

LEMMA CuttingExtends ==
  ASSUME ObjectsKnown, NEW M \in SUBSET Objects, NEW n \in M, NEW cs, IsCutting(M, n, cs),
         cs # <<>>, ~Overflows(cs[Len(cs)], n)
  PROVE  IsCutting(M, n + 1, Extended(cs, n))
  <1> DEFINE c == cs[Len(cs)]
             ds == Extended(cs, n)
             d == ds[Len(cs)]
  <1>1. /\ M \in SUBSET Nat /\ IsFiniteSet(M) /\ n \in Nat /\ n \in Objects
        /\ object[n].size \in Nat /\ Rank(M, n) \in Nat
    <2>1. M \in SUBSET Nat /\ IsFiniteSet(M) /\ n \in Nat /\ n \in Objects
      BY SizesType, FS_Subset
    <2>2. object[n].size \in Nat
      BY ManifestConstants, <2>1 DEF ObjectsKnown
    <2>3. QED
      BY <2>1, <2>2, BelowFinite
  <1>2. cs \in Seq(Chunk) /\ Len(cs) \in Nat /\ Len(cs) \in 1..Len(cs)
    BY DEF IsCutting
  <1>3. /\ ds \in Seq(Chunk) /\ Len(ds) = Len(cs) /\ \A i \in 1..Len(cs) : i # Len(cs) => ds[i] = cs[i]
        /\ d.offset = c.offset /\ d.length = c.length + 1 /\ d.bytes = c.bytes + object[n].size
    <2>1. /\ ds \in Seq(Chunk) /\ Len(ds) = Len(cs) /\ \A i \in 1..Len(cs) : i # Len(cs) => ds[i] = cs[i]
          /\ d = Longer(c, n)
      BY <1>1, <1>2, ExtendedType
    <2>2. QED
      BY <2>1 DEF Longer
  <1>4. /\ c.offset + c.length = Rank(M, n) /\ ChunkFits(c)
        /\ Cardinality(Filled(M, n, c)) = c.length /\ Payload(Filled(M, n, c)) = c.bytes
    BY <1>2 DEF IsCutting
  <1>5. c.offset \in Nat /\ c.length \in Nat /\ c.bytes \in Nat
    <2>1. c \in Chunk
      BY <1>2
    <2>2. QED
      BY <2>1 DEF Chunk
  <1>6. /\ Below(M, n + 1) = Below(M, n) \cup {n} /\ Rank(M, n + 1) = Rank(M, n) + 1
        /\ \A o \in Below(M, n) : Rank(M, o) \in Nat /\ Rank(M, o) < Rank(M, n)
    <2>1. ASSUME NEW o \in Below(M, n) PROVE Rank(M, o) \in Nat /\ Rank(M, o) < Rank(M, n)
      BY <1>1, BelowFinite, RankGrows DEF Below
    <2>2. QED
      BY <1>1, <2>1, RankAdd
  <1> HIDE DEF c, d, ds
  <1>7. Rank(M, n) \in Span(d) /\ \A r \in Nat : r < Rank(M, n) => (r \in Span(d) <=> r \in Span(c))
    <2>0. /\ d.offset = c.offset /\ d.length = c.length + 1 /\ Rank(M, n) = c.offset + c.length
      BY <1>3, <1>4
    <2>1. /\ d.offset = c.offset /\ d.offset + d.length - 1 = Rank(M, n)
          /\ c.offset + c.length - 1 = Rank(M, n) - 1 /\ c.offset <= Rank(M, n)
      BY <1>5, <2>0
    <2>2. Span(d) = c.offset..Rank(M, n) /\ Span(c) = c.offset..(Rank(M, n) - 1)
      BY <2>1 DEF Span
    <2>3. QED
      BY <1>1, <1>5, <2>1, <2>2
  <1>8. ds # <<>> /\ ds[Len(ds)].offset + ds[Len(ds)].length = Rank(M, n + 1)
    <2>1. ds[Len(ds)] = d /\ ds # <<>>
      BY <1>2, <1>3 DEF d
    <2>2. d.offset + d.length = Rank(M, n) + 1
      BY <1>1, <1>3, <1>4, <1>5
    <2>3. QED
      BY <1>6, <2>1, <2>2
  <1>9. \A i, j \in 1..Len(ds) : i < j => ds[i].offset + ds[i].length <= ds[j].offset
    <2>1. ASSUME NEW i \in 1..Len(ds), NEW j \in 1..Len(ds), i < j
          PROVE  ds[i].offset + ds[i].length <= ds[j].offset
      <3>1. ds[i] = cs[i] /\ cs[i].offset + cs[i].length <= cs[j].offset
        BY <1>2, <1>3, <2>1 DEF IsCutting
      <3>2. ds[j].offset = cs[j].offset
        BY <1>3 DEF c, d
      <3>3. QED
        BY <3>1, <3>2
    <2>2. QED
      BY <2>1
  <1>10. \A o \in Below(M, n + 1) : \E i \in 1..Len(ds) : Rank(M, o) \in Span(ds[i])
    <2>1. ASSUME NEW o \in Below(M, n) PROVE \E i \in 1..Len(ds) : Rank(M, o) \in Span(ds[i])
      <3>1. PICK i \in 1..Len(cs) : Rank(M, o) \in Span(cs[i])
        BY DEF IsCutting
      <3>2. CASE i # Len(cs)
        BY <1>3, <3>1, <3>2
      <3>3. CASE i = Len(cs)
        <4>1. Rank(M, o) \in Span(ds[i])
          BY <1>6, <1>7, <3>1, <3>3 DEF c, d
        <4>2. QED
          BY <1>3, <4>1
      <3>4. QED
        BY <3>2, <3>3
    <2>2. Len(cs) \in 1..Len(ds) /\ Rank(M, n) \in Span(ds[Len(cs)])
      BY <1>2, <1>3, <1>7 DEF d
    <2>3. QED
      BY <1>6, <2>1, <2>2
  <1>11. ASSUME NEW i \in 1..Len(ds)
         PROVE  /\ ChunkFits(ds[i])
                /\ Cardinality(Filled(M, n + 1, ds[i])) = ds[i].length
                /\ Payload(Filled(M, n + 1, ds[i])) = ds[i].bytes
    <2>1. CASE i # Len(cs)
      <3>1. ds[i] = cs[i] /\ cs[i] \in Chunk /\ i < Len(cs)
        BY <1>2, <1>3, <2>1
      <3>2. cs[i].offset + cs[i].length <= c.offset
        BY <1>2, <3>1 DEF IsCutting, c
      <3>3. Rank(M, n) \notin Span(cs[i])
        <4>1. cs[i].offset \in Nat /\ cs[i].length \in Nat /\ cs[i].offset + cs[i].length <= Rank(M, n)
          BY <1>4, <1>5, <3>1, <3>2 DEF Chunk
        <4>2. QED
          BY <1>1, <4>1 DEF Span
      <3>4. Filled(M, n + 1, cs[i]) = Filled(M, n, cs[i])
        BY <3>3, FilledAdd
      <3>5. QED
        BY <1>3, <3>1, <3>4 DEF IsCutting
    <2>2. CASE i = Len(cs)
      <3>1. ds[i] = d
        BY <2>2 DEF d
      <3>2. Filled(M, n, d) = Filled(M, n, c)
        BY <1>6, <1>7 DEF Filled
      <3>3. /\ Cardinality(Filled(M, n + 1, d)) = Cardinality(Filled(M, n, d)) + 1
            /\ Payload(Filled(M, n + 1, d)) = Payload(Filled(M, n, d)) + object[n].size
        BY <1>7, FilledAdd
      <3>4. ~(c.length >= MaxObjects) /\ ~(c.bytes + object[n].size > MaxBytes)
        BY DEF Overflows, c
      <3>5. MaxObjects \in Nat /\ MaxBytes \in Nat
        BY ManifestConstants
      <3>6. ChunkFits(d)
        <4>1. c.length < MaxObjects /\ c.bytes + object[n].size <= MaxBytes
          BY <1>1, <1>5, <3>4, <3>5
        <4>2. d.length \in 1..MaxObjects /\ d.bytes <= MaxBytes
          BY <1>1, <1>3, <1>5, <3>5, <4>1
        <4>3. QED
          BY <4>2 DEF ChunkFits
      <3>7. QED
        BY <1>3, <1>4, <3>1, <3>2, <3>3, <3>6
    <2>3. QED
      BY <2>1, <2>2
  <1>12. IsCutting(M, n + 1, ds)
    BY <1>3, <1>8, <1>9, <1>10, <1>11 DEF IsCutting
  <1>13. QED
    BY <1>12 DEF ds

LEMMA AddType ==
  ASSUME ObjectsKnown, NEW o \in Objects, NEW cs \in Seq(Chunk)
  PROVE  AddToChunks(cs, o) \in Seq(Chunk)
  <1>1. object[o].size \in Nat
    BY ManifestConstants DEF ObjectsKnown
  <1>2. CASE cs = <<>>
    <2>1. NewChunk(0, o) \in Chunk
      BY <1>1 DEF NewChunk, Chunk
    <2>2. QED
      BY <1>2, <2>1 DEF AddToChunks
  <1>3. CASE cs # <<>> /\ Overflows(cs[Len(cs)], o)
    <2> DEFINE c == cs[Len(cs)]
               d == NewChunk(c.offset + c.length, o)
    <2>1. c \in Chunk
      BY <1>3
    <2>2. d \in Chunk
      BY <1>1, <2>1 DEF NewChunk, Chunk
    <2>3. AddToChunks(cs, o) = Append(cs, d)
      BY <1>3 DEF AddToChunks
    <2> HIDE DEF d
    <2>4. QED
      BY <2>2, <2>3
  <1>4. CASE cs # <<>> /\ ~Overflows(cs[Len(cs)], o)
    <2>1. AddToChunks(cs, o) = Extended(cs, o)
      BY <1>4 DEF AddToChunks, Extended
    <2>2. QED
      BY <1>4, <2>1, ExtendedType
  <1>5. QED
    BY <1>2, <1>3, <1>4

LEMMA CuttingStep ==
  ASSUME ObjectsKnown, NEW M \in SUBSET Objects, NEW n \in M, NEW cs, IsCutting(M, n, cs)
  PROVE  IsCutting(M, n + 1, AddToChunks(cs, n))
  <1>1. CASE cs = <<>>
    <2>1. Rank(M, n) = 0
      BY <1>1, FS_EmptySet DEF IsCutting, Rank
    <2>2. AddToChunks(cs, n) = Append(cs, NewChunk(Rank(M, n), n))
      BY <1>1, <2>1 DEF AddToChunks
    <2>3. QED
      BY <2>2, CuttingAppends
  <1>2. CASE cs # <<>> /\ Overflows(cs[Len(cs)], n)
    <2>1. cs[Len(cs)].offset + cs[Len(cs)].length = Rank(M, n)
      BY <1>2 DEF IsCutting
    <2>2. AddToChunks(cs, n) = Append(cs, NewChunk(Rank(M, n), n))
      BY <1>2, <2>1 DEF AddToChunks
    <2>3. QED
      BY <2>2, CuttingAppends
  <1>3. CASE cs # <<>> /\ ~Overflows(cs[Len(cs)], n)
    <2>1. AddToChunks(cs, n) = Extended(cs, n)
      BY <1>3 DEF AddToChunks, Extended
    <2>2. QED
      BY <1>3, <2>1, CuttingExtends
  <1>4. QED
    BY <1>1, <1>2, <1>3

LEMMA MembersType ==
  ASSUME ObjectsKnown, NEW g
  PROVE  Members(g) \in SUBSET Objects /\ Members(g) \in SUBSET Nat /\ IsFiniteSet(Members(g))
  <1>1. Members(g) \in SUBSET Objects
    BY DEF Members
  <1>2. QED
    BY <1>1, SizesType, FS_Subset

(* The chunks of a group cut it.                                           *)
LEMMA ChunksCut ==
  ASSUME ObjectsKnown, NEW g
  PROVE  IsCutting(Members(g), NumObjects + 1, ChunksOf(g))
  <1> DEFINE D == 0..NumObjects
             V == Seq(Chunk)
             M == Members(g)
             F == [n \in D |-> [h \in [D -> V] |->
                    IF n = 0 THEN <<>> ELSE IF n \in M THEN AddToChunks(h[n - 1], n) ELSE h[n - 1]]]
             rank == [n \in D |-> n]
             Equation(it) ==
               it = [n \in D |->
                      IF n = 0 THEN <<>> ELSE IF n \in M THEN AddToChunks(it[n - 1], n) ELSE it[n - 1]]
             cs == CHOOSE it : Equation(it)
  <1>1. /\ NumObjects \in Nat /\ Objects = 1..NumObjects
        /\ M \in SUBSET Objects /\ M \in SUBSET Nat /\ IsFiniteSet(M)
    BY ManifestConstants, MembersType DEF Objects
  <1> HIDE DEF M
  <1>2. F \in [D -> [[D -> V] -> V]]
    <2>1. ASSUME NEW n \in D, NEW h \in [D -> V], n # 0
          PROVE  h[n - 1] \in V /\ (n \in M => AddToChunks(h[n - 1], n) \in V)
      <3>1. n - 1 \in D
        BY <1>1, <2>1
      <3>2. QED
        BY <1>1, <3>1, AddType
    <2>2. <<>> \in V
      OBVIOUS
    <2> HIDE DEF D, V
    <2>3. QED
      BY <2>1, <2>2
  <1>3. ASSUME NEW n \in D, NEW h \in [D -> V], NEW k \in [D -> V],
               \A e \in D : rank[e] < rank[n] => h[e] = k[e]
        PROVE  F[n][h] = F[n][k]
    <2>1. CASE n = 0
      BY <2>1
    <2>2. CASE n # 0
      <3>1. n - 1 \in D /\ rank[n - 1] < rank[n]
        BY <1>1, <2>2
      <3>2. h[n - 1] = k[n - 1]
        BY <1>3, <3>1
      <3>3. QED
        BY <2>2, <3>2
    <2>3. QED
      BY <2>1, <2>2
  <1>4. \E it : Equation(it)
    <2>1. rank \in [D -> 0..NumObjects] /\ V # {}
      <3>1. <<>> \in V
        OBVIOUS
      <3>2. QED
        BY <3>1
    <2> HIDE DEF F, rank, V, D
    <2>2. IsRecursion(D, NumObjects, rank, V, F)
      BY <1>1, <1>2, <1>3, <2>1 DEF IsRecursion
    <2>3. PICK f : Solves(f, D, V, F)
      BY <2>2, Recursion
    <2>4. Equation(f)
      BY <2>3 DEF Solves, F
    <2>5. QED
      BY <2>4
  <1>5. Equation(cs)
    BY <1>4
  <1>6. ChunksOf(g) = cs[NumObjects]
    BY DEF ChunksOf, M
  <1> HIDE DEF cs
  <1>7. cs[0] = <<>> /\ \A n \in D : n # 0 => cs[n] = IF n \in M THEN AddToChunks(cs[n - 1], n) ELSE cs[n - 1]
    BY <1>1, <1>5
  <1> DEFINE P == {n \in Nat : n <= NumObjects => IsCutting(M, n + 1, cs[n])}
  <1>8. 0 \in P
    <2>1. Below(M, 1) = {}
      <3>1. \A p \in M : p \in Nat /\ ~(p < 1)
        BY <1>1
      <3>2. QED
        BY <3>1 DEF Below
    <2>2. Len(cs[0]) = 0 /\ cs[0] \in Seq(Chunk) /\ 1..Len(cs[0]) = {}
      BY <1>7
    <2>3. IsCutting(M, 1, cs[0])
      BY <1>7, <2>1, <2>2 DEF IsCutting
    <2>4. QED
      BY <2>3
  <1>9. ASSUME NEW n \in Nat, n \in P PROVE n + 1 \in P
    <2>1. SUFFICES ASSUME n + 1 <= NumObjects PROVE IsCutting(M, n + 2, cs[n + 1])
      OBVIOUS
    <2>2. IsCutting(M, n + 1, cs[n]) /\ n + 1 \in D /\ n + 1 # 0 /\ n + 1 - 1 = n /\ n + 1 + 1 = n + 2
      BY <1>1, <1>9, <2>1
    <2>3. CASE n + 1 \in M
      <3>1. cs[n + 1] = AddToChunks(cs[n], n + 1)
        BY <1>7, <2>2, <2>3
      <3>2. IsCutting(M, n + 1 + 1, AddToChunks(cs[n], n + 1))
        BY <1>1, <2>2, <2>3, CuttingStep
      <3>3. QED
        BY <2>2, <3>1, <3>2
    <2>4. CASE n + 1 \notin M
      <3>1. cs[n + 1] = cs[n]
        BY <1>7, <2>2, <2>4
      <3>2. n + 1 \in Nat
        OBVIOUS
      <3>3. IsCutting(M, n + 1 + 1, cs[n])
        BY <1>1, <2>2, <2>4, <3>2, CuttingSkips
      <3>4. QED
        BY <2>2, <3>1, <3>3
    <2>5. QED
      BY <2>3, <2>4
  <1> HIDE DEF P
  <1>10. Nat \subseteq P
    BY <1>8, <1>9, Induction
  <1>11. QED
    BY <1>1, <1>6, <1>10 DEF M, P

(* What the chunks of a group take is parts of it within the limits.       *)
Divides(M, cs) ==
  /\ cs \in Seq(Chunk) /\ Len(cs) <= NumObjects
  /\ \A i, j \in 1..Len(cs) : i < j => cs[i].offset + cs[i].length <= cs[j].offset
  /\ M = UNION {Cut(M, cs[i]) : i \in 1..Len(cs)}
  /\ \A i, j \in 1..Len(cs) : i # j => Cut(M, cs[i]) \cap Cut(M, cs[j]) = {}
  /\ \A i \in 1..Len(cs) : Cut(M, cs[i]) # {} /\ WithinLimits(Cut(M, cs[i]))

LEMMA ChunksDivide ==
  ASSUME ObjectsKnown, NEW g
  PROVE  Divides(Members(g), ChunksOf(g))
  <1> DEFINE M == Members(g)
             cs == ChunksOf(g)
             n == NumObjects + 1
  <1>1. /\ NumObjects \in Nat /\ Objects = 1..NumObjects /\ n \in Nat
        /\ M \in SUBSET Objects /\ M \in SUBSET Nat /\ IsFiniteSet(M)
    BY ManifestConstants, MembersType DEF Objects
  <1>2. IsCutting(M, n, cs)
    BY ChunksCut
  <1> HIDE DEF M, cs
  <1>3. Below(M, n) = M /\ \A c : Filled(M, n, c) = Cut(M, c)
    <2>1. \A p \in M : p < n
      BY <1>1
    <2>2. Below(M, n) = M
      BY <2>1 DEF Below
    <2>3. QED
      BY <2>2 DEF Filled, Cut
  <1>4. /\ cs \in Seq(Chunk) /\ Len(cs) \in Nat
        /\ \A i \in 1..Len(cs) : cs[i] \in Chunk /\ cs[i].offset + cs[i].length <= Rank(M, n)
    <2>1. \A i \in 1..Len(cs) : cs[i] \in Chunk /\ cs[i].offset + cs[i].length <= Rank(M, n)
      BY <1>1, <1>2, CuttingEnds
    <2>2. cs \in Seq(Chunk) /\ Len(cs) \in Nat
      BY <1>2 DEF IsCutting
    <2>3. QED
      BY <2>1, <2>2
  <1>5. \A i, j \in 1..Len(cs) : i < j => cs[i].offset + cs[i].length <= cs[j].offset
    BY <1>2 DEF IsCutting
  <1>6. \A i \in 1..Len(cs) :
          /\ cs[i].offset \in Nat /\ cs[i].length \in Nat /\ cs[i].bytes \in Nat
          /\ ChunkFits(cs[i])
          /\ Cardinality(Cut(M, cs[i])) = cs[i].length /\ Payload(Cut(M, cs[i])) = cs[i].bytes
    BY <1>2, <1>3, <1>4 DEF IsCutting, Chunk
  <1>7. Len(cs) <= NumObjects
    <2> DEFINE P == {i \in Nat : i \in 1..Len(cs) => i <= cs[i].offset + cs[i].length}
    <2>1. 0 \in P
      OBVIOUS
    <2>2. ASSUME NEW i \in Nat, i \in P PROVE i + 1 \in P
      <3>1. SUFFICES ASSUME i + 1 \in 1..Len(cs) PROVE i + 1 <= cs[i + 1].offset + cs[i + 1].length
        OBVIOUS
      <3>2. cs[i + 1].offset \in Nat /\ cs[i + 1].length \in Nat /\ cs[i + 1].length >= 1
        <4>1. cs[i + 1].offset \in Nat /\ cs[i + 1].length \in 1..MaxObjects
          BY <1>6, <3>1 DEF ChunkFits
        <4>2. MaxObjects \in Nat
          BY ManifestConstants
        <4>3. QED
          BY <4>1, <4>2
      <3>3. CASE i = 0
        BY <3>2, <3>3
      <3>4. CASE i # 0
        <4>1. i \in 1..Len(cs) /\ i < i + 1
          BY <1>4, <3>1, <3>4
        <4>2. i <= cs[i].offset + cs[i].length /\ cs[i].offset \in Nat /\ cs[i].length \in Nat
          BY <1>6, <2>2, <4>1
        <4>3. cs[i].offset + cs[i].length <= cs[i + 1].offset
          BY <1>5, <3>1, <4>1
        <4>4. QED
          BY <3>2, <4>2, <4>3
      <3>5. QED
        BY <3>3, <3>4
    <2> HIDE DEF P
    <2>3. Len(cs) \in P
      BY <1>4, <2>1, <2>2, Induction
    <2>4. Rank(M, n) <= NumObjects /\ Rank(M, n) \in Nat
      <3>1. IsFiniteSet(Objects) /\ Cardinality(Objects) = NumObjects
        BY <1>1, FS_Interval
      <3>2. Cardinality(M) <= Cardinality(Objects) /\ Cardinality(M) \in Nat
        BY <1>1, <3>1, FS_Subset, FS_CardinalityType
      <3>3. QED
        BY <1>3, <3>1, <3>2 DEF Rank
    <2>5. CASE Len(cs) = 0
      BY <1>1, <2>5
    <2>6. CASE Len(cs) # 0
      <3>1. Len(cs) \in 1..Len(cs)
        BY <1>4, <2>6
      <3>2. Len(cs) <= cs[Len(cs)].offset + cs[Len(cs)].length
        BY <2>3, <3>1 DEF P
      <3>3. cs[Len(cs)].offset + cs[Len(cs)].length <= Rank(M, n) /\ cs[Len(cs)].offset + cs[Len(cs)].length \in Nat
        BY <1>4, <1>6, <3>1
      <3>4. QED
        BY <1>1, <1>4, <2>4, <3>2, <3>3
    <2>7. QED
      BY <2>5, <2>6
  <1>8. M = UNION {Cut(M, cs[i]) : i \in 1..Len(cs)}
    <2>1. \A o \in M : \E i \in 1..Len(cs) : Rank(M, o) \in Span(cs[i])
      BY <1>2, <1>3 DEF IsCutting
    <2>2. QED
      BY <2>1 DEF Cut
  <1>9. \A i, j \in 1..Len(cs) : i # j => Cut(M, cs[i]) \cap Cut(M, cs[j]) = {}
    <2>1. ASSUME NEW i \in 1..Len(cs), NEW j \in 1..Len(cs), i < j
          PROVE  Cut(M, cs[i]) \cap Cut(M, cs[j]) = {}
      <3>1. /\ cs[i].offset \in Nat /\ cs[i].length \in Nat /\ cs[j].offset \in Nat /\ cs[j].length \in Nat
            /\ cs[i].offset + cs[i].length <= cs[j].offset
        BY <1>5, <1>6, <2>1
      <3>2. Span(cs[i]) \cap Span(cs[j]) = {}
        BY <3>1 DEF Span
      <3>3. QED
        BY <3>2 DEF Cut
    <2>2. \A i, j \in 1..Len(cs) : i # j => i < j \/ j < i
      BY <1>4
    <2>3. QED
      BY <2>1, <2>2
  <1>10. \A i \in 1..Len(cs) : Cut(M, cs[i]) # {} /\ WithinLimits(Cut(M, cs[i]))
    <2>1. ASSUME NEW i \in 1..Len(cs)
          PROVE  Cut(M, cs[i]) # {} /\ WithinLimits(Cut(M, cs[i]))
      <3>1. Cardinality(Cut(M, cs[i])) # 0
        BY <1>6, <2>1 DEF ChunkFits
      <3>2. Cut(M, cs[i]) # {}
        BY <3>1, FS_EmptySet
      <3>3. QED
        BY <1>6, <2>1, <3>2 DEF WithinLimits, ChunkFits
    <2>2. QED
      BY <2>1
  <1>11. Divides(M, cs)
    BY <1>4, <1>5, <1>7, <1>8, <1>9, <1>10 DEF Divides
  <1>12. QED
    BY <1>11 DEF M, cs

-----------------------------------------------------------------------------
(* Paths, and the routes whose path an object is under                     *)

LEMMA UnderByNames ==
  ASSUME NEW S, NEW p \in Seq(S), NEW f \in Seq(S)
  PROVE  Under(p, f) <=> Len(p) <= Len(f) /\ \A i \in 1..Len(p) : f[i] = p[i]
  <1>1. ASSUME Len(p) <= Len(f)
        PROVE  SubSeq(f, 1, Len(p)) = p <=> \A i \in 1..Len(p) : f[i] = p[i]
    <2> DEFINE q == SubSeq(f, 1, Len(p))
    <2>1. Len(p) \in Nat /\ Len(f) \in Nat /\ \A i \in 1..Len(p) : f[i] \in S
      BY <1>1
    <2>2. q \in Seq(S) /\ Len(q) = Len(p) /\ \A i \in 1..Len(p) : q[i] = f[i]
      <3>1. /\ SubSeq(f, 1, Len(p)) \in Seq(S)
            /\ Len(SubSeq(f, 1, Len(p))) = IF 1 <= Len(p) THEN Len(p) - 1 + 1 ELSE 0
            /\ \A i \in 1..(Len(p) - 1 + 1) : SubSeq(f, 1, Len(p))[i] = f[1 + i - 1]
        BY <2>1, SubSeqProperties
      <3> HIDE DEF q
      <3>2. Len(p) - 1 + 1 = Len(p) /\ \A i \in 1..Len(p) : 1 + i - 1 = i
        BY <2>1
      <3>3. QED
        BY <2>1, <3>1, <3>2 DEF q
    <2> HIDE DEF q
    <2>3. ASSUME \A i \in 1..Len(p) : f[i] = p[i] PROVE q = p
      <3>1. \A i \in 1..Len(q) : q[i] = p[i]
        BY <2>2, <2>3
      <3>2. QED
        BY <2>2, <3>1, SeqEqual
    <2>4. QED
      BY <2>2, <2>3 DEF q
  <1>2. QED
    BY <1>1 DEF Under

(* Two paths that a folder is under are under each other.                  *)
LEMMA PathsNest ==
  ASSUME NEW S, NEW p \in Seq(S), NEW q \in Seq(S), NEW f \in Seq(S),
         Under(p, f), Under(q, f), Len(p) <= Len(q)
  PROVE  Under(p, q) /\ (Len(p) = Len(q) => p = q)
  <1>1. \A i \in 1..Len(p) : f[i] = p[i] /\ i \in 1..Len(q)
    BY UnderByNames
  <1>2. \A i \in 1..Len(q) : f[i] = q[i]
    BY UnderByNames
  <1>3. \A i \in 1..Len(p) : q[i] = p[i]
    BY <1>1, <1>2
  <1>4. Under(p, q)
    BY <1>3, UnderByNames
  <1>5. ASSUME Len(p) = Len(q) PROVE p = q
    BY <1>3, <1>5, SeqEqual
  <1>6. QED
    BY <1>4, <1>5

InputsKnown == object \in [Objects -> Samples] /\ route \in RouteLists

LEMMA InputTypes ==
  ASSUME InputsKnown
  PROVE  /\ \A o \in Objects : IsObject(object[o]) /\ object[o].folder \in Seq(Names)
         /\ \A r \in Routes : IsRoute(route[r]) /\ route[r].path \in Seq(Names)
  BY ManifestConstants DEF InputsKnown, IsObject, IsRoute

(* An object is seen by the deepest of the routes whose path it is under.  *)
LEMMA SeenByOwners ==
  ASSUME InputsKnown, NEW r \in Routes, NEW o \in Objects
  PROVE  o \in Seen(r) <=> r \in Owners(o)
  <1> DEFINE f == object[o].folder
             Around(s) == object[o].bucket = route[s].bucket /\ Under(route[s].path, f)
  <1>1. f \in Seq(Names) /\ \A s \in Routes : route[s].path \in Seq(Names)
    BY InputTypes
  <1>2. \A s \in Routes : Len(route[s].path) \in Nat
    BY <1>1
  <1>3. o \in Seen(r) <=> Around(r) /\ \A path \in Excluded(r) : ~Under(path, f)
    BY DEF Seen
  <1>4. r \in Owners(o) <=>
          Around(r) /\ \A s \in Routes : Around(s) => Len(route[s].path) <= Len(route[r].path)
    BY DEF Owners
  <1>5. ASSUME Around(r), \A path \in Excluded(r) : ~Under(path, f), NEW s \in Routes, Around(s)
        PROVE  Len(route[s].path) <= Len(route[r].path)
    <2>1. SUFFICES ASSUME Len(route[s].path) > Len(route[r].path) PROVE FALSE
      BY <1>2
    <2>2. Under(route[r].path, route[s].path)
      BY <1>1, <1>2, <1>5, <2>1, PathsNest
    <2>3. s \in Routes \ {r} /\ route[s].bucket = route[r].bucket /\ StrictlyNested(route[s].path, route[r].path)
      BY <1>2, <1>5, <2>1, <2>2 DEF StrictlyNested
    <2>4. route[s].path \in Excluded(r)
      BY <2>3 DEF Excluded
    <2>5. QED
      BY <1>5, <2>4
  <1>6. ASSUME Around(r), \A s \in Routes : Around(s) => Len(route[s].path) <= Len(route[r].path),
               NEW path \in Excluded(r), Under(path, f)
        PROVE  FALSE
    <2>1. PICK s \in Routes : /\ path = route[s].path /\ route[s].bucket = route[r].bucket
                              /\ StrictlyNested(route[s].path, route[r].path)
      BY DEF Excluded
    <2>2. Around(s) /\ Len(route[s].path) > Len(route[r].path)
      BY <1>6, <2>1 DEF StrictlyNested
    <2>3. QED
      BY <1>2, <1>6, <2>2
  <1> HIDE DEF Around
  <1>7. QED
    BY <1>3, <1>4, <1>5, <1>6

(* There is at most one such route.                                        *)
LEMMA OneOwner ==
  ASSUME InputsKnown, StorageApart, NEW o \in Objects, NEW r \in Owners(o), NEW s \in Owners(o)
  PROVE  r = s
  <1>1. /\ r \in Routes /\ s \in Routes
        /\ object[o].bucket = route[r].bucket /\ Under(route[r].path, object[o].folder)
        /\ object[o].bucket = route[s].bucket /\ Under(route[s].path, object[o].folder)
        /\ Len(route[r].path) <= Len(route[s].path) /\ Len(route[s].path) <= Len(route[r].path)
    BY DEF Owners
  <1>2. /\ object[o].folder \in Seq(Names)
        /\ route[r].path \in Seq(Names) /\ route[s].path \in Seq(Names)
    BY <1>1, InputTypes
  <1>3. Len(route[r].path) = Len(route[s].path)
    BY <1>1, <1>2
  <1>4. route[r].path = route[s].path
    BY <1>1, <1>2, <1>3, PathsNest
  <1>5. QED
    BY <1>1, <1>4 DEF StorageApart

-----------------------------------------------------------------------------
(* What the steps leave alone                                              *)

LEMMA InputsStay ==
  ASSUME UNCHANGED inputs
  PROVE  /\ ObjectsKnown' <=> ObjectsKnown
         /\ ValidRoutes' <=> ValidRoutes
         /\ \A e : Select(e)' = Select(e)
         /\ \A e : SkipReason(e)' = SkipReason(e)
         /\ \A o : Owners(o)' = Owners(o)
         /\ \A r : Destination(r)' = Destination(r)
  <1>1. object' = object /\ route' = route
    BY DEF inputs
  <1>2. \A r : Destination(r)' = Destination(r) /\ (ParserFits(r)' <=> ParserFits(r))
    BY <1>1 DEF Destination, ParserFits
  <1>3. StorageApart' <=> StorageApart
    BY <1>1, <1>2 DEF StorageApart
  <1>4. ValidRoutes' <=> ValidRoutes
    BY <1>2, <1>3 DEF ValidRoutes
  <1>5. \A e : Select(e)' = Select(e)
    BY <1>1 DEF Select
  <1>6. \A o : Oversized(o)' <=> Oversized(o)
    BY <1>1 DEF Oversized
  <1>7. \A e : SkipReason(e)' = SkipReason(e)
    BY <1>5, <1>6 DEF SkipReason
  <1>8. \A o : Owners(o)' = Owners(o)
    BY <1>1 DEF Owners
  <1>9. ObjectsKnown' <=> ObjectsKnown
    BY <1>1 DEF ObjectsKnown
  <1>10. QED
    BY <1>2, <1>4, <1>5, <1>7, <1>8, <1>9

LEMMA GroupsStay ==
  ASSUME UNCHANGED <<inputs, told>>
  PROVE  \A e : GroupOf(e)' = GroupOf(e) /\ Root(e)' = Root(e) /\ TargetDay(e)' = TargetDay(e)
  <1>1. object' = object /\ route' = route /\ told' = told
    BY DEF inputs
  <1>2. \A r : Destination(r)' = Destination(r)
    BY <1>1 DEF Destination
  <1>3. \A e : TargetDay(e)' = TargetDay(e) /\ Root(e)' = Root(e)
    BY <1>1 DEF TargetDay, Root
  <1>4. \A e : DayKey(e)' = DayKey(e) /\ HourKey(e)' = HourKey(e)
    BY <1>1, <1>3 DEF DayKey, HourKey
  <1>5. \A e : BaseKey(e)' = BaseKey(e)
    BY <1>1, <1>2, <1>4 DEF BaseKey
  <1>6. QED
    BY <1>3, <1>5 DEF GroupOf

(* How much the members of a set weigh together.                           *)
LEMMA WeightsStay ==
  ASSUME UNCHANGED inputs
  PROVE  \A S : (WithinLimits(S)' <=> WithinLimits(S)) /\ (TooLarge(S)' <=> TooLarge(S))
  <1>1. object' = object
    BY DEF inputs
  <1>2. \A S : Payload(S)' = Payload(S) /\ Estimated(S)' = Estimated(S)
    BY <1>1 DEF Payload, Estimated
  <1>3. QED
    BY <1>2 DEF WithinLimits, TooLarge

(* The recursion of ChunksOf, for a listing ob and the members M.          *)
CutOf(ob, M) ==
  LET cs[n \in 0..NumObjects] ==
        IF n = 0 THEN <<>>
        ELSE IF n \in M
             THEN IF cs[n - 1] = <<>> THEN <<[offset |-> 0, length |-> 1, bytes |-> ob[n].size]>>
                  ELSE LET c == cs[n - 1][Len(cs[n - 1])] IN
                       IF c.length >= MaxObjects \/ c.bytes + ob[n].size > MaxBytes
                       THEN Append(cs[n - 1], [offset |-> c.offset + c.length, length |-> 1, bytes |-> ob[n].size])
                       ELSE [cs[n - 1] EXCEPT ![Len(cs[n - 1])] =
                               [offset |-> c.offset, length |-> c.length + 1, bytes |-> c.bytes + ob[n].size]]
             ELSE cs[n - 1]
  IN  cs[NumObjects]

LEMMA ChunksStay ==
  ASSUME UNCHANGED <<inputs, told, entries>>
  PROVE  /\ Groups' = Groups /\ Rebuilt' = Rebuilt
         /\ \A g : Members(g)' = Members(g)
         /\ \A g, c : Slice(g, c)' = Slice(g, c)
  <1>1. object' = object /\ route' = route /\ told' = told /\ entries' = entries
    BY DEF inputs
  <1>2. \A e : GroupOf(e)' = GroupOf(e)
    BY GroupsStay
  <1>3. Groups' = Groups
    BY <1>1, <1>2 DEF Groups
  <1>4. \A g : Members(g)' = Members(g)
    BY <1>1, <1>2 DEF Members
  <1>5. \A g, c : Slice(g, c)' = Slice(g, c)
    BY <1>4 DEF Slice
  <1>6. \A g : ChunksOf(g)' = ChunksOf(g)
    <2>1. \A g : ChunksOf(g) = CutOf(object, Members(g))
      BY DEF ChunksOf, CutOf, AddToChunks, NewChunk, Longer, Overflows
    <2>2. \A g : ChunksOf(g)' = CutOf(object', Members(g)')
      BY DEF ChunksOf, CutOf, AddToChunks, NewChunk, Longer, Overflows
    <2>3. QED
      BY <1>1, <1>4, <2>1, <2>2
  <1>7. Rebuilt' = Rebuilt
    BY <1>3, <1>6 DEF Rebuilt
  <1>8. QED
    BY <1>3, <1>4, <1>5, <1>7

LEMMA ClashesStay ==
  ASSUME UNCHANGED <<inputs, told, entries, chunks>>
  PROVE  DestinationsClash' <=> DestinationsClash
  <1>1. object' = object /\ route' = route /\ entries' = entries /\ chunks' = chunks /\ Groups' = Groups
    BY ChunksStay DEF inputs
  <1>2. \A r : Destination(r)' = Destination(r)
    BY InputsStay
  <1>3. \A e : DirectKey(e)' = DirectKey(e)
    BY <1>1, <1>2 DEF DirectKey
  <1>4. DirectOutputs' = DirectOutputs /\ ArchiveOutputs' = ArchiveOutputs
    BY <1>1 DEF DirectOutputs, ArchiveOutputs
  <1>5. QED
    BY <1>3, <1>4 DEF DestinationsClash, ArchiveKey

LEMMA PartsStay ==
  ASSUME UNCHANGED <<inputs, told>>
  PROVE  \A g, S : IsPart(g, S)' <=> IsPart(g, S)
  <1>1. told' = told /\ \A e : GroupOf(e)' = GroupOf(e)
    BY GroupsStay
  <1>2. \A S : WithinLimits(S)' <=> WithinLimits(S)
    BY WeightsStay
  <1>3. QED
    BY <1>1, <1>2 DEF IsPart

LEMMA SelectedStays ==
  ASSUME SelectedSound, UNCHANGED <<inputs, told, entries, skipped>>
  PROVE  SelectedSound'
  <1>1. told' = told /\ entries' = entries /\ skipped' = skipped
    OBVIOUS
  <1>2. \A e : Select(e)' = Select(e) /\ SkipReason(e)' = SkipReason(e)
    BY InputsStay
  <1>3. \A s : Row(s)' = Row(s)
    BY DEF Row
  <1>4. QED
    BY <1>1, <1>2, <1>3 DEF SelectedSound

LEMMA RowsStay ==
  ASSUME RowsSound, UNCHANGED <<inputs, entries, skipped>>,
         phase \notin {"load", "health", "list", "refused"}
  PROVE  RowsSound'
  <1>1. entries' = entries /\ skipped' = skipped /\ \A o : Owners(o)' = Owners(o)
    BY InputsStay
  <1>2. \A s : Row(s)' = Row(s)
    BY DEF Row
  <1>3. QED
    BY <1>1, <1>2 DEF RowsSound

LEMMA PlanStays ==
  ASSUME PlanSound, UNCHANGED <<inputs, told, entries, skipped, planned>>,
         phase \in {"drop", "check", "built"},
         \A g \in DOMAIN planned : \A i \in DOMAIN planned[g] : Dropped(g, i)' <=> Dropped(g, i)
  PROVE  PlanSound'
  <1>1. /\ route' = route /\ skipped' = skipped /\ planned' = planned
        /\ Groups' = Groups /\ \A g : Members(g)' = Members(g)
    BY ChunksStay DEF inputs
  <1>2. \A g, S : IsPart(g, S)' <=> IsPart(g, S)
    BY PartsStay
  <1>3. \A g : PlannedParts(g) => PlannedParts(g)'
    BY <1>1, <1>2 DEF PlannedParts
  <1>4. \A g \in DOMAIN planned, o \in Objects : (Keeps(g, o)' <=> Keeps(g, o)) /\ (Loses(g, o)' <=> Loses(g, o))
    BY <1>1 DEF Keeps, Loses
  <1>5. QED
    BY <1>1, <1>3, <1>4 DEF PlanSound

-----------------------------------------------------------------------------
(* The invariant                                                           *)

LEMMA InitBuild == Init => BuildInv
  <1> SUFFICES ASSUME Init PROVE BuildInv
    OBVIOUS
  <1>1. TypeOK
    BY DEF Init, TypeOK, Empty
  <1>2. InputsAccepted /\ NothingListed /\ RowsSound /\ ChunksCurrent /\ DropsLast /\ PlanSound /\ DropSound /\ NoneClash
    BY DEF Init, InputsAccepted, NothingListed, RowsSound, ChunksCurrent, DropsLast, PlanSound, DropSound, NoneClash
  <1>3. SelectedSound
    BY DEF Init, SelectedSound, Empty
  <1>4. QED
    BY <1>1, <1>2, <1>3 DEF BuildInv

(* A step that only changes the phase.                                     *)
LEMMA PhaseStep ==
  ASSUME BuildInv, UNCHANGED <<inputs, told, entries, skipped, chunks, left, planned>>,
         \/ phase' = "refused"
         \/ phase \in {"load", "health"} /\ phase' \in {"health", "list"}
         \/ phase = "check" /\ phase' = "built",
         phase # "refused",
         phase = "load" /\ phase' # "refused" => ValidRoutes /\ IsRange(From, To),
         phase' = "built" => ~DestinationsClash
  PROVE  BuildInv'
  <1> USE DEF BuildInv
  <1>1. /\ entries' = entries /\ skipped' = skipped /\ chunks' = chunks /\ left' = left
        /\ (ValidRoutes' <=> ValidRoutes) /\ Rebuilt' = Rebuilt
    BY InputsStay, ChunksStay
  <1>2. TypeOK'
    BY DEF TypeOK, inputs
  <1>3. InputsAccepted'
    BY <1>1 DEF InputsAccepted, NothingListed
  <1>4. NothingListed'
    BY <1>1 DEF NothingListed, Empty
  <1>5. SelectedSound'
    BY SelectedStays
  <1>6. RowsSound'
    BY RowsStay DEF RowsSound
  <1>7. ChunksCurrent'
    BY <1>1 DEF ChunksCurrent
  <1>8. DropsLast'
    BY <1>1 DEF DropsLast
  <1>9. PlanSound'
    <2>1. CASE phase' # "built"
      BY <2>1 DEF PlanSound
    <2>2. CASE phase' = "built"
      <3>1. phase = "check" /\ planned' = planned /\ \A S : TooLarge(S)' <=> TooLarge(S)
        BY <2>2, WeightsStay
      <3>2. \A g, i : Dropped(g, i)' <=> Dropped(g, i)
        BY <2>2, <3>1 DEF Dropped
      <3>3. QED
        BY <3>1, <3>2, PlanStays
    <2>3. QED
      BY <2>1, <2>2
  <1>10. DropSound'
    BY DEF DropSound
  <1>11. NoneClash'
    BY ClashesStay DEF NoneClash
  <1>12. QED
    BY <1>2, <1>3, <1>4, <1>5, <1>6, <1>7, <1>8, <1>9, <1>10, <1>11

LEMMA ReasonType ==
  ASSUME NEW e, SkipReason(e) # None
  PROVE  SkipReason(e) \in Skips /\ SkipReason(e) # "archive size"
  BY DEF SkipReason, Skips

LEMMA ListStep ==
  ASSUME BuildInv, List
  PROVE  BuildInv'
  <1> DEFINE Rows == {e \in Routes \X Objects : e[2] \in Seen(e[1])}
  <1>1. /\ phase = "list" /\ phase' = "commit" /\ UNCHANGED <<inputs, chunks, left, planned>>
        /\ told' = [e \in Rows |-> Select(e)]
        /\ entries' = {e \in Rows : SkipReason(e) = None}
        /\ skipped' = {<<e[1], e[2], SkipReason(e)>> : e \in Rows \ entries'}
    BY DEF List
  <1>2. TypeOK /\ InputsAccepted /\ NothingListed
    BY DEF BuildInv
  <1>3. /\ ValidRoutes' <=> ValidRoutes
        /\ \A e : Select(e)' = Select(e) /\ SkipReason(e)' = SkipReason(e)
        /\ \A o : Owners(o)' = Owners(o)
    BY <1>1, InputsStay
  <1>4. Rows = {e \in Routes \X Objects : e[1] \in Owners(e[2])}
    <2>1. InputsKnown
      BY <1>2 DEF TypeOK, InputsKnown
    <2>2. \A e \in Routes \X Objects : e[2] \in Seen(e[1]) <=> e[1] \in Owners(e[2])
      BY <2>1, SeenByOwners
    <2>3. QED
      BY <2>2
  <1>5. Rows \subseteq Routes \X Objects
    OBVIOUS
  <1> HIDE DEF Rows
  <1>6. \A s \in skipped' : \E e \in Rows : /\ e \notin entries' /\ s = <<e[1], e[2], SkipReason(e)>>
                                          /\ Row(s) = e /\ s[3] = SkipReason(e)
    <2>1. \A e \in Rows : <<e[1], e[2]>> = e
      BY <1>5
    <2>2. QED
      BY <1>1, <2>1 DEF Row
  <1>7. \A e \in Rows : e \notin entries' => \E s \in skipped' : Row(s) = e
    <2>1. ASSUME NEW e \in Rows, e \notin entries' PROVE \E s \in skipped' : Row(s) = e
      <3>1. <<e[1], e[2], SkipReason(e)>> \in skipped' /\ <<e[1], e[2]>> = e
        BY <1>1, <1>5, <2>1
      <3>2. Row(<<e[1], e[2], SkipReason(e)>>) = e
        BY <3>1 DEF Row
      <3>3. QED
        BY <3>1, <3>2
    <2>2. QED
      BY <2>1
  <1>8. \A e \in Rows : e \notin entries' => SkipReason(e) \in Skips /\ SkipReason(e) # "archive size"
    BY <1>1, ReasonType
  <1>9. \A s : Row(s)' = Row(s)
    BY DEF Row
  <1>10. TypeOK'
    <2>1. skipped' \subseteq Routes \X Objects \X Skips
      <3>1. ASSUME NEW s \in skipped' PROVE s \in Routes \X Objects \X Skips
        <4>1. PICK e \in Rows : e \notin entries' /\ s = <<e[1], e[2], SkipReason(e)>>
          BY <1>6
        <4>2. e[1] \in Routes /\ e[2] \in Objects /\ SkipReason(e) \in Skips
          BY <1>5, <1>8, <4>1
        <4>3. QED
          BY <4>1, <4>2
      <3>2. QED
        BY <3>1
    <2>2. entries' \subseteq Routes \X Objects
      BY <1>1, <1>5
    <2>3. QED
      BY <1>1, <1>2, <2>1, <2>2 DEF TypeOK, inputs
  <1>11. InputsAccepted'
    BY <1>1, <1>2, <1>3 DEF InputsAccepted
  <1>12. SelectedSound'
    <2>1. \A e \in DOMAIN told' : told'[e] = Select(e)'
      BY <1>1, <1>3
    <2>2. \A e \in entries' : e \in DOMAIN told' /\ SkipReason(e)' = None
      BY <1>1, <1>3
    <2>3. \A s \in skipped' : Row(s)' \in DOMAIN told' /\ s[3] = SkipReason(Row(s))'
      BY <1>1, <1>3, <1>6, <1>9
    <2>4. QED
      BY <2>1, <2>2, <2>3 DEF SelectedSound
  <1>13. RowsSound'
    <2>1. entries' \cup {Row(s) : s \in skipped'} = Rows
      BY <1>1, <1>6, <1>7
    <2>2. \A s \in skipped' : Row(s) \notin entries'
      BY <1>6
    <2>3. \A s, t \in skipped' : Row(s) = Row(t) => s = t
      BY <1>6
    <2>4. entries' \cup {Row(s)' : s \in skipped'} = {e \in Routes \X Objects : e[1] \in Owners(e[2])'}
      BY <1>3, <1>4, <1>9, <2>1
    <2>5. QED
      BY <1>9, <2>2, <2>3, <2>4 DEF RowsSound
  <1>14. DropsLast'
    BY <1>6, <1>8 DEF DropsLast
  <1>15. NothingListed' /\ ChunksCurrent' /\ PlanSound' /\ DropSound' /\ NoneClash'
    BY <1>1 DEF NothingListed, ChunksCurrent, PlanSound, DropSound, NoneClash
  <1>16. QED
    BY <1>10, <1>11, <1>12, <1>13, <1>14, <1>15 DEF BuildInv

(* A chunk takes what the code reads for it.                               *)
LEMMA RebuiltDivides ==
  ASSUME ObjectsKnown
  PROVE  /\ DOMAIN Rebuilt = Groups
         /\ \A g \in Groups : /\ Rebuilt[g] \in Seq(Chunk) /\ Len(Rebuilt[g]) \in Nat
                             /\ Divides(Members(g), Rebuilt[g])
  <1>1. ASSUME NEW g \in Groups
        PROVE  /\ Rebuilt[g] \in Seq(Chunk) /\ Len(Rebuilt[g]) \in Nat
               /\ Divides(Members(g), Rebuilt[g])
    <2>1. Rebuilt[g] = ChunksOf(g)
      BY DEF Rebuilt
    <2>2. Divides(Members(g), ChunksOf(g))
      BY ChunksDivide
    <2>3. ChunksOf(g) \in Seq(Chunk)
      BY <2>2 DEF Divides
    <2>4. QED
      BY <2>1, <2>2, <2>3
  <1>2. QED
    BY <1>1 DEF Rebuilt

LEMMA CommitStep ==
  ASSUME BuildInv, Commit
  PROVE  BuildInv'
  <1>1. /\ phase = "commit" /\ phase' \in {"refused", "filter"}
        /\ UNCHANGED <<inputs, told, entries, skipped, planned>>
        /\ chunks' = Rebuilt /\ left' = [g \in Groups |-> Len(Rebuilt[g])]
    BY DEF Commit
  <1>2. TypeOK /\ InputsAccepted /\ SelectedSound /\ RowsSound /\ DropsLast
    BY DEF BuildInv
  <1>3. (ValidRoutes' <=> ValidRoutes) /\ Rebuilt' = Rebuilt
    BY <1>1, InputsStay, ChunksStay
  <1>4. /\ DOMAIN Rebuilt = Groups
        /\ \A g \in Groups : Rebuilt[g] \in Seq(Chunk) /\ Len(Rebuilt[g]) \in Nat
    BY <1>2, RebuiltDivides DEF TypeOK, ObjectsKnown
  <1>5. TypeOK'
    BY <1>1, <1>2, <1>4 DEF TypeOK, inputs
  <1>6. InputsAccepted'
    BY <1>1, <1>2, <1>3 DEF InputsAccepted
  <1>7. SelectedSound' /\ RowsSound'
    BY <1>1, <1>2, SelectedStays, RowsStay
  <1>8. ChunksCurrent'
    BY <1>1, <1>3, <1>4 DEF ChunksCurrent
  <1>9. DropsLast'
    BY <1>1, <1>2 DEF DropsLast
  <1>10. NothingListed' /\ PlanSound' /\ DropSound' /\ NoneClash'
    BY <1>1 DEF NothingListed, PlanSound, DropSound, NoneClash
  <1>11. QED
    BY <1>5, <1>6, <1>7, <1>8, <1>9, <1>10 DEF BuildInv

LEMMA FilterStep ==
  ASSUME BuildInv, Filter
  PROVE  BuildInv'
  <1>1. /\ phase = "filter" /\ phase' \in {"drop", "check"}
        /\ UNCHANGED <<inputs, told, entries, skipped, chunks, left>>
        /\ planned' = Plan
        /\ phase' = "check" => \A g \in Groups : \A i \in 1..Len(chunks[g]) : ~TooLarge(Entries(g, i))
    BY DEF Filter
  <1>2. /\ TypeOK /\ InputsAccepted /\ SelectedSound /\ RowsSound /\ ChunksCurrent /\ DropsLast
        /\ ObjectsKnown /\ route' = route
    BY <1>1 DEF BuildInv, TypeOK, ObjectsKnown, inputs
  <1>3. /\ ValidRoutes' <=> ValidRoutes
        /\ Rebuilt' = Rebuilt /\ Groups' = Groups
        /\ \A g : Members(g)' = Members(g)
        /\ \A g, c : Slice(g, c)' = Slice(g, c)
        /\ \A S : TooLarge(S)' <=> TooLarge(S)
        /\ \A g, S : IsPart(g, S)' <=> IsPart(g, S)
    BY <1>1, InputsStay, ChunksStay, WeightsStay, PartsStay
  <1>4. /\ chunks = Rebuilt /\ DOMAIN chunks = Groups /\ \A g \in Groups : Divides(Members(g), chunks[g])
        /\ \A g \in Groups : left[g] = Len(chunks[g]) /\ Len(chunks[g]) \in Nat
    BY <1>1, <1>2, RebuiltDivides DEF ChunksCurrent
  <1>5. /\ DOMAIN planned' = Groups
        /\ \A g \in Groups : /\ DOMAIN planned'[g] = 1..Len(chunks[g])
                            /\ \A i \in 1..Len(chunks[g]) : planned'[g][i] = Entries(g, i)
    BY <1>1 DEF Plan
  <1>6. \A g \in Groups : \A i \in 1..Len(chunks[g]) : ~Dropped(g, i)'
    BY <1>1, <1>3, <1>4, <1>5 DEF Dropped
  <1>7. \A g, i : Entries(g, i) = Cut(Members(g), chunks[g][i])
    BY SliceIsCut DEF Entries
  <1>8. ASSUME NEW g \in Groups
        PROVE  PlannedParts(g)' /\ \A o \in Objects : o \in Members(g)' <=> Keeps(g, o)'
    <2>1. g.route \in Routes /\ route[g.route].mode # "direct"
      <3>1. PICK e \in entries : route[e[1]].mode # "direct" /\ g = GroupOf(e)
        BY DEF Groups
      <3>2. g.route = e[1] /\ e[1] \in Routes
        BY <1>2, <3>1 DEF GroupOf, TypeOK
      <3>3. QED
        BY <3>1, <3>2
    <2>2. Divides(Members(g), chunks[g])
      BY <1>4
    <2>3. \A o \in Members(g) : o \in Objects /\ <<g.route, o>> \in DOMAIN told /\ GroupOf(<<g.route, o>>) = g
      BY <1>2 DEF Members, SelectedSound
    <2>4. ASSUME NEW i \in 1..Len(chunks[g]) PROVE IsPart(g, planned'[g][i])
      <3> DEFINE S == Cut(Members(g), chunks[g][i])
      <3>1. planned'[g][i] = S
        BY <1>5, <1>7
      <3>2. S # {} /\ WithinLimits(S)
        BY <2>2 DEF Divides
      <3>3. S \subseteq Members(g)
        BY DEF Cut
      <3> HIDE DEF S
      <3>4. QED
        BY <2>3, <3>1, <3>2, <3>3 DEF IsPart
    <2>5. \A i \in DOMAIN planned'[g] : IsPart(g, planned[g][i])'
      BY <1>3, <1>5, <2>4
    <2>6. \A i, j \in DOMAIN planned'[g] : i # j => planned'[g][i] \cap planned'[g][j] = {}
      <3>1. \A i \in 1..Len(chunks[g]) : planned'[g][i] = Cut(Members(g), chunks[g][i])
        BY <1>5, <1>7
      <3>2. \A i, j \in 1..Len(chunks[g]) :
              i # j => Cut(Members(g), chunks[g][i]) \cap Cut(Members(g), chunks[g][j]) = {}
        BY <2>2 DEF Divides
      <3>3. \A i, j \in 1..Len(chunks[g]) : i # j => planned'[g][i] \cap planned'[g][j] = {}
        BY <3>1, <3>2
      <3>4. QED
        BY <1>5, <3>3
    <2>7. PlannedParts(g)'
      BY <1>2, <2>1, <2>5, <2>6 DEF PlannedParts
    <2>8. ASSUME NEW o \in Objects PROVE o \in Members(g)' <=> Keeps(g, o)'
      <3>1. o \in Members(g) <=> \E i \in 1..Len(chunks[g]) : o \in Cut(Members(g), chunks[g][i])
        BY <2>2 DEF Divides
      <3>2. Keeps(g, o)' <=> \E i \in 1..Len(chunks[g]) : o \in Cut(Members(g), chunks[g][i])
        BY <1>5, <1>6, <1>7 DEF Keeps
      <3>3. QED
        BY <1>3, <3>1, <3>2
    <2>9. QED
      BY <2>7, <2>8
  <1>9. TypeOK'
    BY <1>1, <1>2 DEF TypeOK, inputs
  <1>10. InputsAccepted'
    BY <1>1, <1>2, <1>3 DEF InputsAccepted
  <1>11. SelectedSound' /\ RowsSound'
    BY <1>1, <1>2, SelectedStays, RowsStay
  <1>12. ChunksCurrent'
    BY <1>1, <1>2, <1>3 DEF ChunksCurrent
  <1>13. PlanSound'
    <2>1. \A g \in Groups, o \in Objects : ~Loses(g, o)'
      BY <1>5, <1>6 DEF Loses
    <2>2. \A r \in Routes, o \in Objects : <<r, o, "archive size">> \notin skipped'
      BY <1>1, <1>2 DEF DropsLast
    <2>3. QED
      BY <1>3, <1>5, <1>8, <2>1, <2>2 DEF PlanSound
  <1>14. DropSound'
    <2>1. ASSUME NEW g \in Groups
          PROVE  /\ \A i \in 1..left[g] : Slice(g, chunks[g][i]) = planned'[g][i]
                 /\ \A i, j \in 1..Len(chunks[g]) :
                      i < j => chunks[g][i].offset + chunks[g][i].length <= chunks[g][j].offset
      BY <1>4, <1>5 DEF Divides, Entries
    <2>2. QED
      BY <1>1, <1>3, <1>4, <1>5, <2>1 DEF DropSound
  <1>15. NothingListed' /\ DropsLast' /\ NoneClash'
    BY <1>1 DEF NothingListed, DropsLast, NoneClash
  <1>16. QED
    BY <1>9, <1>10, <1>11, <1>12, <1>13, <1>14, <1>15 DEF BuildInv

LEMMA FinishDropStep ==
  ASSUME BuildInv, FinishDrop
  PROVE  BuildInv'
  <1>1. /\ phase = "drop" /\ phase' = "check" /\ \A g \in DOMAIN left : left[g] = 0
        /\ UNCHANGED <<inputs, told, entries, skipped, planned>>
        /\ chunks' = Rebuilt /\ left' = [g \in Groups |-> 0]
    BY DEF FinishDrop
  <1>2. TypeOK /\ InputsAccepted /\ SelectedSound /\ RowsSound /\ PlanSound /\ DropSound /\ ObjectsKnown
    BY DEF BuildInv, TypeOK, ObjectsKnown
  <1>3. (ValidRoutes' <=> ValidRoutes) /\ Rebuilt' = Rebuilt
    BY <1>1, InputsStay, ChunksStay
  <1>4. /\ DOMAIN Rebuilt = Groups
        /\ \A g \in Groups : Rebuilt[g] \in Seq(Chunk) /\ Len(Rebuilt[g]) \in Nat
    BY <1>2, RebuiltDivides
  <1>5. TypeOK'
    BY <1>1, <1>2, <1>4 DEF TypeOK, inputs
  <1>6. InputsAccepted'
    BY <1>1, <1>2, <1>3 DEF InputsAccepted
  <1>7. SelectedSound' /\ RowsSound'
    BY <1>1, <1>2, SelectedStays, RowsStay
  <1>8. ChunksCurrent'
    BY <1>1, <1>3 DEF ChunksCurrent
  <1>9. PlanSound'
    <2>1. \A S : TooLarge(S)' <=> TooLarge(S)
      BY <1>1, WeightsStay
    <2>2. ASSUME NEW g \in DOMAIN planned, NEW i \in DOMAIN planned[g] PROVE Dropped(g, i)' <=> Dropped(g, i)
      <3>1. DOMAIN planned[g] = 1..Len(chunks[g]) /\ left[g] = 0 /\ i > left[g]
        BY <1>1, <1>2 DEF DropSound, TypeOK
      <3>2. QED
        BY <1>1, <2>1, <3>1 DEF Dropped
    <2>3. QED
      BY <1>1, <1>2, <2>2, PlanStays
  <1>10. NothingListed' /\ DropsLast' /\ DropSound' /\ NoneClash'
    BY <1>1 DEF NothingListed, DropsLast, DropSound, NoneClash
  <1>11. QED
    BY <1>5, <1>6, <1>7, <1>8, <1>9, <1>10 DEF BuildInv

LEMMA DropChunkStep ==
  ASSUME BuildInv, NEW g \in DOMAIN left, DropChunk(g)
  PROVE  BuildInv'
  <1> DEFINE n == left[g]
             S == planned[g][n]
             Gone == IF TooLarge(S) THEN S ELSE {}
  <1>1. /\ TypeOK /\ InputsAccepted /\ SelectedSound /\ RowsSound /\ PlanSound /\ DropSound
        /\ ObjectsKnown /\ phase = "drop" /\ phase' = "drop"
    BY DEF BuildInv, TypeOK, ObjectsKnown, DropChunk
  <1>2. /\ g \in DOMAIN chunks /\ g \in DOMAIN planned
        /\ chunks[g] \in Seq(Chunk) /\ Len(chunks[g]) \in Nat
        /\ n \in 1..Len(chunks[g]) /\ n - 1 \in 0..Len(chunks[g]) /\ n \in 1..n
        /\ DOMAIN planned[g] = 1..Len(chunks[g])
    <2>1. g \in DOMAIN chunks /\ chunks[g] \in Seq(Chunk) /\ n \in 0..Len(chunks[g]) /\ n > 0
      BY <1>1 DEF TypeOK, DropChunk
    <2>2. g \in DOMAIN planned /\ DOMAIN planned[g] = 1..Len(chunks[g])
      BY <1>1, <2>1 DEF DropSound
    <2>3. QED
      BY <2>1, <2>2
  <1>3. Slice(g, chunks[g][n]) = S
    BY <1>1, <1>2 DEF DropSound
  <1>4. /\ left' = [left EXCEPT ![g] = n - 1]
        /\ entries' = entries \ {<<g.route, o>> : o \in Gone}
        /\ skipped' = skipped \cup {<<g.route, o, "archive size">> : o \in Gone}
        /\ UNCHANGED <<inputs, phase, told, chunks, planned>>
    BY <1>3 DEF DropChunk
  <1>5. /\ g.route \in Routes /\ S \subseteq Objects
        /\ \A o \in S : <<g.route, o>> \in DOMAIN told /\ GroupOf(<<g.route, o>>) = g
        /\ S \subseteq Members(g)
    <2>1. PlannedParts(g)
      BY <1>1, <1>2 DEF PlanSound
    <2>2. g.route \in Routes /\ IsPart(g, S)
      BY <1>2, <2>1 DEF PlannedParts
    <2>3. S \subseteq Members(g)
      BY <1>3 DEF Slice
    <2>4. QED
      BY <2>2, <2>3 DEF IsPart
  <1>6. Gone \subseteq S
    OBVIOUS
  <1> HIDE DEF S, Gone, n
  <1>7. \A o \in Gone : <<g.route, o>> \in entries
    BY <1>5, <1>6 DEF Members
  <1>8. /\ ValidRoutes' <=> ValidRoutes
        /\ \A e : Select(e)' = Select(e) /\ SkipReason(e)' = SkipReason(e) /\ GroupOf(e)' = GroupOf(e)
        /\ \A o : Owners(o)' = Owners(o)
        /\ \A T : TooLarge(T)' <=> TooLarge(T)
        /\ \A h, T : IsPart(h, T)' <=> IsPart(h, T)
        /\ route' = route
    BY <1>4, InputsStay, GroupsStay, WeightsStay, PartsStay DEF inputs
  <1>9. \A h : Members(h)' = Members(h) \ (IF h = g THEN Gone ELSE {})
    <2>1. ASSUME NEW h, NEW o \in Members(h)
          PROVE  <<h.route, o>> \in entries' <=> ~(h = g /\ o \in Gone)
      <3>1. <<h.route, o>> \in entries /\ GroupOf(<<h.route, o>>) = h
        BY DEF Members
      <3>2. <<h.route, o>> \in {<<g.route, p>> : p \in Gone} => h.route = g.route /\ o \in Gone
        OBVIOUS
      <3>3. h.route = g.route /\ o \in Gone => h = g
        BY <1>5, <1>6, <3>1
      <3>4. QED
        BY <1>4, <3>1, <3>2, <3>3
    <2>2. entries' \subseteq entries
      BY <1>4
    <2>3. \A h : Members(h)' = {o \in Objects : <<h.route, o>> \in entries' /\ GroupOf(<<h.route, o>>) = h}
      BY <1>8 DEF Members
    <2>4. QED
      BY <2>1, <2>2, <2>3 DEF Members
  <1>10. /\ \A s : Row(s)' = Row(s)
         /\ \A s : s \in skipped' <=> s \in skipped \/ \E o \in Gone : s = <<g.route, o, "archive size">>
    BY <1>4 DEF Row
  <1>11. TypeOK'
    <2>1. "archive size" \in Skips /\ \A o \in Gone : o \in Objects
      BY <1>5, <1>6 DEF Skips
    <2>2. skipped' \subseteq Routes \X Objects \X Skips
      <3>1. \A o \in Gone : <<g.route, o, "archive size">> \in Routes \X Objects \X Skips
        BY <1>5, <2>1
      <3>2. \A s \in skipped : s \in Routes \X Objects \X Skips
        BY <1>1 DEF TypeOK
      <3>3. QED
        BY <1>10, <3>1, <3>2
    <2>3. DOMAIN left' = DOMAIN chunks /\ \A h \in DOMAIN chunks : left'[h] \in 0..Len(chunks[h])
      BY <1>1, <1>2, <1>4 DEF TypeOK
    <2>4. QED
      BY <1>1, <1>4, <2>2, <2>3 DEF TypeOK, inputs
  <1>12. InputsAccepted'
    BY <1>1, <1>8 DEF InputsAccepted
  <1>13. SelectedSound'
    <2>1. ASSUME NEW s \in skipped'
          PROVE  Row(s) \in DOMAIN told /\ (s[3] # "archive size" => s[3] = SkipReason(Row(s)))
      <3>1. CASE s \in skipped
        BY <1>1, <3>1 DEF SelectedSound
      <3>2. CASE s \notin skipped
        <4>1. PICK o \in Gone : s = <<g.route, o, "archive size">>
          BY <1>4, <3>2
        <4>2. Row(s) = <<g.route, o>> /\ s[3] = "archive size"
          BY <4>1 DEF Row
        <4>3. QED
          BY <1>5, <1>6, <4>2
      <3>3. QED
        BY <3>1, <3>2
    <2>2. QED
      BY <1>1, <1>4, <1>8, <1>10, <2>1 DEF SelectedSound
  <1>14. RowsSound'
    <2> DEFINE Moved == {<<g.route, o>> : o \in Gone}
    <2>1. entries' = entries \ Moved /\ Moved \subseteq entries
      BY <1>4, <1>7
    <2>2. \A o \in Gone : LET s == <<g.route, o, "archive size">> IN s \in skipped' /\ Row(s) = <<g.route, o>>
      BY <1>10 DEF Row
    <2>5. ASSUME NEW s \in skipped', s \notin skipped PROVE Row(s) \in Moved
      <3>1. PICK o \in Gone : s = <<g.route, o, "archive size">>
        BY <1>10, <2>5
      <3>2. Row(s) = <<g.route, o>>
        BY <2>2, <3>1
      <3>3. QED
        BY <3>2
    <2>3. {Row(s) : s \in skipped'} = {Row(s) : s \in skipped} \cup Moved
      <3>1. ASSUME NEW s \in skipped' PROVE Row(s) \in {Row(t) : t \in skipped} \cup Moved
        BY <2>5
      <3>2. ASSUME NEW s \in skipped PROVE Row(s) \in {Row(t) : t \in skipped'}
        BY <1>10
      <3>3. ASSUME NEW o \in Gone PROVE <<g.route, o>> \in {Row(t) : t \in skipped'}
        BY <2>2
      <3>4. QED
        BY <3>1, <3>2, <3>3
    <2>4. /\ entries \cup {Row(s) : s \in skipped} = {e \in Routes \X Objects : e[1] \in Owners(e[2])}
          /\ \A s \in skipped : Row(s) \notin entries
          /\ \A s, t \in skipped : Row(s) = Row(t) => s = t
      BY <1>1 DEF RowsSound
    <2>6. \A s \in skipped' : Row(s) \notin entries'
      BY <2>1, <2>4, <2>5
    <2>7. \A s, t \in skipped' : Row(s) = Row(t) => s = t
      <3>1. ASSUME NEW s \in skipped', NEW t \in skipped', Row(s) = Row(t) PROVE s = t
        <4>1. CASE s \in skipped /\ t \in skipped
          BY <2>4, <3>1, <4>1
        <4>2. CASE s \notin skipped /\ t \notin skipped
          <5>1. PICK o \in Gone : s = <<g.route, o, "archive size">>
            BY <1>10, <4>2
          <5>2. PICK p \in Gone : t = <<g.route, p, "archive size">>
            BY <1>10, <4>2
          <5>3. <<g.route, o>> = <<g.route, p>>
            BY <2>2, <3>1, <5>1, <5>2
          <5>4. QED
            BY <5>1, <5>2, <5>3
        <4>3. CASE s \in skipped /\ t \notin skipped
          BY <2>1, <2>4, <2>5, <3>1, <4>3
        <4>4. CASE s \notin skipped /\ t \in skipped
          BY <2>1, <2>4, <2>5, <3>1, <4>4
        <4>5. QED
          BY <4>1, <4>2, <4>3, <4>4
      <3>2. QED
        BY <3>1
    <2>8. entries' \cup {Row(s) : s \in skipped'} = {e \in Routes \X Objects : e[1] \in Owners(e[2])}
      BY <2>1, <2>3, <2>4
    <2>9. entries' \cup {Row(s)' : s \in skipped'} = {e \in Routes \X Objects : e[1] \in Owners(e[2])'}
      BY <1>8, <1>10, <2>8
    <2>10. QED
      BY <1>10, <2>6, <2>7, <2>9 DEF RowsSound
  <1>15. /\ DOMAIN planned = DOMAIN chunks /\ DOMAIN planned = DOMAIN left
         /\ \A h \in DOMAIN planned : DOMAIN planned[h] = 1..Len(chunks[h]) /\ left[h] \in Nat
         /\ \A h \in DOMAIN planned : h # g => left'[h] = left[h]
         /\ left'[g] = n - 1 /\ left[g] = n /\ n \in Nat
    <2>1. DOMAIN planned = DOMAIN chunks /\ DOMAIN planned = DOMAIN left
      BY <1>1 DEF DropSound, TypeOK
    <2>2. \A h \in DOMAIN planned : DOMAIN planned[h] = 1..Len(chunks[h])
      BY <1>1 DEF DropSound
    <2>3. \A h \in DOMAIN planned : left[h] \in Nat
      <3>1. \A h \in DOMAIN chunks : left[h] \in 0..Len(chunks[h]) /\ chunks[h] \in Seq(Chunk)
        BY <1>1 DEF TypeOK
      <3>2. QED
        BY <2>1, <3>1
    <2>4. \A h \in DOMAIN planned : left'[h] = IF h = g THEN n - 1 ELSE left[h]
      BY <1>4, <2>1
    <2>5. left[g] = n
      BY DEF n
    <2>6. QED
      BY <1>2, <2>1, <2>2, <2>3, <2>4, <2>5
  <1>16. \A h \in DOMAIN planned : \A i \in DOMAIN planned[h] :
           Dropped(h, i)' <=> Dropped(h, i) \/ (h = g /\ i = n /\ TooLarge(S))
    <2>1. ASSUME NEW h \in DOMAIN planned, NEW i \in DOMAIN planned[h]
          PROVE  Dropped(h, i)' <=> Dropped(h, i) \/ (h = g /\ i = n /\ TooLarge(S))
      <3>1. Dropped(h, i) <=> i > left[h] /\ TooLarge(planned[h][i])
        BY <1>1 DEF Dropped
      <3>2. Dropped(h, i)' <=> i > left'[h] /\ TooLarge(planned[h][i])
        BY <1>1, <1>4, <1>8 DEF Dropped
      <3>3. CASE h # g
        BY <1>15, <3>1, <3>2, <3>3
      <3>4. CASE h = g
        <4>1. left'[h] = n - 1 /\ left[h] = n /\ i \in Nat /\ n \in Nat
          BY <1>15, <2>1, <3>4
        <4>2. i > n - 1 <=> i > n \/ i = n
          BY <4>1
        <4>3. i = n => planned[h][i] = S
          BY <3>4 DEF S
        <4>4. QED
          BY <3>1, <3>2, <3>4, <4>1, <4>2, <4>3
      <3>5. QED
        BY <3>3, <3>4
    <2>2. QED
      BY <2>1
  <1>17. PlanSound'
    <2>1. Groups' \subseteq DOMAIN planned
      <3>1. Groups' = {GroupOf(e) : e \in {e \in entries' : route[e[1]].mode # "direct"}}
        BY <1>8 DEF Groups
      <3>2. Groups' \subseteq Groups
        BY <1>4, <3>1 DEF Groups
      <3>3. QED
        BY <1>1, <3>2 DEF PlanSound
    <2>2. \A h \in DOMAIN planned : PlannedParts(h)'
      BY <1>1, <1>4, <1>8 DEF PlanSound, PlannedParts
    <2>3. \A i \in DOMAIN planned[g] : i # n => planned[g][i] \cap S = {}
      BY <1>1, <1>2 DEF PlanSound, PlannedParts, S
    <2>4. ASSUME NEW h \in DOMAIN planned, NEW o \in Objects
          PROVE  /\ o \in Members(h)' <=> Keeps(h, o)'
                 /\ Loses(h, o)' <=> Loses(h, o) \/ (h = g /\ o \in Gone)
      <3>1. /\ o \in Members(h) <=> Keeps(h, o)
            /\ o \in Members(h)' <=> o \in Members(h) /\ ~(h = g /\ o \in Gone)
        BY <1>1, <1>9 DEF PlanSound
      <3> DEFINE Falls(i) == h = g /\ i = n /\ TooLarge(S)
      <3>2. \A i \in DOMAIN planned[h] : Dropped(h, i)' <=> Dropped(h, i) \/ Falls(i)
        BY <1>16
      <3> HIDE DEF Falls
      <3>5. /\ Keeps(h, o)' <=> \E i \in DOMAIN planned[h] : o \in planned[h][i] /\ ~Dropped(h, i) /\ ~Falls(i)
            /\ Loses(h, o)' <=> \E i \in DOMAIN planned[h] : o \in planned[h][i] /\ (Dropped(h, i) \/ Falls(i))
        BY <1>4, <3>2 DEF Keeps, Loses
      <3>3. CASE h # g
        BY <3>1, <3>3, <3>5 DEF Keeps, Loses, Falls
      <3>4. CASE h = g
        <4>1. o \in Gone <=> TooLarge(S) /\ o \in S
          BY DEF Gone
        <4>2. S = planned[g][n] /\ n \in DOMAIN planned[g] /\ \A i : Falls(i) <=> i = n /\ TooLarge(S)
          BY <1>2, <3>4 DEF S, Falls
        <4>3. Loses(h, o)' <=> Loses(h, o) \/ o \in Gone
          BY <3>4, <3>5, <4>1, <4>2 DEF Loses
        <4>4. ASSUME o \in Members(h)' PROVE Keeps(h, o)'
          <5>1. PICK i \in DOMAIN planned[h] : o \in planned[h][i] /\ ~Dropped(h, i)
            BY <3>1, <4>4 DEF Keeps
          <5>2. ~Falls(i)
            BY <3>1, <3>4, <4>1, <4>2, <4>4, <5>1
          <5>3. QED
            BY <3>5, <5>1, <5>2
        <4>5. ASSUME Keeps(h, o)' PROVE o \in Members(h)'
          <5>1. PICK i \in DOMAIN planned[h] : o \in planned[h][i] /\ ~Dropped(h, i) /\ ~Falls(i)
            BY <3>5, <4>5
          <5>2. o \in Members(h)
            BY <3>1, <5>1 DEF Keeps
          <5>3. o \notin Gone
            BY <2>3, <3>4, <4>1, <4>2, <5>1
          <5>4. QED
            BY <3>1, <5>2, <5>3
        <4>6. QED
          BY <3>4, <4>3, <4>4, <4>5
      <3>6. QED
        BY <3>3, <3>4
    <2>5. ASSUME NEW r \in Routes, NEW o \in Objects
          PROVE  <<r, o, "archive size">> \in skipped' <=>
                   \E h \in DOMAIN planned : h.route = r /\ Loses(h, o)'
      <3>1. <<r, o, "archive size">> \in skipped' <=>
              <<r, o, "archive size">> \in skipped \/ (r = g.route /\ o \in Gone)
        BY <1>4
      <3>2. <<r, o, "archive size">> \in skipped <=> \E h \in DOMAIN planned : h.route = r /\ Loses(h, o)
        BY <1>1 DEF PlanSound
      <3>3. QED
        BY <1>2, <2>4, <3>1, <3>2
    <2>6. QED
      BY <1>4, <2>1, <2>2, <2>4, <2>5 DEF PlanSound
  <1>18. DropSound'
    <2>1. \A h : Members(h) \in SUBSET Nat /\ IsFiniteSet(Members(h))
      BY <1>1, MembersType
    <2>2. \A h, c : Slice(h, c) = Cut(Members(h), c) /\ Slice(h, c)' = Cut(Members(h)', c)
      <3>1. \A h, c : Slice(h, c)' = Cut(Members(h)', c)
        BY DEF Slice, Cut, Rank, Span, Below
      <3>2. QED
        BY <3>1, SliceIsCut
    <2>3. ASSUME NEW h \in DOMAIN planned, NEW i \in 1..left'[h]
          PROVE  Slice(h, chunks[h][i])' = planned[h][i]
      <3>1. CASE h # g
        <4>1. Members(h)' = Members(h)
          BY <1>9, <3>1
        <4>2. Slice(h, chunks[h][i])' = Slice(h, chunks[h][i])
          BY <1>4, <2>2, <4>1
        <4>3. i \in 1..left[h]
          BY <1>15, <2>3, <3>1
        <4>4. QED
          BY <1>1, <4>2, <4>3 DEF DropSound
      <3>2. CASE h = g
        <4> DEFINE c == chunks[g][i]
                   d == chunks[g][n]
        <4>1. i \in 1..n /\ i \in 1..Len(chunks[g]) /\ i < n
          <5>1. i \in 1..(n - 1) /\ n \in Nat
            BY <1>15, <2>3, <3>2
          <5>2. QED
            BY <1>2, <5>1
        <4>2. c \in Chunk /\ d \in Chunk /\ c.offset + c.length <= d.offset
          BY <1>1, <1>2, <4>1 DEF DropSound
        <4>3. Slice(g, c) = planned[g][i]
          BY <1>1, <1>2, <4>1 DEF DropSound, n
        <4>4. S = Cut(Members(g), d)
          BY <1>3, <2>2
        <4> HIDE DEF c, d
        <4>5. Cut(Members(g) \ Cut(Members(g), d), c) = Cut(Members(g), c)
          BY <2>1, <4>2, CutStays
        <4>6. Members(g)' = Members(g) \ Gone
          BY <1>9
        <4>7. CASE TooLarge(S)
          <5>1. Gone = Cut(Members(g), d)
            BY <4>4, <4>7 DEF Gone
          <5>2. Slice(g, c)' = Cut(Members(g)', c)
            BY <2>2, <1>4 DEF c
          <5>4. Cut(Members(g)', c) = Cut(Members(g), c)
            BY <4>5, <4>6, <5>1
          <5>3. QED
            BY <1>4, <2>2, <3>2, <4>3, <5>2, <5>4 DEF c
        <4>8. CASE ~TooLarge(S)
          <5>1. Members(g)' = Members(g)
            BY <4>6, <4>8 DEF Gone
          <5>2. QED
            BY <1>4, <2>2, <3>2, <4>3, <5>1 DEF c
        <4>9. QED
          BY <4>7, <4>8
      <3>3. QED
        BY <3>1, <3>2
    <2>4. \A h \in DOMAIN planned' : \A i \in 1..left'[h] : Slice(h, chunks[h][i])' = planned'[h][i]
      BY <1>4, <2>3
    <2>5. QED
      BY <1>1, <1>4, <2>4 DEF DropSound
  <1>19. NothingListed' /\ ChunksCurrent' /\ DropsLast' /\ NoneClash'
    BY <1>1 DEF NothingListed, ChunksCurrent, DropsLast, NoneClash
  <1>20. QED
    BY <1>11, <1>12, <1>13, <1>14, <1>17, <1>18, <1>19 DEF BuildInv

LEMMA BuildStutter ==
  ASSUME BuildInv, UNCHANGED vars
  PROVE  BuildInv'
  <1> USE DEF BuildInv
  <1>1. /\ phase' = phase /\ UNCHANGED inputs /\ told' = told /\ entries' = entries /\ skipped' = skipped
        /\ chunks' = chunks /\ left' = left /\ planned' = planned
    BY DEF vars
  <1>2. /\ (ValidRoutes' <=> ValidRoutes) /\ Rebuilt' = Rebuilt
        /\ \A g, c : Slice(g, c)' = Slice(g, c)
        /\ \A S : TooLarge(S)' <=> TooLarge(S)
    BY <1>1, InputsStay, ChunksStay, WeightsStay
  <1>3. TypeOK' /\ InputsAccepted'
    BY <1>1, <1>2 DEF TypeOK, inputs, InputsAccepted
  <1>4. NothingListed'
    BY <1>1 DEF NothingListed, Empty
  <1>5. SelectedSound'
    BY <1>1, SelectedStays
  <1>6. RowsSound'
    BY <1>1, RowsStay DEF RowsSound
  <1>7. ChunksCurrent' /\ DropsLast'
    BY <1>1, <1>2 DEF ChunksCurrent, DropsLast
  <1>8. PlanSound'
    <2>1. CASE phase \in {"drop", "check", "built"}
      <3>1. \A g, i : Dropped(g, i)' <=> Dropped(g, i)
        BY <1>1, <1>2 DEF Dropped
      <3>2. QED
        BY <1>1, <2>1, <3>1, PlanStays
    <2>2. CASE phase \notin {"drop", "check", "built"}
      BY <1>1, <2>2 DEF PlanSound
    <2>3. QED
      BY <2>1, <2>2
  <1>9. DropSound' /\ NoneClash'
    BY <1>1, <1>2, ClashesStay DEF DropSound, NoneClash
  <1>10. QED
    BY <1>3, <1>4, <1>5, <1>6, <1>7, <1>8, <1>9

LEMMA BuildNext ==
  ASSUME BuildInv, Next
  PROVE  BuildInv'
  <1>1. CASE Load
    <2>1. phase = "load" /\ UNCHANGED <<inputs, told, entries, skipped, chunks, left, planned>>
      BY <1>1 DEF Load
    <2>2. phase' = "refused" \/ (phase' = "health" /\ ValidRoutes /\ IsRange(From, To))
      BY <1>1 DEF Load
    <2>3. QED
      BY <2>1, <2>2, PhaseStep
  <1>2. CASE CheckHealth
    BY <1>2, PhaseStep DEF CheckHealth
  <1>3. CASE List
    BY <1>3, ListStep
  <1>4. CASE FailToList
    BY <1>4, PhaseStep DEF FailToList
  <1>5. CASE Commit
    BY <1>5, CommitStep
  <1>6. CASE Filter
    BY <1>6, FilterStep
  <1>7. CASE FinishDrop
    BY <1>7, FinishDropStep
  <1>8. CASE CheckDestinations
    BY <1>8, PhaseStep DEF CheckDestinations
  <1>9. CASE \E g \in DOMAIN left : DropChunk(g)
    BY <1>9, DropChunkStep
  <1>10. QED
    BY <1>1, <1>2, <1>3, <1>4, <1>5, <1>6, <1>7, <1>8, <1>9 DEF Next

(* In every state of the build the tables fit together: what is listed     *)
(* came from the deepest route above it, what is left of each group is the *)
(* chunks planned for it that were not dropped, and the slices still to be *)
(* looked at hold what was planned for them                                *)
(* (_archive_manifest_builder.py, _archive_manifest_drop.py).              *)
THEOREM ManifestInvariant == Spec => []BuildInv
  <1>1. BuildInv /\ [Next]_vars => BuildInv'
    BY BuildNext, BuildStutter
  <1>2. QED
    BY InitBuild, <1>1, PTL DEF Spec

-----------------------------------------------------------------------------
(* What the manifest accounts for                                          *)

LEMMA InvariantAccounts == BuildInv => AccountedFor
  <1> SUFFICES ASSUME BuildInv, phase \notin {"load", "health", "list", "refused"}, NEW o \in Objects
               PROVE  LET E == {e \in entries : e[2] = o}
                          S == {s \in skipped : s[2] = o}
                      IN  /\ {e[1] : e \in E} \cup {s[1] : s \in S} = Owners(o)
                          /\ Cardinality(E) + Cardinality(S) = Cardinality(Owners(o))
    BY DEF AccountedFor
  <1> DEFINE E == {e \in entries : e[2] = o}
             S == {s \in skipped : s[2] = o}
  <1>1. /\ entries \subseteq Routes \X Objects /\ skipped \subseteq Routes \X Objects \X Skips
        /\ StorageApart /\ InputsKnown
    BY DEF BuildInv, TypeOK, InputsAccepted, ValidRoutes, InputsKnown
  <1>2. /\ entries \cup {Row(s) : s \in skipped} = {e \in Routes \X Objects : e[1] \in Owners(e[2])}
        /\ \A s \in skipped : Row(s) \notin entries
        /\ \A s, t \in skipped : Row(s) = Row(t) => s = t
    BY DEF BuildInv, RowsSound
  <1>3. \A e \in E : e[1] \in Owners(o) /\ e = <<e[1], o>>
    <2>1. ASSUME NEW e \in E PROVE e[1] \in Owners(o) /\ e = <<e[1], o>>
      <3>1. e \in Routes \X Objects /\ e[2] = o
        BY <1>1
      <3>2. e[1] \in Owners(e[2])
        BY <1>2
      <3>3. QED
        BY <3>1, <3>2
    <2>2. QED
      BY <2>1
  <1>4. \A s \in S : s[1] \in Owners(o) /\ Row(s) = <<s[1], o>>
    <2>1. ASSUME NEW s \in S PROVE s[1] \in Owners(o) /\ Row(s) = <<s[1], o>>
      <3>1. Row(s) = <<s[1], o>>
        BY DEF Row
      <3>2. Row(s) \in {e \in Routes \X Objects : e[1] \in Owners(e[2])}
        BY <1>2
      <3>3. QED
        BY <3>1, <3>2
    <2>2. QED
      BY <2>1
  <1>5. \A r \in Owners(o) : <<r, o>> \in E \/ \E s \in S : Row(s) = <<r, o>> /\ s[1] = r
    <2>1. ASSUME NEW r \in Owners(o) PROVE <<r, o>> \in E \/ \E s \in S : Row(s) = <<r, o>> /\ s[1] = r
      <3>1. r \in Routes /\ <<r, o>> \in {e \in Routes \X Objects : e[1] \in Owners(e[2])}
        BY DEF Owners
      <3>2. CASE <<r, o>> \in entries
        BY <3>2
      <3>3. CASE <<r, o>> \notin entries
        <4>1. PICK s \in skipped : Row(s) = <<r, o>>
          BY <1>2, <3>1, <3>3
        <4>2. s[1] = r /\ s[2] = o
          BY <4>1 DEF Row
        <4>3. QED
          BY <4>1, <4>2
      <3>4. QED
        BY <3>2, <3>3
    <2>2. QED
      BY <2>1
  <1>6. \A e \in E, s \in S : e # Row(s)
    BY <1>2
  <1>7. \A s, t \in S : Row(s) = Row(t) => s = t
    BY <1>2
  <1>8. \A r, s \in Owners(o) : r = s
    BY <1>1, OneOwner
  <1> HIDE DEF E, S
  <1>9. {e[1] : e \in E} \cup {s[1] : s \in S} = Owners(o)
    <2>1. {e[1] : e \in E} \cup {s[1] : s \in S} \subseteq Owners(o)
      BY <1>3, <1>4
    <2>2. ASSUME NEW r \in Owners(o) PROVE r \in {e[1] : e \in E} \cup {s[1] : s \in S}
      <3>1. CASE <<r, o>> \in E
        <4>1. <<r, o>>[1] = r
          OBVIOUS
        <4>2. QED
          BY <3>1, <4>1
      <3>2. CASE \E s \in S : Row(s) = <<r, o>> /\ s[1] = r
        BY <3>2
      <3>3. QED
        BY <1>5, <3>1, <3>2
    <2>3. QED
      BY <2>1, <2>2
  <1>10. Cardinality(E) + Cardinality(S) = Cardinality(Owners(o))
    <2>1. CASE Owners(o) = {}
      <3>1. E = {} /\ S = {}
        BY <1>3, <1>4, <2>1
      <3>2. QED
        BY <2>1, <3>1, FS_EmptySet
    <2>2. CASE Owners(o) # {}
      <3>1. PICK r : r \in Owners(o)
        BY <2>2
      <3>2. Owners(o) = {r} /\ \A e \in E : e = <<r, o>> /\ \A s \in S : Row(s) = <<r, o>>
        BY <1>3, <1>4, <1>8, <3>1
      <3>3. CASE <<r, o>> \in E
        <4>1. E = {<<r, o>>} /\ S = {}
          BY <1>3, <1>4, <1>6, <1>8, <3>1, <3>3
        <4>2. Cardinality(E) = 1 /\ Cardinality(S) = 0 /\ Cardinality(Owners(o)) = 1
          BY <3>2, <4>1, FS_EmptySet, FS_Singleton
        <4>3. QED
          BY <4>2
      <3>4. CASE <<r, o>> \notin E
        <4>1. PICK s \in S : Row(s) = <<r, o>>
          BY <1>5, <3>1, <3>4
        <4>2. E = {}
          BY <1>3, <1>8, <3>1, <3>4
        <4>3. S = {s}
          BY <1>4, <1>7, <1>8, <3>1, <4>1
        <4>4. Cardinality(E) = 0 /\ Cardinality(S) = 1 /\ Cardinality(Owners(o)) = 1
          BY <3>2, <4>2, <4>3, FS_EmptySet, FS_Singleton
        <4>5. QED
          BY <4>4
      <3>5. QED
        BY <3>3, <3>4
    <2>3. QED
      BY <2>1, <2>2
  <1>11. QED
    BY <1>9, <1>10 DEF E, S

(* Every object below a route's path is in the manifest or in the skip     *)
(* report, once, under the deepest of the routes it is below.              *)
THEOREM ObjectsAccountedFor == Spec => []AccountedFor
  BY ManifestInvariant, InvariantAccounts, PTL

LEMMA EntriesAreCuts == \A g, i : Entries(g, i) = Cut(Members(g), chunks[g][i])
  BY SliceIsCut DEF Entries

LEMMA CurrentDivides ==
  ASSUME BuildInv, phase \in {"filter", "check", "built"}
  PROVE  DOMAIN chunks = Groups /\ \A g \in Groups : Divides(Members(g), chunks[g]) /\ Len(chunks[g]) \in Nat
  <1>1. chunks = Rebuilt /\ ObjectsKnown
    BY DEF BuildInv, ChunksCurrent, TypeOK, ObjectsKnown
  <1>2. QED
    BY <1>1, RebuiltDivides

LEMMA InvariantCovers == BuildInv => ChunksCover
  <1> SUFFICES ASSUME BuildInv, phase \in {"filter", "check", "built"}
               PROVE  /\ DOMAIN chunks = Groups
                      /\ \A g \in Groups :
                           LET Parts == [i \in 1..Len(chunks[g]) |-> Entries(g, i)] IN
                           /\ Members(g) = UNION {Parts[i] : i \in DOMAIN Parts}
                           /\ \A i, j \in DOMAIN Parts : i # j => Parts[i] \cap Parts[j] = {}
                           /\ \A i \in DOMAIN Parts : WithinLimits(Parts[i])
    BY DEF ChunksCover
  <1>1. DOMAIN chunks = Groups
    BY CurrentDivides
  <1>2. ASSUME NEW g \in Groups
        PROVE  LET Parts == [i \in 1..Len(chunks[g]) |-> Entries(g, i)] IN
               /\ Members(g) = UNION {Parts[i] : i \in DOMAIN Parts}
               /\ \A i, j \in DOMAIN Parts : i # j => Parts[i] \cap Parts[j] = {}
               /\ \A i \in DOMAIN Parts : WithinLimits(Parts[i])
    <2> DEFINE Parts == [i \in 1..Len(chunks[g]) |-> Entries(g, i)]
    <2>1. Divides(Members(g), chunks[g])
      BY CurrentDivides
    <2>2. DOMAIN Parts = 1..Len(chunks[g]) /\ \A i \in 1..Len(chunks[g]) : Parts[i] = Cut(Members(g), chunks[g][i])
      BY EntriesAreCuts
    <2> HIDE DEF Parts
    <2>3. Members(g) = UNION {Parts[i] : i \in DOMAIN Parts}
      <3>1. Members(g) = UNION {Cut(Members(g), chunks[g][i]) : i \in 1..Len(chunks[g])}
        BY <2>1 DEF Divides
      <3>2. {Cut(Members(g), chunks[g][i]) : i \in 1..Len(chunks[g])} = {Parts[i] : i \in DOMAIN Parts}
        BY <2>2
      <3>3. QED
        BY <3>1, <3>2
    <2>4. \A i, j \in DOMAIN Parts : i # j => Parts[i] \cap Parts[j] = {}
      <3>1. \A i, j \in 1..Len(chunks[g]) :
              i # j => Cut(Members(g), chunks[g][i]) \cap Cut(Members(g), chunks[g][j]) = {}
        BY <2>1 DEF Divides
      <3>2. QED
        BY <2>2, <3>1
    <2>5. \A i \in DOMAIN Parts : WithinLimits(Parts[i])
      <3>1. \A i \in 1..Len(chunks[g]) : WithinLimits(Cut(Members(g), chunks[g][i]))
        BY <2>1 DEF Divides
      <3>2. QED
        BY <2>2, <3>1
    <2>6. QED
      BY <2>3, <2>4, <2>5 DEF Parts
  <1>3. QED
    BY <1>1, <1>2

(* Whatever the listing and the limits, the slices that the copy phase     *)
(* reads cover each group without overlap, and none exceeds the limits     *)
(* unless it is a single object.                                           *)
THEOREM SlicesCover == Spec => []ChunksCover
  BY ManifestInvariant, InvariantCovers, PTL

LEMMA InvariantDrops == BuildInv => DropsPlannedChunks
  <1> SUFFICES ASSUME BuildInv, phase \in {"check", "built"}
               PROVE  {<<s[1], s[2]>> : s \in {s \in skipped : s[3] = "archive size"}} =
                        UNION {{<<g.route, o>> : o \in UNION {S \in {planned[g][i] : i \in DOMAIN planned[g]} : TooLarge(S)}} :
                               g \in DOMAIN planned}
    BY DEF DropsPlannedChunks
  <1> DEFINE Taken(g) == UNION {S \in {planned[g][i] : i \in DOMAIN planned[g]} : TooLarge(S)}
             A == {<<s[1], s[2]>> : s \in {s \in skipped : s[3] = "archive size"}}
             B == UNION {{<<g.route, o>> : o \in Taken(g)} : g \in DOMAIN planned}
  <1>1. /\ skipped \subseteq Routes \X Objects \X Skips
        /\ \A g \in DOMAIN planned : PlannedParts(g)
        /\ \A r \in Routes, o \in Objects :
             <<r, o, "archive size">> \in skipped <=> \E g \in DOMAIN planned : g.route = r /\ Loses(g, o)
    BY DEF BuildInv, TypeOK, PlanSound
  <1>2. \A g, i : Dropped(g, i) <=> TooLarge(planned[g][i])
    BY DEF Dropped
  <1>3. \A g \in DOMAIN planned : \A o : Loses(g, o) <=> o \in Taken(g)
    BY <1>2 DEF Loses
  <1>4. \A g \in DOMAIN planned : g.route \in Routes /\ \A o \in Taken(g) : o \in Objects
    <2>1. ASSUME NEW g \in DOMAIN planned, NEW o \in Taken(g) PROVE o \in Objects
      <3>1. PICK i \in DOMAIN planned[g] : o \in planned[g][i]
        OBVIOUS
      <3>2. IsPart(g, planned[g][i])
        BY <1>1, <3>1 DEF PlannedParts
      <3>3. QED
        BY <3>1, <3>2 DEF IsPart
    <2> HIDE DEF Taken
    <2>2. QED
      BY <1>1, <2>1 DEF PlannedParts
  <1> HIDE DEF Taken
  <1>5. ASSUME NEW s \in skipped, s[3] = "archive size" PROVE <<s[1], s[2]>> \in B
    <2>1. s[1] \in Routes /\ s[2] \in Objects /\ s = <<s[1], s[2], "archive size">>
      <3>1. s \in Routes \X Objects \X Skips
        BY <1>1, <1>5
      <3>2. s = <<s[1], s[2], s[3]>> /\ s[1] \in Routes /\ s[2] \in Objects
        BY <3>1
      <3>3. QED
        BY <1>5, <3>2
    <2>2. PICK g \in DOMAIN planned : g.route = s[1] /\ Loses(g, s[2])
      BY <1>1, <2>1
    <2>3. s[2] \in Taken(g)
      BY <1>3, <2>2
    <2>4. QED
      BY <2>2, <2>3
  <1>6. ASSUME NEW g \in DOMAIN planned, NEW o \in Taken(g) PROVE <<g.route, o>> \in A
    <2>1. <<g.route, o, "archive size">> \in skipped
      BY <1>1, <1>3, <1>4
    <2>2. LET s == <<g.route, o, "archive size">> IN <<g.route, o>> = <<s[1], s[2]>> /\ s[3] = "archive size"
      OBVIOUS
    <2>3. QED
      BY <2>1, <2>2
  <1>7. A = B
    <2>1. A \subseteq B
      BY <1>5
    <2>2. ASSUME NEW x \in B PROVE x \in A
      <3>1. PICK g \in DOMAIN planned : x \in {<<g.route, o>> : o \in Taken(g)}
        OBVIOUS
      <3>2. PICK o \in Taken(g) : x = <<g.route, o>>
        BY <3>1
      <3>3. QED
        BY <1>6, <3>2
    <2>3. QED
      BY <2>1, <2>2
  <1>8. QED
    BY <1>7 DEF Taken

(* The drop takes the planned chunks that were too large, whole, and       *)
(* nothing else, though each deletion moves the slices behind it.          *)
THEOREM PlannedChunksDropped == Spec => []DropsPlannedChunks
  BY ManifestInvariant, InvariantDrops, PTL

-----------------------------------------------------------------------------
(* How large the archives are                                              *)

Weights == [o \in Objects |-> Block + Padded(object[o].size)]

LEMMA WeightsType ==
  ASSUME ObjectsKnown
  PROVE  /\ Weights \in [Objects -> Nat] /\ 2 * Block \in Nat
         /\ \A o \in Objects : Weights[o] <= Sizes[o] + 2 * Block
         /\ \A S : Estimated(S) = Fixed + SumFunctionOnSet(Weights, S)
  <1>1. Block \in Nat \ {0}
    BY ManifestConstants
  <1>2. ASSUME NEW o \in Objects
        PROVE  Block + Padded(object[o].size) \in Nat /\ Block + Padded(object[o].size) <= object[o].size + 2 * Block
    <2> DEFINE n == object[o].size
               q == (n + Block - 1) \div Block
    <2>1. n \in Nat
      BY ManifestConstants DEF ObjectsKnown
    <2>2. q \in Nat /\ Block * q < n + Block
      BY <1>1, <2>1, RoundedUp
    <2>3. Padded(n) = Block * q
      BY DEF Padded
    <2> HIDE DEF q, n
    <2>4. Block * q \in Nat
      BY <1>1, <2>2
    <2>5. Block + Padded(n) \in Nat /\ Block + Padded(n) <= n + 2 * Block
      BY <1>1, <2>1, <2>2, <2>3, <2>4
    <2>6. QED
      BY <2>5 DEF n
  <1>3. Weights \in [Objects -> Nat]
    BY <1>2 DEF Weights
  <1>4. \A o \in Objects : Weights[o] <= Sizes[o] + 2 * Block
    BY <1>2 DEF Weights, Sizes
  <1>5. \A S : Estimated(S) = Fixed + SumFunctionOnSet(Weights, S)
    BY DEF Estimated, Weights
  <1>6. QED
    BY <1>1, <1>3, <1>4, <1>5

LEMMA InvariantAdvised == BuildInv => NoneTooLargeAsAdvised
  <1> SUFFICES ASSUME BuildInv, PayloadBelowArchive, phase = "built",
                      NEW g \in Groups, NEW i \in 1..Len(chunks[g]), TooLarge(Entries(g, i))
               PROVE  FALSE
    BY DEF NoneTooLargeAsAdvised, NoneTooLarge
  <1> DEFINE S == Entries(g, i)
  <1>1. ObjectsKnown /\ PlanSound
    BY DEF BuildInv, TypeOK, ObjectsKnown
  <1>2. S # {} /\ WithinLimits(S) /\ S \subseteq Members(g)
    <2>1. Divides(Members(g), chunks[g])
      BY CurrentDivides
    <2>2. S = Cut(Members(g), chunks[g][i])
      BY EntriesAreCuts
    <2>3. Cut(Members(g), chunks[g][i]) # {} /\ WithinLimits(Cut(Members(g), chunks[g][i]))
      BY <2>1 DEF Divides
    <2>4. Cut(Members(g), chunks[g][i]) \subseteq Members(g)
      BY DEF Cut
    <2>5. QED
      BY <2>2, <2>3, <2>4
  <1>3. /\ Weights \in [Objects -> Nat] /\ Sizes \in [Objects -> Nat] /\ IsFiniteSet(Objects)
        /\ \A T : Estimated(T) = Fixed + SumFunctionOnSet(Weights, T)
        /\ Payload(S) = SumFunctionOnSet(Sizes, S)
        /\ Members(g) \subseteq Objects
    BY <1>1, WeightsType, SizesType, MembersType
  <1>4. S \in SUBSET Objects /\ IsFiniteSet(S)
    BY <1>2, <1>3, FS_Subset
  <1> HIDE DEF S
  <1>5. SumFunctionOnSet(Weights, S) \in Nat /\ Fixed + SumFunctionOnSet(Weights, S) > MaxArchive
    BY <1>3, <1>4, SumType DEF TooLarge, S
  <1>6. {MaxObjects, MaxBytes, MaxArchive, Fixed, Block} \subseteq Nat
    BY ManifestConstants
  <1>7. CASE Cardinality(S) = 1
    <2>1. PICK o : S = {o}
      BY <1>4, <1>7, FS_Singleton
    <2>2. o \in Members(g) /\ o \in Objects
      BY <1>2, <1>4, <2>1
    <2>3. g \in DOMAIN planned /\ PlannedParts(g) /\ Keeps(g, o)
      BY <1>1, <2>2 DEF PlanSound
    <2>4. PICK j \in DOMAIN planned[g] : o \in planned[g][j] /\ ~Dropped(g, j)
      BY <2>3 DEF Keeps
    <2> DEFINE P == planned[g][j]
    <2>5. P \in SUBSET Objects /\ o \in P
      BY <2>3, <2>4 DEF PlannedParts, IsPart
    <2>6. ~TooLarge(P)
      BY <2>4 DEF Dropped
    <2> HIDE DEF P
    <2>7. IsFiniteSet(P)
      BY <1>3, <2>5, FS_Subset
    <2>8. Weights[o] <= SumFunctionOnSet(Weights, P) /\ SumFunctionOnSet(Weights, P) \in Nat
      BY <1>3, <2>5, <2>7, SumMember, SumType
    <2>9. SumFunctionOnSet(Weights, S) = Weights[o]
      BY <1>3, <2>1, <2>2, SumSingle
    <2>10. ~(Fixed + SumFunctionOnSet(Weights, P) > MaxArchive)
      BY <1>3, <2>6 DEF TooLarge
    <2>11. QED
      BY <1>5, <1>6, <2>8, <2>9, <2>10
  <1>8. CASE Cardinality(S) # 1
    <2> DEFINE n == Cardinality(S)
               k == 2 * Block
    <2>1. n \in Nat /\ n <= MaxObjects /\ SumFunctionOnSet(Sizes, S) <= MaxBytes
      BY <1>2, <1>3, <1>6, <1>8 DEF WithinLimits
    <2>2. /\ k \in Nat /\ \A o \in Objects : Weights[o] <= Sizes[o] + k
      BY <1>1, WeightsType
    <2>3. SumFunctionOnSet(Sizes, S) \in Nat
      BY <1>3, <1>4, SumType
    <2> HIDE DEF n, k
    <2>4. SumFunctionOnSet(Weights, S) <= SumFunctionOnSet(Sizes, S) + k * n
      BY <1>3, <1>4, <2>2, SumBound DEF n
    <2>5. k * n <= k * MaxObjects /\ k * n \in Nat /\ k * MaxObjects \in Nat
      BY <1>6, <2>1, <2>2, TimesMonotonic
    <2>6. Fixed + k * MaxObjects + MaxBytes <= MaxArchive
      <3>1. MaxObjects * k = k * MaxObjects
        BY <1>6, <2>2
      <3>2. Fixed + MaxObjects * k + MaxBytes <= MaxArchive
        BY DEF PayloadBelowArchive, k
      <3>3. QED
        BY <3>1, <3>2
    <2>7. QED
      BY <1>5, <1>6, <2>1, <2>3, <2>4, <2>5, <2>6
  <1>9. QED
    BY <1>7, <1>8

(* Where the limits are as advised, no archive of the manifest exceeds its *)
(* limit, though what is left after a drop is cut anew and not looked at   *)
(* again.                                                                  *)
THEOREM NoArchiveTooLarge == Spec => []NoneTooLargeAsAdvised
  BY ManifestInvariant, InvariantAdvised, PTL

-----------------------------------------------------------------------------
(* Where the outputs go                                                    *)

(* The chunk that takes an entry.                                          *)
LEMMA EntryChunk ==
  ASSUME BuildInv, phase = "built", NEW e \in entries, route[e[1]].mode # "direct"
  PROVE  \E i \in 1..Len(chunks[GroupOf(e)]) :
           /\ <<GroupOf(e), i>> \in ArchiveOutputs
           /\ {j \in 1..Len(chunks[GroupOf(e)]) : e[2] \in Entries(GroupOf(e), j)} = {i}
  <1> DEFINE g == GroupOf(e)
  <1>1. g \in Groups
    BY DEF Groups
  <1>2. e[2] \in Members(g)
    <2>1. e[2] \in Objects /\ e = <<e[1], e[2]>>
      BY DEF BuildInv, TypeOK
    <2>2. g.route = e[1]
      BY DEF GroupOf
    <2> HIDE DEF g
    <2>3. <<g.route, e[2]>> = e
      BY <2>1, <2>2
    <2>4. QED
      BY <2>1, <2>3 DEF Members, g
  <1> HIDE DEF g
  <1>3. Divides(Members(g), chunks[g]) /\ Len(chunks[g]) \in Nat
    BY <1>1, CurrentDivides
  <1>4. PICK i \in 1..Len(chunks[g]) : e[2] \in Cut(Members(g), chunks[g][i])
    BY <1>2, <1>3 DEF Divides
  <1>5. \A j \in 1..Len(chunks[g]) : e[2] \in Cut(Members(g), chunks[g][j]) => j = i
    BY <1>3, <1>4 DEF Divides
  <1>6. {j \in 1..Len(chunks[g]) : e[2] \in Entries(g, j)} = {i}
    BY <1>4, <1>5, EntriesAreCuts
  <1>7. <<g, i>> \in ArchiveOutputs
    <2>1. i \in 1..NumObjects
      <3>1. Len(chunks[g]) <= NumObjects /\ NumObjects \in Nat
        BY <1>3, ManifestConstants DEF Divides
      <3>2. QED
        BY <1>3, <3>1
    <2>2. <<g, i>> \in Groups \X (1..NumObjects) /\ i <= Len(chunks[g])
      BY <1>1, <1>3, <2>1
    <2>3. QED
      BY <2>2 DEF ArchiveOutputs
  <1>8. QED
    BY <1>6, <1>7 DEF g

LEMMA InvariantApart == BuildInv => OutputsApart
  <1> DEFINE Goes(x) == IF route[x[1]].mode = "direct" THEN {DirectKey(x)}
                        ELSE {ArchiveKey(GroupOf(x), i) : i \in {i \in 1..Len(chunks[GroupOf(x)]) :
                                x[2] \in Entries(GroupOf(x), i)}}
  <1> SUFFICES ASSUME BuildInv, phase = "built", NEW d \in entries, NEW e \in entries
               PROVE  /\ Cardinality(Goes(d)) = 1
                      /\ Goes(d) \cap Goes(e) # {} /\ d # e =>
                           GroupOf(d) = GroupOf(e) /\ route[d[1]].mode # "direct"
    BY DEF OutputsApart
  <1>1. ASSUME NEW x \in entries, route[x[1]].mode = "direct"
        PROVE  Goes(x) = {DirectKey(x)} /\ x \in DirectOutputs
    BY <1>1 DEF DirectOutputs
  <1>2. ASSUME NEW x \in entries, route[x[1]].mode # "direct"
        PROVE  \E i : <<GroupOf(x), i>> \in ArchiveOutputs /\ Goes(x) = {ArchiveKey(GroupOf(x), i)}
    <2>1. PICK i \in 1..Len(chunks[GroupOf(x)]) :
            /\ <<GroupOf(x), i>> \in ArchiveOutputs
            /\ {j \in 1..Len(chunks[GroupOf(x)]) : x[2] \in Entries(GroupOf(x), j)} = {i}
      BY <1>2, EntryChunk
    <2>2. Goes(x) = {ArchiveKey(GroupOf(x), j) : j \in {i}}
      BY <1>2, <2>1
    <2> HIDE DEF Goes
    <2>3. QED
      BY <2>1, <2>2
  <1> HIDE DEF Goes
  <1>3. Cardinality(Goes(d)) = 1
    BY <1>1, <1>2, FS_Singleton
  <1>4. ~DestinationsClash
    BY DEF BuildInv, NoneClash
  <1>5. ASSUME Goes(d) \cap Goes(e) # {}, d # e
        PROVE  GroupOf(d) = GroupOf(e) /\ route[d[1]].mode # "direct"
    <2>1. CASE route[d[1]].mode = "direct" /\ route[e[1]].mode = "direct"
      <3>1. DirectKey(d) = DirectKey(e) /\ d \in DirectOutputs /\ e \in DirectOutputs
        BY <1>1, <1>5, <2>1
      <3>2. QED
        BY <1>4, <1>5, <3>1 DEF DestinationsClash
    <2>2. CASE route[d[1]].mode = "direct" /\ route[e[1]].mode # "direct"
      <3>1. PICK i : <<GroupOf(e), i>> \in ArchiveOutputs /\ Goes(e) = {ArchiveKey(GroupOf(e), i)}
        BY <1>2, <2>2
      <3>2. Goes(d) = {DirectKey(d)} /\ d \in DirectOutputs
        BY <1>1, <2>2
      <3>3. ArchiveKey(GroupOf(e), i) = DirectKey(d)
        BY <1>5, <3>1, <3>2
      <3>4. <<GroupOf(e), i>>[1] = GroupOf(e) /\ <<GroupOf(e), i>>[2] = i
        OBVIOUS
      <3>5. QED
        BY <1>4, <3>1, <3>2, <3>3, <3>4 DEF DestinationsClash
    <2>3. CASE route[d[1]].mode # "direct" /\ route[e[1]].mode = "direct"
      <3>1. PICK i : <<GroupOf(d), i>> \in ArchiveOutputs /\ Goes(d) = {ArchiveKey(GroupOf(d), i)}
        BY <1>2, <2>3
      <3>2. Goes(e) = {DirectKey(e)} /\ e \in DirectOutputs
        BY <1>1, <2>3
      <3>3. ArchiveKey(GroupOf(d), i) = DirectKey(e)
        BY <1>5, <3>1, <3>2
      <3>4. <<GroupOf(d), i>>[1] = GroupOf(d) /\ <<GroupOf(d), i>>[2] = i
        OBVIOUS
      <3>5. QED
        BY <1>4, <3>1, <3>2, <3>3, <3>4 DEF DestinationsClash
    <2>4. CASE route[d[1]].mode # "direct" /\ route[e[1]].mode # "direct"
      <3>1. PICK i : <<GroupOf(d), i>> \in ArchiveOutputs /\ Goes(d) = {ArchiveKey(GroupOf(d), i)}
        BY <1>2, <2>4
      <3>2. PICK j : <<GroupOf(e), j>> \in ArchiveOutputs /\ Goes(e) = {ArchiveKey(GroupOf(e), j)}
        BY <1>2, <2>4
      <3>3. ArchiveKey(GroupOf(d), i) = ArchiveKey(GroupOf(e), j)
        BY <1>5, <3>1, <3>2
      <3>4. /\ <<GroupOf(d), i>>[1] = GroupOf(d) /\ <<GroupOf(d), i>>[2] = i
            /\ <<GroupOf(e), j>>[1] = GroupOf(e) /\ <<GroupOf(e), j>>[2] = j
        OBVIOUS
      <3>5. <<GroupOf(d), i>> = <<GroupOf(e), j>>
        BY <1>4, <3>1, <3>2, <3>3, <3>4 DEF DestinationsClash
      <3>6. QED
        BY <2>4, <3>4, <3>5
    <2>5. QED
      BY <2>1, <2>2, <2>3, <2>4
  <1>6. QED
    BY <1>3, <1>5

(* No object's copy and no archive of a manifest that was built takes the  *)
(* place of another one, for any routes that the settings accept.          *)
THEOREM OutputsStayApart == Spec => []OutputsApart
  BY ManifestInvariant, InvariantApart, PTL
-----------------------------------------------------------------------------
(* What keys tell: times, and the bounds of a range of days                *)

LEMMA LastDayType == \A y, m \in Nat : LastDay(y, m) \in 28..31
  BY DEF LastDay

(* A number is a day of its year, month and day; these are its components. *)
HasParts(day, y, m, d) ==
  /\ day \in Nat /\ day \div 416 = y /\ day \div 32 = y * 13 + m
  /\ (day \div 32) % 13 = m /\ day % 32 = d

LEMMA DayParts == \A y \in Nat, m \in 0..12, d \in 0..31 : HasParts(Day(y, m, d), y, m, d)
  <1> TAKE y \in Nat, m \in 0..12, d \in 0..31
  <1> DEFINE k == y * 13 + m
  <1>1. Day(y, m, d) = k * 32 + d /\ Day(y, m, d) = y * 416 + (m * 32 + d)
    BY DEF Day
  <1>2. k \in Nat /\ m * 32 + d \in 0..415 /\ k % 13 = m
    OBVIOUS
  <1> HIDE DEF k
  <1>3. (k * 32 + d) \div 32 = k /\ (k * 32 + d) % 32 = d /\ k * 32 + d \in Nat
    BY <1>2
  <1>4. (y * 416 + (m * 32 + d)) \div 416 = y
    BY <1>2
  <1>5. QED
    BY <1>1, <1>2, <1>3, <1>4 DEF k, HasParts

LEMMA LeadingParts ==
  \A day : Leading(day, 1) = day \div 416 /\ Leading(day, 2) = day \div 32 /\ Leading(day, 3) = day
  BY DEF Leading

LEMMA PartsOfDay ==
  ASSUME NEW day \in Nat, IsCalendarDay(day)
  PROVE  \E y \in Nat, m \in 1..12, d \in 1..31 : d <= LastDay(y, m) /\ day = Day(y, m, d)
  <1> DEFINE y == day \div 416
             k == day \div 32
             m == k % 13
             d == day % 32
  <1>1. y \in Nat /\ k \in Nat /\ d \in Nat /\ day = k * 32 + d /\ d \in 0..31
    OBVIOUS
  <1>2. k = (k \div 13) * 13 + m /\ m \in 0..12
    BY <1>1
  <1>3. k \div 13 = y
    BY <1>1
  <1>4. m \in 1..12 /\ d \in 1..LastDay(y, m)
    BY DEF IsCalendarDay
  <1> HIDE DEF y, k, m, d
  <1>5. LastDay(y, m) \in 28..31
    BY <1>1, <1>4, LastDayType
  <1>6. day = Day(y, m, d)
    BY <1>1, <1>2, <1>3 DEF Day
  <1>7. d \in 1..31 /\ d <= LastDay(y, m)
    BY <1>4, <1>5
  <1>8. QED
    BY <1>1, <1>4, <1>6, <1>7

(* A bound that does not tell its month or day is the first or the last    *)
(* day of what it tells.                                                   *)
LEMMA BoundIsPeriod ==
  ASSUME NEW text \in Seq(Nat), Len(text) \in 1..3, text # None, IsBound(text),
         NEW day \in Nat, IsCalendarDay(day)
  PROVE  LET first == Leading(Bound(text, "start"), Len(text)) IN
         /\ Bound(text, "start") <= day <=> Leading(day, Len(text)) >= first
         /\ day <= Bound(text, "end") <=> Leading(day, Len(text)) <= first
  <1>1. PICK y \in Nat, m \in 1..12, d \in 1..31 : d <= LastDay(y, m) /\ day = Day(y, m, d)
    BY PartsOfDay
  <1>2. m \in 0..12 /\ d \in 0..31
    OBVIOUS
  <1>3. HasParts(day, y, m, d)
    BY <1>1, <1>2, DayParts
  <1>4. day = (y * 13 + m) * 32 + d
    BY <1>1 DEF Day
  <1>5. PICK a \in Nat : text[1] = a
    OBVIOUS
  <1>6. CASE Len(text) = 1
    <2>1. Bound(text, "start") = Day(a, 1, 1)
      BY <1>5, <1>6 DEF Bound
    <2>2. Bound(text, "end") = Day(a, 12, 31)
      BY <1>5, <1>6 DEF Bound, LastDay
    <2>3. Bound(text, "start") = a * 416 + 33 /\ Bound(text, "end") = a * 416 + 415
      BY <2>1, <2>2 DEF Day
    <2>4. Bound(text, "start") \div 416 = a
      BY <2>3
    <2>5. Leading(Bound(text, "start"), 1) = a
      BY <2>4, LeadingParts
    <2>6. Leading(day, 1) = y
      BY <1>3, LeadingParts DEF HasParts
    <2>7. day = y * 416 + (m * 32 + d) /\ m * 32 + d \in 33..415
      BY <1>4
    <2>8. QED
      BY <1>6, <2>3, <2>5, <2>6, <2>7
  <1>7. CASE Len(text) = 2
    <2>1. text[2] \in 1..12
      BY <1>7 DEF IsBound
    <2>2. PICK b \in 1..12 : text[2] = b
      BY <2>1
    <2>3. Bound(text, "start") = Day(a, b, 1)
      BY <1>5, <1>7, <2>2 DEF Bound
    <2>4. Bound(text, "end") = Day(a, b, LastDay(a, b))
      BY <1>5, <1>7, <2>2 DEF Bound
    <2>5. LastDay(a, b) \in 28..31
      BY LastDayType
    <2>6. \A p, q \in Nat, i, j \in 1..12 : p * 13 + i = q * 13 + j => p = q /\ i = j
      OBVIOUS
    <2>7. y * 13 + m = a * 13 + b => y = a /\ m = b
      BY <2>6
    <2>8. y * 13 + m = a * 13 + b => d <= LastDay(a, b)
      BY <1>1, <2>7
    <2>9. PICK last \in 28..31 : last = LastDay(a, b)
      BY <2>5
    <2>10. PICK k \in Nat : k = a * 13 + b
      OBVIOUS
    <2>11. PICK n \in Nat : n = y * 13 + m
      OBVIOUS
    <2>12. Bound(text, "start") = k * 32 + 1 /\ Bound(text, "end") = k * 32 + last /\ day = n * 32 + d
      BY <1>4, <2>3, <2>4, <2>9, <2>10, <2>11 DEF Day
    <2>13. Leading(Bound(text, "start"), 2) = k
      <3>1. (k * 32 + 1) \div 32 = k
        OBVIOUS
      <3>2. QED
        BY <2>12, <3>1, LeadingParts
    <2>14. Leading(day, 2) = n
      BY <1>3, <2>11, LeadingParts DEF HasParts
    <2>15. n = k => d <= last
      BY <2>8, <2>9, <2>10, <2>11
    <2>16. Bound(text, "start") <= day <=> n >= k
      BY <2>12
    <2>17. day <= Bound(text, "end") <=> n <= k
      BY <2>12, <2>15
    <2>18. QED
      BY <1>7, <2>13, <2>14, <2>16, <2>17
  <1>8. CASE Len(text) = 3
    <2>1. Bound(text, "start") = Bound(text, "end") /\ Bound(text, "end") = Day(a, text[2], text[3])
      BY <1>5, <1>8 DEF Bound
    <2>2. \A i \in 1..Len(text) : text[i] \in Nat
      OBVIOUS
    <2>3. text[2] \in Nat /\ text[3] \in Nat
      BY <1>8, <2>2
    <2>4. \A b, c \in Nat : Day(a, b, c) \in Nat
      BY DEF Day
    <2>5. Bound(text, "end") \in Nat
      BY <2>1, <2>3, <2>4
    <2>6. QED
      BY <1>8, <2>1, <2>5, LeadingParts
  <1>9. QED
    BY <1>6, <1>7, <1>8

LEMMA DatesAreTimes ==
  ASSUME NEW f \in Seq(Names), NEW i \in Dates(f)
  PROVE  IsTime(Time(DateAt(f, i), 0)) /\ IsTime(TimeAt(f, i))
  <1> DEFINE y == f[i][2]
             m == f[i + 1][2]
             d == f[i + 2][2]
  <1>1. i \in Nat /\ i >= 1 /\ i + 2 <= Len(f) /\ IsMonth(f[i + 1]) /\ IsDay(f[i + 2]) /\ d <= LastDay(y, m)
    BY DEF Dates, LooksLikeDay
  <1>2. i \in 1..Len(f)
    BY <1>1
  <1>3. f[i] \in Names
    BY <1>2
  <1>4. y \in Nat
    BY <1>3 DEF Names
  <1>5. m \in 1..12 /\ d \in 1..31
    BY <1>1 DEF IsMonth, IsDay
  <1>6. DateAt(f, i) = Day(y, m, d)
    BY DEF DateAt
  <1> HIDE DEF y, m, d
  <1>7. IsCalendarDay(DateAt(f, i)) /\ DateAt(f, i) \in Nat
    <2>1. HasParts(Day(y, m, d), y, m, d)
      <3>1. m \in 0..12 /\ d \in 0..31
        BY <1>5
      <3>2. QED
        BY <1>4, <3>1, DayParts
    <2>2. LastDay(y, m) \in 28..31
      BY <1>4, <1>5, LastDayType
    <2>3. d \in 1..LastDay(y, m)
      BY <1>1, <1>5, <2>2
    <2>4. IsCalendarDay(Day(y, m, d))
      BY <1>5, <2>1, <2>3 DEF IsCalendarDay, HasParts
    <2>5. QED
      BY <1>6, <2>1, <2>4 DEF HasParts
  <1>8. ASSUME NEW h \in 0..23 PROVE IsTime(Time(DateAt(f, i), h))
    <2> DEFINE day == DateAt(f, i)
    <2> HIDE DEF day
    <2>1. day \in Nat => day * 24 + h \in Nat /\ (day * 24 + h) \div 24 = day
      OBVIOUS
    <2>2. QED
      BY <1>7, <2>1 DEF IsTime, Time, DayOf, day
  <1>9. HasHour(f, i) => f[i + 3][2] \in 0..23
    BY DEF HasHour, IsHour
  <1>10. QED
    BY <1>8, <1>9 DEF TimeAt

LEMMA ImageFinite ==
  ASSUME NEW S, IsFiniteSet(S), NEW g, NEW T, \A t \in T : \E x \in S : t = g[x]
  PROVE  IsFiniteSet(T)
  <1> DEFINE R == {g[x] : x \in S}
             h == [x \in S |-> g[x]]
  <1>1. h \in Surjection(S, R)
    BY DEF Surjection
  <1>2. T \subseteq R
    OBVIOUS
  <1> HIDE DEF R, h
  <1>3. IsFiniteSet(R)
    BY <1>1, FS_Surjection
  <1>4. QED
    BY <1>2, <1>3, FS_Subset

LEMMA PathTimesAreTimes ==
  ASSUME NEW o, IsObject(o)
  PROVE  IsFiniteSet(PathTimes(o.folder)) /\ \A t \in PathTimes(o.folder) : IsTime(t)
  <1> DEFINE f == o.folder
             Stamps == {i \in 1..Len(f) : IsStamp(f[i])}
  <1>1. f \in Seq(Names) /\ Len(f) \in Nat
    BY DEF IsObject
  <1>2. \A i \in Stamps : IsTime(f[i][2])
    BY DEF IsObject
  <1>3. \A i \in Dates(f) : IsTime(Time(DateAt(f, i), 0)) /\ IsTime(TimeAt(f, i))
    BY <1>1, DatesAreTimes
  <1>4. IsFiniteSet(1..Len(f))
    BY <1>1, FS_Interval
  <1>5. IsFiniteSet(Dates(f)) /\ IsFiniteSet(Stamps)
    BY <1>4, FS_Subset DEF Dates
  <1> HIDE DEF f, Stamps
  <1> DEFINE A == {Time(DateAt(f, i), 0) : i \in Dates(f)}
             B == {TimeAt(f, i) : i \in Dates(f)}
             C == {f[i][2] : i \in Stamps}
             a == [i \in Dates(f) |-> Time(DateAt(f, i), 0)]
             b == [i \in Dates(f) |-> TimeAt(f, i)]
             c == [i \in Stamps |-> f[i][2]]
  <1>6. IsFiniteSet(A)
    <2>1. \A t \in A : \E i \in Dates(f) : t = a[i]
      OBVIOUS
    <2> HIDE DEF A, B, C, a, b, c
    <2>2. QED
      BY <1>5, <2>1, ImageFinite
  <1>7. IsFiniteSet(B)
    <2>1. \A t \in B : \E i \in Dates(f) : t = b[i]
      OBVIOUS
    <2> HIDE DEF A, B, C, a, b, c
    <2>2. QED
      BY <1>5, <2>1, ImageFinite
  <1>8. IsFiniteSet(C)
    <2>1. \A t \in C : \E i \in Stamps : t = c[i]
      OBVIOUS
    <2> HIDE DEF A, B, C, a, b, c
    <2>2. QED
      BY <1>5, <2>1, ImageFinite
  <1>9. \A t \in A \cup B \cup C : IsTime(t)
    BY <1>2, <1>3
  <1>10. PathTimes(f) = A \cup B \cup C
    BY DEF PathTimes, Stamps
  <1> HIDE DEF A, B, C
  <1>11. IsFiniteSet(A \cup B \cup C)
    BY <1>6, <1>7, <1>8, FS_Union
  <1>12. QED
    BY <1>9, <1>10, <1>11 DEF f

LEMMA LatestIsTime ==
  ASSUME NEW T, IsFiniteSet(T), \A t \in T : IsTime(t), Latest(T) # None
  PROVE  IsTime(Latest(T))
  <1>1. T # {} /\ Latest(T) = Max(T)
    BY DEF Latest
  <1>2. T \in SUBSET Nat
    BY DEF IsTime
  <1>3. Max(T) \in T
    BY <1>1, <1>2, MaxMember
  <1>4. QED
    BY <1>1, <1>3

LEMMA LatestDateIsDate ==
  ASSUME NEW f \in Seq(Names), Dates(f) # {}
  PROVE  LatestDate(f) \in Dates(f)
  <1> DEFINE T == {TimeAt(f, i) : i \in Dates(f)}
             Best == {i \in Dates(f) : \A j \in Dates(f) : TimeAt(f, j) <= TimeAt(f, i)}
  <1>1. Dates(f) \subseteq 1..Len(f) /\ Len(f) \in Nat
    BY DEF Dates
  <1>2. IsFiniteSet(Dates(f))
    <2>1. IsFiniteSet(1..Len(f))
      BY <1>1, FS_Interval
    <2>2. QED
      BY <1>1, <2>1, FS_Subset
  <1>3. IsFiniteSet(T)
    <2> DEFINE g == [i \in Dates(f) |-> TimeAt(f, i)]
    <2>1. \A t \in T : \E i \in Dates(f) : t = g[i]
      OBVIOUS
    <2> HIDE DEF T, g
    <2>2. QED
      BY <1>2, <2>1, ImageFinite
  <1>4. T \in SUBSET Nat /\ T # {}
    BY DatesAreTimes DEF IsTime
  <1> HIDE DEF T
  <1>5. PICK x \in T : \A y \in T : y <= x
    BY <1>3, <1>4, GreatestElement
  <1>6. PICK i \in Dates(f) : x = TimeAt(f, i)
    BY DEF T
  <1>7. i \in Best
    BY <1>5, <1>6 DEF T
  <1>8. Best \in SUBSET Nat
    BY <1>1
  <1>9. LatestDate(f) = Min(Best)
    BY DEF LatestDate
  <1>10. Min(Best) \in Best
    <2> HIDE DEF Best
    <2>1. QED
      BY <1>7, <1>8, MinMember
  <1>11. QED
    BY <1>9, <1>10

(* What a parser tells of an object is a time that there is.               *)
LEMMA ParseTimes ==
  ASSUME NEW o, IsObject(o), NEW p \in Parsers, Parse(p, o) # None
  PROVE  IsTime(Parse(p, o).time)
  <1>1. \A time, root : Told(time, root) # None => time # None /\ Told(time, root).time = time
    BY DEF Told
  <1>2. IsFiniteSet(PathTimes(o.folder)) /\ \A t \in PathTimes(o.folder) : IsTime(t)
    BY PathTimesAreTimes
  <1>3. IsFiniteSet(o.stamps) /\ (\A t \in o.stamps : IsTime(t)) /\ IsTime(o.modified) /\ o.folder \in Seq(Names)
    BY DEF IsObject
  <1>4. CASE p = "direct"
    BY <1>1, <1>3, <1>4 DEF Parse, ByDirect
  <1>5. CASE p = "filename_timestamp"
    <2>1. KeyTime(o) # None /\ Parse(p, o).time = KeyTime(o)
      BY <1>1, <1>5 DEF Parse, ByFilename
    <2>2. CASE o.stamps # {}
      <3> DEFINE S == IF o.stamps \cap PathTimes(o.folder) # {} THEN o.stamps \cap PathTimes(o.folder) ELSE o.stamps
      <3>1. KeyTime(o) = Latest(S)
        BY <2>2 DEF KeyTime, Pick
      <3>2. IsFiniteSet(S) /\ \A t \in S : IsTime(t)
        <4>1. S \subseteq o.stamps
          OBVIOUS
        <4>2. QED
          BY <4>1, <1>3, FS_Subset
      <3> HIDE DEF S
      <3>3. QED
        BY <2>1, <3>1, <3>2, LatestIsTime
    <2>3. CASE o.stamps = {} /\ o.malformed
      BY <2>1, <2>3 DEF KeyTime
    <2>4. CASE o.stamps = {} /\ ~o.malformed
      <3>1. KeyTime(o) = Latest(PathTimes(o.folder))
        BY <2>4 DEF KeyTime
      <3>2. QED
        BY <1>2, <2>1, <3>1, LatestIsTime
    <2>5. QED
      BY <2>2, <2>3, <2>4
  <1>6. CASE p = "folder_timestamp"
    <2>1. Latest(PathTimes(o.folder)) # None /\ Parse(p, o).time = Latest(PathTimes(o.folder))
      BY <1>1, <1>6 DEF Parse, ByFolder
    <2>2. QED
      BY <1>2, <2>1, LatestIsTime
  <1>7. CASE p = "folder_timestamp_child"
    <2>1. Parse(p, o) = ByFolderChild(o)
      BY <1>7 DEF Parse
    <2>2. Dates(o.folder) # {}
      BY <2>1 DEF ByFolderChild
    <2>3. Parse(p, o).time = TimeAt(o.folder, LatestDate(o.folder))
      BY <1>1, <2>1 DEF ByFolderChild
    <2>4. QED
      BY <1>3, <2>2, <2>3, LatestDateIsDate, DatesAreTimes
  <1>8. QED
    BY <1>4, <1>5, <1>6, <1>7 DEF Parsers
-----------------------------------------------------------------------------
(* The names at the end of a folder that are a time                        *)

LEMMA HeadOf ==
  ASSUME NEW f \in Seq(Names), NEW n \in 0..Len(f)
  PROVE  /\ SubSeq(f, 1, n) \in Seq(Names) /\ Len(SubSeq(f, 1, n)) = n
         /\ \A i \in 1..n : SubSeq(f, 1, n)[i] = f[i]
  <1>1. n \in Nat /\ Len(f) \in Nat /\ n <= Len(f)
    OBVIOUS
  <1>2. \A i \in 1..n : i \in 1..Len(f)
    BY <1>1
  <1>3. \A i \in 1..n : f[i] \in Names
    BY <1>2
  <1>4. /\ SubSeq(f, 1, n) \in Seq(Names)
        /\ Len(SubSeq(f, 1, n)) = IF 1 <= n THEN n - 1 + 1 ELSE 0
        /\ \A i \in 1..(n - 1 + 1) : SubSeq(f, 1, n)[i] = f[1 + i - 1]
    BY <1>1, <1>3, SubSeqProperties
  <1>5. n - 1 + 1 = n /\ \A i \in 1..n : 1 + i - 1 = i
    BY <1>1
  <1>6. QED
    BY <1>1, <1>4, <1>5

(* The n names of a folder from i on are a time.                           *)
Tile(f, i, n) ==
  \/ n = 1 /\ IsStamp(f[i])
  \/ n = 3 /\ LooksLikeDay(f, i)
  \/ n = 4 /\ LooksLikeDay(f, i) /\ HasHour(f, i)

LEMMA StrippedCases ==
  ASSUME NEW f, Len(f) \in Nat
  PROVE  LET n == Len(f)
             four == LooksLikeDay(f, n - 3) /\ HasHour(f, n - 3)
             three == LooksLikeDay(f, n - 2)
             one == n > 0 /\ IsStamp(f[n])
         IN  /\ four => Stripped(f) = 4
             /\ ~four /\ three => Stripped(f) = 3
             /\ ~four /\ ~three /\ one => Stripped(f) = 1
             /\ ~four /\ ~three /\ ~one => Stripped(f) = 0
  <1> DEFINE n == Len(f)
             four == LooksLikeDay(f, n - 3) /\ HasHour(f, n - 3)
             three == LooksLikeDay(f, n - 2)
             one == n > 0 /\ IsStamp(f[n])
  <1>1. Stripped(f) = CASE four -> 4
                        [] ~four /\ three -> 3
                        [] ~three /\ one -> 1
                        [] OTHER -> 0
    BY Zenon DEF Stripped
  <1>2. four => ~one
    <2>1. n - 3 + 3 = n
      OBVIOUS
    <2>2. QED
      BY <2>1 DEF HasHour, IsHour, IsStamp
  <1> HIDE DEF n, four, three, one
  <1>3. four => Stripped(f) = 4
    BY <1>1, <1>2
  <1>4. ~four /\ three => Stripped(f) = 3
    BY <1>1
  <1>5. ~four /\ ~three /\ one => Stripped(f) = 1
    BY <1>1
  <1>6. ~four /\ ~three /\ ~one => Stripped(f) = 0
    BY <1>1
  <1>7. QED
    BY <1>3, <1>4, <1>5, <1>6 DEF n, four, three, one

(* The time that the first m names of a folder end with is the only one    *)
(* that ends there.                                                        *)
LEMMA TileEnds ==
  ASSUME NEW f \in Seq(Names), NEW m \in 0..Len(f)
  PROVE  /\ Stripped(SubSeq(f, 1, m)) \in {0, 1, 3, 4}
         /\ \A n \in {1, 3, 4} : Stripped(SubSeq(f, 1, m)) = n <=> n <= m /\ Tile(f, m + 1 - n, n)
  <1> DEFINE p == SubSeq(f, 1, m)
             four == LooksLikeDay(p, m - 3) /\ HasHour(p, m - 3)
             three == LooksLikeDay(p, m - 2)
             one == m > 0 /\ IsStamp(p[m])
  <1>1. m \in Nat /\ Len(f) \in Nat /\ m <= Len(f)
    OBVIOUS
  <1>2. Len(p) = m /\ \A i \in 1..m : p[i] = f[i]
    BY HeadOf
  <1>3. /\ four => Stripped(p) = 4
        /\ ~four /\ three => Stripped(p) = 3
        /\ ~four /\ ~three /\ one => Stripped(p) = 1
        /\ ~four /\ ~three /\ ~one => Stripped(p) = 0
    BY <1>1, <1>2, StrippedCases
  <1> HIDE DEF p
  <1>4. four <=> 4 <= m /\ Tile(f, m + 1 - 4, 4)
    <2>1. m + 1 - 4 = m - 3 /\ m - 3 + 1 = m - 2 /\ m - 3 + 2 = m - 1 /\ m - 3 + 3 = m
      BY <1>1
    <2>2. CASE 4 <= m
      <3>1. {m - 3, m - 2, m - 1, m} \subseteq 1..m
        BY <1>1, <2>2
      <3>2. p[m - 3] = f[m - 3] /\ p[m - 2] = f[m - 2] /\ p[m - 1] = f[m - 1] /\ p[m] = f[m]
        BY <1>2, <3>1
      <3>3. m - 3 >= 1 /\ m - 1 <= m /\ m - 1 <= Len(f) /\ m <= m
        BY <1>1, <2>2
      <3>4. LooksLikeDay(p, m - 3) <=> LooksLikeDay(f, m - 3)
        BY <1>2, <2>1, <3>2, <3>3 DEF LooksLikeDay
      <3>5. HasHour(p, m - 3) <=> HasHour(f, m - 3)
        BY <1>1, <1>2, <2>1, <3>2, <3>3 DEF HasHour
      <3>6. Tile(f, m - 3, 4) <=> LooksLikeDay(f, m - 3) /\ HasHour(f, m - 3)
        BY DEF Tile
      <3>7. QED
        BY <2>1, <2>2, <3>4, <3>5, <3>6
    <2>3. CASE ~(4 <= m)
      <3>1. ~(m - 3 >= 1)
        BY <1>1, <2>3
      <3>2. QED
        BY <2>3, <3>1 DEF LooksLikeDay
    <2>4. QED
      BY <2>2, <2>3
  <1>5. three <=> 3 <= m /\ Tile(f, m + 1 - 3, 3)
    <2>1. m + 1 - 3 = m - 2 /\ m - 2 + 1 = m - 1 /\ m - 2 + 2 = m
      BY <1>1
    <2>2. CASE 3 <= m
      <3>1. {m - 2, m - 1, m} \subseteq 1..m
        BY <1>1, <2>2
      <3>2. p[m - 2] = f[m - 2] /\ p[m - 1] = f[m - 1] /\ p[m] = f[m]
        BY <1>2, <3>1
      <3>3. m - 2 >= 1 /\ m <= m
        BY <1>1, <2>2
      <3>4. LooksLikeDay(p, m - 2) <=> LooksLikeDay(f, m - 2)
        BY <1>1, <1>2, <2>1, <3>2, <3>3 DEF LooksLikeDay
      <3>5. Tile(f, m - 2, 3) <=> LooksLikeDay(f, m - 2)
        BY DEF Tile
      <3>6. QED
        BY <2>1, <2>2, <3>4, <3>5
    <2>3. CASE ~(3 <= m)
      <3>1. ~(m - 2 >= 1)
        BY <1>1, <2>3
      <3>2. QED
        BY <2>3, <3>1 DEF LooksLikeDay
    <2>4. QED
      BY <2>2, <2>3
  <1>6. one <=> 1 <= m /\ Tile(f, m + 1 - 1, 1)
    <2>1. m + 1 - 1 = m /\ (m > 0 <=> 1 <= m)
      BY <1>1
    <2>2. Tile(f, m, 1) <=> IsStamp(f[m])
      BY DEF Tile
    <2>3. 1 <= m => m \in 1..m
      BY <1>1
    <2>4. QED
      BY <1>2, <2>1, <2>2, <2>3
  <1>7. ~(four /\ three)
    <2>1. m - 3 + 1 = m - 2
      BY <1>1
    <2>2. QED
      BY <2>1 DEF LooksLikeDay, IsYear, IsMonth
  <1>8. ~(four /\ one)
    <2>1. m - 3 + 3 = m
      BY <1>1
    <2>2. QED
      BY <2>1 DEF HasHour, IsHour, IsStamp
  <1>9. ~(three /\ one)
    <2>1. m - 2 + 2 = m
      BY <1>1
    <2>2. QED
      BY <2>1 DEF LooksLikeDay, IsDay, IsStamp
  <1> HIDE DEF four, three, one
  <1>10. Stripped(p) \in {0, 1, 3, 4}
    BY <1>3
  <1>11. Stripped(p) = 4 <=> four
    BY <1>3
  <1>12. Stripped(p) = 3 <=> three
    BY <1>3, <1>7
  <1>13. Stripped(p) = 1 <=> one
    BY <1>3, <1>8, <1>9
  <1>14. QED
    BY <1>4, <1>5, <1>6, <1>10, <1>11, <1>12, <1>13 DEF p
-----------------------------------------------------------------------------
(* The root, and the readings of a folder's end as times                   *)

IsRoots(f, from) ==
  \A n \in 0..Len(f) :
    LET s == Stripped(SubSeq(f, 1, n)) IN from[n] = IF s = 0 THEN SubSeq(f, 1, n) ELSE from[n - s]

LEMMA RootsDefined ==
  ASSUME NEW f \in Seq(Names)
  PROVE  \E from : IsRoots(f, from) /\ RootOf(f) = from[Len(f)]
  <1> DEFINE N == Len(f)
             D == 0..N
             V == Seq(Names)
             S(n) == Stripped(SubSeq(f, 1, n))
             F == [n \in D |-> [h \in [D -> V] |-> IF S(n) = 0 THEN SubSeq(f, 1, n) ELSE h[n - S(n)]]]
             rank == [n \in D |-> n]
             Equation(it) == it = [n \in D |-> IF S(n) = 0 THEN SubSeq(f, 1, n) ELSE it[n - S(n)]]
             from == CHOOSE it : Equation(it)
  <1>1. N \in Nat
    OBVIOUS
  <1>2. \A n \in D : S(n) # 0 => n - S(n) \in D /\ n - S(n) < n
    <2>1. ASSUME NEW n \in D, S(n) # 0 PROVE n - S(n) \in D /\ n - S(n) < n
      <3>1. S(n) \in {1, 3, 4}
        BY <2>1, TileEnds
      <3>2. S(n) <= n
        BY <3>1, TileEnds
      <3> HIDE DEF S
      <3>3. QED
        BY <1>1, <3>1, <3>2
    <2>2. QED
      BY <2>1
  <1>3. \A n \in D : SubSeq(f, 1, n) \in V
    BY HeadOf
  <1> HIDE DEF S, V, N
  <1>4. F \in [D -> [[D -> V] -> V]]
    <2>1. ASSUME NEW n \in D, NEW h \in [D -> V], S(n) # 0 PROVE h[n - S(n)] \in V
      <3>1. n - S(n) \in D
        BY <1>2, <2>1
      <3> HIDE DEF D
      <3>2. QED
        BY <3>1
    <2> HIDE DEF D
    <2>2. QED
      BY <1>3, <2>1
  <1>5. ASSUME NEW n \in D, NEW h \in [D -> V], NEW k \in [D -> V],
               \A e \in D : rank[e] < rank[n] => h[e] = k[e]
        PROVE  F[n][h] = F[n][k]
    <2>1. CASE S(n) = 0
      BY <2>1
    <2>2. CASE S(n) # 0
      <3>1. n - S(n) \in D /\ rank[n - S(n)] < rank[n]
        BY <1>2, <2>2
      <3>2. h[n - S(n)] = k[n - S(n)]
        BY <1>5, <3>1
      <3>3. QED
        BY <2>2, <3>2
    <2>3. QED
      BY <2>1, <2>2
  <1>6. \E it : Equation(it)
    <2>1. rank \in [D -> 0..N] /\ V # {}
      BY <1>1, <1>3
    <2> HIDE DEF F, rank, D
    <2>2. IsRecursion(D, N, rank, V, F)
      BY <1>1, <1>4, <1>5, <2>1 DEF IsRecursion
    <2>3. PICK g : Solves(g, D, V, F)
      BY <2>2, Recursion
    <2>4. Equation(g)
      BY <2>3 DEF Solves, F
    <2>5. QED
      BY <2>4
  <1>7. Equation(from)
    BY <1>6
  <1>8. RootOf(f) = from[N]
    BY DEF RootOf, S, N
  <1> HIDE DEF from
  <1>9. \A n \in D : from[n] = IF S(n) = 0 THEN SubSeq(f, 1, n) ELSE from[n - S(n)]
    BY <1>7
  <1>10. IsRoots(f, from)
    BY <1>9 DEF IsRoots, S, N
  <1>11. QED
    BY <1>8, <1>10 DEF N

(* From where on the names of a folder may be read as times.               *)
IsReading(f, reads) ==
  /\ reads \in [1..(Len(f) + 1) -> BOOLEAN]
  /\ \A i \in 1..(Len(f) + 1) :
       reads[i] <=> (i = Len(f) + 1 \/ \E n \in {1, 3, 4} : i + n <= Len(f) + 1 /\ Tile(f, i, n) /\ reads[i + n])

Readings(f) ==
  LET Times(i, n) == \/ n = 1 /\ IsStamp(f[i])
                     \/ n = 3 /\ LooksLikeDay(f, i)
                     \/ n = 4 /\ LooksLikeDay(f, i) /\ HasHour(f, i)
      Reads[i \in 1..(Len(f) + 1)] ==
        i = Len(f) + 1 \/ \E n \in {1, 3, 4} : i + n <= Len(f) + 1 /\ Times(i, n) /\ Reads[i + n]
  IN  {i \in 1..(Len(f) + 1) : Reads[i]}

LEMMA ReadingsDefined ==
  ASSUME NEW f \in Seq(Names)
  PROVE  \E reads : IsReading(f, reads) /\ Readings(f) = {i \in 1..(Len(f) + 1) : reads[i]}
  <1> DEFINE N == Len(f)
             D == 1..(N + 1)
             V == BOOLEAN
             Step(i, h) == i = N + 1 \/ \E n \in {1, 3, 4} : i + n <= N + 1 /\ Tile(f, i, n) /\ h[i + n]
             F == [i \in D |-> [h \in [D -> V] |-> Step(i, h)]]
             rank == [i \in D |-> N + 1 - i]
             Equation(it) == it = [i \in D |-> Step(i, it)]
             reads == CHOOSE it : Equation(it)
  <1>1. N \in Nat
    OBVIOUS
  <1> HIDE DEF N
  <1>2. F \in [D -> [[D -> V] -> V]]
    <2>1. \A i, h : Step(i, h) \in BOOLEAN
      OBVIOUS
    <2> HIDE DEF D, Step
    <2>2. QED
      BY <2>1
  <1>3. ASSUME NEW i \in D, NEW h \in [D -> V], NEW k \in [D -> V],
               \A e \in D : rank[e] < rank[i] => h[e] = k[e]
        PROVE  F[i][h] = F[i][k]
    <2>1. ASSUME NEW n \in {1, 3, 4}, i + n <= N + 1 PROVE h[i + n] = k[i + n]
      <3>1. i + n \in D /\ rank[i + n] < rank[i]
        BY <1>1, <2>1
      <3>2. QED
        BY <1>3, <3>1
    <2>2. Step(i, h) = Step(i, k)
      BY <2>1, Zenon
    <2> HIDE DEF Step, D
    <2>3. QED
      BY <2>2
  <1>4. \E it : Equation(it) /\ it \in [D -> V]
    <2>1. rank \in [D -> 0..(N + 1)] /\ V # {} /\ N + 1 \in Nat
      <3>1. \A i \in D : N + 1 - i \in 0..(N + 1)
        BY <1>1
      <3>2. TRUE \in V /\ N + 1 \in Nat
        BY <1>1
      <3> HIDE DEF D, V
      <3>3. rank \in [D -> 0..(N + 1)]
        BY <3>1
      <3>4. QED
        BY <3>2, <3>3
    <2> HIDE DEF F, rank, D, V, Step
    <2>2. IsRecursion(D, N + 1, rank, V, F)
      BY <1>2, <1>3, <2>1 DEF IsRecursion
    <2>3. PICK g : Solves(g, D, V, F)
      BY <2>2, Recursion
    <2>4. Equation(g)
      BY <2>3 DEF Solves, F
    <2>5. QED
      BY <2>3, <2>4 DEF Solves
  <1>5. Equation(reads)
    BY <1>4
  <1>6. reads \in [D -> BOOLEAN] /\ \A i \in D : reads[i] <=> Step(i, reads)
    <2>1. \A i : Step(i, reads) \in BOOLEAN
      OBVIOUS
    <2> HIDE DEF reads, Step, D
    <2>2. QED
      BY <1>5, <2>1
  <1>7. Readings(f) = {i \in D : reads[i]}
    BY DEF Readings, Tile, N
  <1> HIDE DEF reads
  <1>8. IsReading(f, reads)
    BY <1>6 DEF IsReading, N
  <1>9. QED
    BY <1>7, <1>8 DEF N
(* The root ends where the shortest of the readings begins.                *)
LEMMA RootBeforeReadings ==
  ASSUME NEW f \in Seq(Names)
  PROVE  RootOf(f) = SubSeq(f, 1, Min(Readings(f)) - 1)
  <1> DEFINE N == Len(f)
             S(n) == Stripped(SubSeq(f, 1, n))
  <1>1. N \in Nat
    OBVIOUS
  <1>2. PICK from : IsRoots(f, from) /\ RootOf(f) = from[N]
    BY RootsDefined
  <1>3. PICK reads : IsReading(f, reads) /\ Readings(f) = {i \in 1..(N + 1) : reads[i]}
    BY ReadingsDefined
  <1>4. \A n \in 0..N : S(n) # 0 => S(n) \in {1, 3, 4} /\ S(n) <= n /\ Tile(f, n + 1 - S(n), S(n))
    BY TileEnds
  <1>5. \A i \in Nat, n \in {1, 3, 4} : i >= 1 /\ i + n <= N + 1 /\ Tile(f, i, n) => S(i + n - 1) = n
    <2>1. ASSUME NEW i \in Nat, NEW n \in {1, 3, 4}, i >= 1, i + n <= N + 1, Tile(f, i, n)
          PROVE  S(i + n - 1) = n
      <3>1. i + n - 1 \in 0..N /\ n <= i + n - 1 /\ i + n - 1 + 1 - n = i
        BY <1>1, <2>1
      <3>2. QED
        BY <2>1, <3>1, TileEnds
    <2>2. QED
      BY <2>1
  <1>6. \A n \in 0..N : from[n] = IF S(n) = 0 THEN SubSeq(f, 1, n) ELSE from[n - S(n)]
    BY <1>2 DEF IsRoots
  <1>7. \A i \in 1..(N + 1) :
          reads[i] <=> (i = N + 1 \/ \E n \in {1, 3, 4} : i + n <= N + 1 /\ Tile(f, i, n) /\ reads[i + n])
    BY <1>3 DEF IsReading
  <1> HIDE DEF S, N
  (* What is left of the first n names is a head of them, and if the rest  *)
  (* after n may be read as times, so may the rest after that head.        *)
  <1> DEFINE IsHead(n, k) == k <= n /\ from[n] = SubSeq(f, 1, k) /\ (reads[n + 1] => reads[k + 1])
             D == 0..N
             id == [n \in D |-> n]
             P == {n \in D : \E k \in 0..N : IsHead(n, k)}
  <1>8. ASSUME NEW n \in D, \A e \in D : id[e] < id[n] => e \in P
        PROVE  n \in P
    <2>1. CASE S(n) = 0
      <3>1. IsHead(n, n)
        <4>1. n <= n
          BY <1>1
        <4>2. from[n] = SubSeq(f, 1, n)
          BY <1>6, <2>1
        <4>3. QED
          BY <4>1, <4>2
      <3>2. QED
        BY <3>1
    <2>2. CASE S(n) # 0
      <3>1. S(n) \in {1, 3, 4} /\ S(n) <= n /\ Tile(f, n + 1 - S(n), S(n))
        BY <1>4, <2>2
      <3>2. n - S(n) \in D /\ id[n - S(n)] < id[n]
        BY <1>1, <3>1
      <3>3. PICK k \in 0..N : IsHead(n - S(n), k)
        BY <1>8, <3>2
      <3>4. from[n] = from[n - S(n)]
        BY <1>6, <2>2
      <3>5. reads[n + 1] => reads[n - S(n) + 1]
        <4>1. /\ n - S(n) + 1 = n + 1 - S(n) /\ n - S(n) + 1 \in 1..(N + 1)
              /\ n - S(n) + 1 + S(n) = n + 1 /\ n + 1 <= N + 1
          BY <1>1, <3>1
        <4>2. QED
          BY <1>7, <3>1, <4>1
      <3>6. k <= n
        BY <1>1, <3>1, <3>3
      <3>7. IsHead(n, k)
        BY <3>3, <3>4, <3>5, <3>6
      <3>8. QED
        BY <3>7
    <2>3. QED
      BY <2>1, <2>2
  <1>9. D \subseteq P
    <2>1. id \in [D -> Nat]
      BY <1>1
    <2> HIDE DEF P, id, D
    <2>2. QED
      BY <1>8, <2>1, RankInduction
  <1>10. PICK k \in 0..N : IsHead(N, k)
    BY <1>1, <1>9
  <1>11. k + 1 \in Readings(f)
    <2>1. N + 1 \in 1..(N + 1) /\ k + 1 \in 1..(N + 1)
      BY <1>1
    <2>2. reads[N + 1]
      BY <1>7, <2>1
    <2>3. QED
      BY <1>3, <1>10, <2>1, <2>2
  (* Wherever a reading begins, what is left before it is the root.        *)
  <1> DEFINE E == 1..(N + 1)
             rest == [i \in E |-> N + 1 - i]
             Q == {i \in E : reads[i] => from[i - 1] = from[N]}
  <1>12. ASSUME NEW i \in E, \A e \in E : rest[e] < rest[i] => e \in Q
         PROVE  i \in Q
    <2>1. SUFFICES ASSUME reads[i] PROVE from[i - 1] = from[N]
      OBVIOUS
    <2>2. CASE i = N + 1
      <3>1. i - 1 = N
        BY <1>1, <2>2
      <3>2. QED
        BY <3>1
    <2>3. CASE i # N + 1
      <3>1. PICK n \in {1, 3, 4} : i + n <= N + 1 /\ Tile(f, i, n) /\ reads[i + n]
        BY <1>7, <2>1, <2>3
      <3>2. i + n \in E /\ rest[i + n] < rest[i] /\ i \in Nat /\ i >= 1
        BY <1>1, <3>1
      <3>3. from[i + n - 1] = from[N]
        BY <1>12, <3>1, <3>2
      <3>4. S(i + n - 1) = n
        BY <1>5, <3>1, <3>2
      <3>5. i + n - 1 \in 0..N /\ i + n - 1 - n = i - 1 /\ n # 0
        BY <1>1, <3>1, <3>2
      <3>6. from[i + n - 1] = from[i - 1]
        BY <1>6, <3>4, <3>5
      <3>7. QED
        BY <3>3, <3>6
    <2>4. QED
      BY <2>2, <2>3
  <1>13. \A i \in Readings(f) : from[i - 1] = from[N]
    <2>1. rest \in [E -> Nat]
      BY <1>1
    <2>2. E \subseteq Q
      <3> HIDE DEF E, Q, rest
      <3>1. QED
        BY <1>12, <2>1, RankInduction
    <2>3. QED
      BY <1>3, <2>2
  <1>14. ASSUME NEW i \in Readings(f) PROVE k + 1 <= i
    <2>1. i \in 1..(N + 1) /\ i - 1 \in D /\ from[i - 1] = from[N]
      BY <1>1, <1>3, <1>13
    <2>2. i - 1 \in P
      BY <1>9, <2>1
    <2>3. PICK j \in 0..N : IsHead(i - 1, j)
      BY <2>2
    <2>4. SubSeq(f, 1, j) = SubSeq(f, 1, k)
      BY <1>10, <2>1, <2>3
    <2>5. j = k
      <3>1. Len(SubSeq(f, 1, j)) = j /\ Len(SubSeq(f, 1, k)) = k
        BY HeadOf DEF N
      <3>2. QED
        BY <2>4, <3>1
    <2>6. QED
      BY <1>1, <2>1, <2>3, <2>5
  <1>15. Min(Readings(f)) = k + 1
    <2>1. Readings(f) \in SUBSET Nat
      BY <1>1, <1>3
    <2>2. Min(Readings(f)) \in Readings(f) /\ Min(Readings(f)) <= k + 1
      BY <1>11, <2>1, MinMember
    <2>3. k + 1 <= Min(Readings(f))
      BY <1>14, <2>2
    <2>4. QED
      BY <1>1, <2>1, <2>2, <2>3
  <1>16. k + 1 - 1 = k
    OBVIOUS
  <1>17. QED
    BY <1>2, <1>10, <1>15, <1>16

-----------------------------------------------------------------------------
(* The period and the roots of what is archived                            *)

LEMMA SelectedTime ==
  ASSUME InputsKnown, NEW e \in Routes \X Objects, Select(e) # None
  PROVE  IsTime(Select(e).time)
  <1>1. e[1] \in Routes /\ e[2] \in Objects
    OBVIOUS
  <1>2. IsObject(object[e[2]]) /\ route[e[1]].parser \in Parsers
    BY <1>1, InputTypes DEF IsRoute
  <1>3. QED
    BY <1>2, ParseTimes DEF Select

LEMMA IncludesIsPeriod ==
  ASSUME IsRange(From, To), NEW day \in Nat, IsCalendarDay(day)
  PROVE  Includes(From, To, day) <=>
           /\ From # None => Leading(day, Len(From)) >= Leading(Bound(From, "start"), Len(From))
           /\ To # None => Leading(day, Len(To)) <= Leading(Bound(To, "start"), Len(To))
  <1>1. ASSUME NEW text \in {From, To}, text # None
        PROVE  text \in Seq(Nat) /\ Len(text) \in 1..3 /\ IsBound(text)
    BY <1>1, ManifestConstants DEF IsRange
  <1>2. From # None => (Bound(From, "start") <= day <=>
                          Leading(day, Len(From)) >= Leading(Bound(From, "start"), Len(From)))
    BY <1>1, BoundIsPeriod
  <1>3. To # None => (day <= Bound(To, "end") <=>
                        Leading(day, Len(To)) <= Leading(Bound(To, "start"), Len(To)))
    BY <1>1, BoundIsPeriod
  <1>4. QED
    BY <1>2, <1>3 DEF Includes

LEMMA InvariantRange == BuildInv => RangeIsPeriod
  <1> DEFINE Within(day) ==
        /\ From # None => Leading(day, Len(From)) >= Leading(Bound(From, "start"), Len(From))
        /\ To # None => Leading(day, Len(To)) <= Leading(Bound(To, "start"), Len(To))
  <1> SUFFICES ASSUME BuildInv
               PROVE  /\ \A e \in entries : Within(TargetDay(e))
                      /\ \A s \in skipped : s[3] = "date range" => ~Within(TargetDay(<<s[1], s[2]>>))
    BY DEF RangeIsPeriod
  <1>1. /\ entries \subseteq Routes \X Objects /\ skipped \subseteq Routes \X Objects \X Skips
        /\ InputsKnown
    BY DEF BuildInv, TypeOK, InputsKnown
  <1>2. SelectedSound
    BY DEF BuildInv
  <1>3. entries # {} \/ skipped # {} => IsRange(From, To)
    BY DEF BuildInv, InputsAccepted, NothingListed
  <1>4. ASSUME NEW e \in Routes \X Objects, e \in DOMAIN told, Select(e) # None, IsRange(From, To)
        PROVE  TargetDay(e) = DayOf(Select(e).time) /\ (Includes(From, To, TargetDay(e)) <=> Within(TargetDay(e)))
    <2>1. told[e] = Select(e)
      BY <1>2, <1>4 DEF SelectedSound
    <2>2. IsTime(Select(e).time)
      BY <1>1, <1>4, SelectedTime
    <2>3. TargetDay(e) = DayOf(Select(e).time)
      BY <2>1 DEF TargetDay
    <2>4. TargetDay(e) \in Nat /\ IsCalendarDay(TargetDay(e))
      BY <2>2, <2>3 DEF IsTime, DayOf
    <2>5. Includes(From, To, TargetDay(e)) <=> Within(TargetDay(e))
      BY <1>4, <2>4, IncludesIsPeriod
    <2>6. QED
      BY <2>3, <2>5
  <1>5. ASSUME NEW e \in entries PROVE Within(TargetDay(e))
    <2>1. e \in Routes \X Objects /\ e \in DOMAIN told /\ SkipReason(e) = None /\ IsRange(From, To)
      BY <1>1, <1>2, <1>3 DEF SelectedSound
    <2>2. Select(e) # None /\ Includes(From, To, DayOf(Select(e).time))
      BY <2>1, ManifestConstants DEF SkipReason, Skips
    <2>3. QED
      BY <1>4, <2>1, <2>2
  <1>6. ASSUME NEW s \in skipped, s[3] = "date range" PROVE ~Within(TargetDay(<<s[1], s[2]>>))
    <2>1. Row(s) = <<s[1], s[2]>> /\ Row(s) \in Routes \X Objects
      BY <1>1 DEF Row
    <2>2. Row(s) \in DOMAIN told /\ SkipReason(Row(s)) = "date range" /\ IsRange(From, To)
      BY <1>2, <1>3, <1>6 DEF SelectedSound
    <2>3. Select(Row(s)) # None /\ ~Includes(From, To, DayOf(Select(Row(s)).time))
      BY <2>2, ManifestConstants DEF SkipReason, Skips
    <2>4. QED
      BY <1>4, <2>1, <2>2, <2>3
  <1>7. QED
    BY <1>5, <1>6

(* Every entry's day lies in the period that the configured bounds name,   *)
(* and no object that was left out for its day does, for any bounds of a   *)
(* year, a month or a day.                                                 *)
THEOREM EntriesInPeriod == Spec => []RangeIsPeriod
  BY ManifestInvariant, InvariantRange, PTL

LEMMA InvariantRoots == BuildInv => RootIsShortest
  <1> SUFFICES ASSUME BuildInv, NEW e \in entries, route[e[1]].parser \in {"filename_timestamp", "folder_timestamp"}
               PROVE  told[e].root = SubSeq(object[e[2]].folder, 1, Min(Readings(object[e[2]].folder)) - 1)
    BY DEF RootIsShortest, Readings
  <1>1. e \in Routes \X Objects /\ InputsKnown
    BY DEF BuildInv, TypeOK, InputsKnown
  <1>2. told[e] = Select(e) /\ SkipReason(e) = None
    BY DEF BuildInv, SelectedSound
  <1>3. Select(e) # None
    BY <1>2, ManifestConstants DEF SkipReason, Skips
  <1>4. e[2] \in Objects /\ object[e[2]].folder \in Seq(Names)
    BY <1>1, InputTypes
  <1>5. \A time, root : Told(time, root) # None => Told(time, root).root = root
    BY DEF Told
  <1>6. told[e].root = RootOf(object[e[2]].folder)
    <2>1. CASE route[e[1]].parser = "filename_timestamp"
      <3>1. Select(e) = ByFilename(object[e[2]])
        BY <2>1 DEF Select, Parse
      <3>2. QED
        BY <1>2, <1>3, <1>5, <3>1 DEF ByFilename
    <2>2. CASE route[e[1]].parser = "folder_timestamp"
      <3>1. Select(e) = ByFolder(object[e[2]])
        BY <2>2 DEF Select, Parse
      <3>2. QED
        BY <1>2, <1>3, <1>5, <3>1 DEF ByFolder
    <2>3. QED
      BY <2>1, <2>2
  <1>7. QED
    BY <1>4, <1>6, RootBeforeReadings

(* Every entry's archive root is the shortest folder that any reading of   *)
(* the names at the end of its folder as times leaves, for folders of any  *)
(* length.                                                                 *)
THEOREM RootsShortest == Spec => []RootIsShortest
  BY ManifestInvariant, InvariantRoots, PTL
=============================================================================
