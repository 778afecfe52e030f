-------------------------- MODULE HeartbeatProofs --------------------------
(***************************************************************************)
(* The seqlock's promise for every set of fields, retry bound and number   *)
(* of beats.  The inductive invariant says what the histories of the       *)
(* locations carry (History), where the writer stands in them              *)
(* (WriterPlace) and what the reader's view already excludes (ReaderPlace).*)
(***************************************************************************)
EXTENDS Heartbeat, TLAPS

NoBeat == [f \in Fields |-> 0]

(* Write i of a location holds i - 1; a field write of beat k carries a    *)
(* sequence view no older than that beat's odd store (write 2k); the even  *)
(* store of beat k carries every field of beat k.                          *)
History ==
  /\ \A l \in Locations : Len(mem[l]) >= 1
  /\ \A l \in Locations : \A i \in 1 .. Len(mem[l]) : mem[l][i].val = i - 1
  /\ \A f \in Fields : \A i \in 1 .. Len(mem[f]) :
       mem[f][i].view[Sequence] >= 2 * i - 2
  /\ \A k \in Nat : 2 * k + 1 <= Len(mem[Sequence]) =>
       \A f \in Fields : mem[Sequence][2 * k + 1].view[f] >= k + 1

WriterPlace ==
  /\ Len(mem[Sequence]) \in {2 * writer.done + 1, 2 * writer.done + 2}
  /\ writer.pc = "idle" =>
       /\ writer.done = writer.beat
       /\ Len(mem[Sequence]) = 2 * writer.beat + 1
       /\ \A f \in Fields : Len(mem[f]) = writer.beat + 1
  /\ writer.pc = "fence" =>
       /\ writer.beat = writer.done + 1
       /\ Len(mem[Sequence]) = 2 * writer.beat
       /\ writer.view[Sequence] >= 2 * writer.beat
       /\ \A f \in Fields : Len(mem[f]) = writer.beat
  /\ writer.pc = "fields" =>
       /\ writer.beat = writer.done + 1
       /\ Len(mem[Sequence]) = 2 * writer.beat
       /\ writer.fence[Sequence] >= 2 * writer.beat
       /\ \A f \in writer.left : Len(mem[f]) = writer.beat
       /\ \A f \in Fields \ writer.left :
            Len(mem[f]) = writer.beat + 1 /\ writer.view[f] >= writer.beat + 1

ReaderPlace ==
  /\ reader.view[Sequence] >= 1 /\ \A f \in Fields : reader.view[f] >= 1
  /\ answer.beat # NoBeat => reader.view[Sequence] >= 2
  /\ reader.pc # "idle" =>
       /\ reader.before >= 1
       /\ reader.view[Sequence] >= reader.before + 1
       /\ \A k \in Nat : reader.before = 2 * k =>
            /\ \A f \in Fields : reader.view[f] >= k + 1
            /\ \A f \in Fields \ reader.left : reader.beat[f] >= k
  /\ reader.pc = "fields" =>
       \A f \in Fields \ reader.left : reader.pending[Sequence] >= 2 * reader.beat[f]
  /\ reader.pc = "after" =>
       /\ reader.left = {}
       /\ \A f \in Fields : reader.view[Sequence] >= 2 * reader.beat[f]

IInv == TypeOK /\ History /\ WriterPlace /\ ReaderPlace
          /\ SampleIsOneBeat /\ NeverBeatIsFinal

-----------------------------------------------------------------------------
(* Joining views and moving one on never loses what was seen.              *)
LEMMA JoinAbove ==
  ASSUME NEW v \in View, NEW w \in View
  PROVE  /\ Join(v, w) \in View
         /\ \A l \in Locations : Join(v, w)[l] >= v[l] /\ Join(v, w)[l] >= w[l]
BY DEF Join, View

(* Moving a view on at one location moves it back nowhere.                 *)
LEMMA AtAbove ==
  ASSUME NEW v \in View, NEW l \in Locations, NEW i \in Nat
  PROVE  /\ At(v, l, i) \in View
         /\ At(v, l, i)[l] >= i
         /\ \A m \in Locations : At(v, l, i)[m] >= v[m]
BY DEF At, View

(* A view holds a number for every location.                               *)
LEMMA ViewNat == ASSUME NEW v \in View PROVE \A l \in Locations : v[l] \in Nat
BY DEF View

(* The initial state satisfies the inductive invariant.                    *)
LEMMA InitInv == Init => IInv
<1> SUFFICES ASSUME Init PROVE IInv
  OBVIOUS
<1> USE FieldsAssumption, RetriesAssumption
<1>0. Bottom \in View /\ [val |-> 0, view |-> Bottom] \in Write
  BY DEF Bottom, View, Write
<1>1. TypeOK
  BY <1>0 DEF Init, TypeOK
<1>2. \A l \in Locations : mem[l] = <<[val |-> 0, view |-> Bottom]>>
  BY DEF Init
<1>3. Sequence \in Locations /\ Fields \subseteq Locations
  BY DEF Locations
<1>4. ASSUME NEW l \in Locations
      PROVE  /\ Len(mem[l]) = 1
             /\ mem[l][1].val = 0
             /\ mem[l][1].view = Bottom
  BY <1>2
<1>5. \A l \in Locations : Bottom[l] = 1
  BY DEF Bottom
<1>6. History
  <2>1. \A l \in Locations : Len(mem[l]) >= 1
    BY <1>4
  <2>2. \A l \in Locations : \A i \in 1 .. Len(mem[l]) : mem[l][i].val = i - 1
    BY <1>4
  <2>3. \A f \in Fields : \A i \in 1 .. Len(mem[f]) :
          mem[f][i].view[Sequence] >= 2 * i - 2
    BY <1>3, <1>4, <1>5
  <2>4. ASSUME NEW k \in Nat, 2 * k + 1 <= Len(mem[Sequence])
        PROVE  \A f \in Fields : mem[Sequence][2 * k + 1].view[f] >= k + 1
    <3>1. Len(mem[Sequence]) = 1
      BY <1>3, <1>4
    <3>2. k = 0
      BY <2>4, <3>1
    <3> QED BY <1>3, <1>4, <1>5, <3>2
  <2> QED BY <2>1, <2>2, <2>3, <2>4 DEF History
<1>7. WriterPlace
  BY <1>3, <1>4 DEF WriterPlace, Init
<1>8. ReaderPlace
  BY DEF ReaderPlace, Init, Locations, Bottom, NoBeat
<1>9. SampleIsOneBeat /\ NeverBeatIsFinal
  BY DEF SampleIsOneBeat, NeverBeatIsFinal, Init
<1> QED BY <1>1, <1>6, <1>7, <1>8, <1>9 DEF IInv

-----------------------------------------------------------------------------
(* A store appends one write to one location and leaves the others alone.  *)
LEMMA StoreAppends ==
  ASSUME TypeOK, NEW l \in Locations, NEW val \in Nat, NEW carried \in View,
         Store(l, val, carried)
  PROVE  /\ mem' \in [Locations -> Seq(Write)]
         /\ Len(mem'[l]) = Len(mem[l]) + 1
         /\ mem'[l][Len(mem[l]) + 1].val = val
         /\ mem'[l][Len(mem[l]) + 1].view = At(carried, l, Len(mem[l]) + 1)
         /\ \A i \in 1 .. Len(mem[l]) : mem'[l][i] = mem[l][i]
         /\ \A m \in Locations \ {l} : mem'[m] = mem[m]
<1> DEFINE n == Len(mem[l]) + 1
           new == [val |-> val, view |-> At(carried, l, n)]
<1>1. mem \in [Locations -> Seq(Write)] /\ mem[l] \in Seq(Write) /\ n \in Nat
  BY DEF TypeOK
<1>2. new \in Write
  BY <1>1, AtAbove DEF Write
<1>3. mem' = [mem EXCEPT ![l] = Append(mem[l], new)]
  BY DEF Store
<1> HIDE DEF new
<1>4. Append(mem[l], new) \in Seq(Write)
  BY <1>1, <1>2
<1>5. mem'[l] = Append(mem[l], new) /\ \A m \in Locations \ {l} : mem'[m] = mem[m]
  BY <1>1, <1>3
<1>6. mem' \in [Locations -> Seq(Write)]
  BY <1>1, <1>3, <1>4
<1>7. /\ Len(mem'[l]) = n
      /\ mem'[l][n] = new
      /\ \A i \in 1 .. Len(mem[l]) : mem'[l][i] = mem[l][i]
  BY <1>1, <1>2, <1>5
<1>8. new.val = val /\ new.view = At(carried, l, n)
  BY DEF new
<1> QED BY <1>5, <1>6, <1>7, <1>8

(* The length of a location's history is a number.                         *)
LEMMA LenNat ==
  ASSUME TypeOK
  PROVE  \A l \in Locations : Len(mem[l]) \in Nat /\ Len(mem[l]) + 1 \in Nat
<1> SUFFICES ASSUME NEW l \in Locations PROVE Len(mem[l]) \in Nat
  OBVIOUS
<1>1. mem[l] \in Seq(Write)
  BY DEF TypeOK
<1> QED BY <1>1

(* The writer's own load returns the number of writes made before.         *)
LEMMA LatestValue ==
  ASSUME TypeOK, History, NEW l \in Locations
  PROVE  Latest(l) = Len(mem[l]) - 1 /\ Latest(l) \in Nat
<1>1. Len(mem[l]) \in Nat /\ Len(mem[l]) >= 1
  BY LenNat DEF History
<1> QED BY <1>1 DEF History, Latest

(* The store that makes the sequence number odd keeps the invariant.       *)
LEMMA GoOddInv == IInv /\ GoOdd => IInv'
<1> SUFFICES ASSUME IInv, GoOdd PROVE IInv'
  OBVIOUS
<1> USE FieldsAssumption DEF IInv
<1>0. Sequence \in Locations /\ Fields \subseteq Locations
  BY DEF Locations
<1>1. /\ writer.pc = "idle"
      /\ Store(Sequence, Latest(Sequence) + 1, writer.fence)
      /\ writer' = [writer EXCEPT !.pc = "fence", !.beat = writer.beat + 1,
                                   !.view = WriterSees(Sequence)]
      /\ UNCHANGED <<reader, answer>>
  BY DEF GoOdd
<1>2. writer.fence \in View /\ writer.view \in View /\ writer.beat \in Nat
      /\ writer.done \in Nat /\ mem \in [Locations -> Seq(Write)]
  BY DEF TypeOK
<1>3. Latest(Sequence) = Len(mem[Sequence]) - 1 /\ Latest(Sequence) + 1 \in Nat
  BY <1>0, LatestValue
<1> DEFINE n == Len(mem[Sequence]) + 1
<1>4. /\ mem' \in [Locations -> Seq(Write)]
      /\ Len(mem'[Sequence]) = n
      /\ mem'[Sequence][n].val = Latest(Sequence) + 1
      /\ \A i \in 1 .. Len(mem[Sequence]) : mem'[Sequence][i] = mem[Sequence][i]
      /\ \A m \in Locations \ {Sequence} : mem'[m] = mem[m]
  BY <1>0, <1>1, <1>2, <1>3, StoreAppends
<1>5. n = 2 * writer.beat + 2 /\ Len(mem[Sequence]) = 2 * writer.beat + 1
      /\ n \in Nat /\ Len(mem[Sequence]) \in Nat
  <2>1. Len(mem[Sequence]) \in Nat
    BY <1>0, LenNat
  <2>2. Len(mem[Sequence]) = 2 * writer.beat + 1
    BY <1>1 DEF WriterPlace
  <2> QED BY <1>2, <2>1, <2>2
<1>6. WriterSees(Sequence) \in View /\ WriterSees(Sequence)[Sequence] >= n
  BY <1>0, <1>2, <1>5, AtAbove DEF WriterSees
<1>7. TypeOK'
  <2>1. writer' \in [pc : {"idle", "fence", "fields", "dead"}, view : View,
                     fence : View, beat : Nat, done : Nat, left : SUBSET Fields]
    <3>1. writer.beat + 1 \in Nat
      BY <1>2
    <3> QED BY <1>1, <1>6, <3>1 DEF TypeOK
  <2> QED BY <1>1, <1>4, <2>1 DEF TypeOK
<1>8. History'
  <2>1. \A l \in Locations : Len(mem'[l]) >= 1
    <3>1. Len(mem'[Sequence]) >= 1
      BY <1>4, <1>5
    <3> QED BY <1>4, <3>1 DEF History
  <2>2. \A l \in Locations : \A i \in 1 .. Len(mem'[l]) : mem'[l][i].val = i - 1
    <3>1. ASSUME NEW i \in 1 .. n PROVE mem'[Sequence][i].val = i - 1
      <4>1. CASE i = n
        BY <1>3, <1>4, <1>5, <4>1
      <4>2. CASE i \in 1 .. Len(mem[Sequence])
        BY <1>0, <1>4, <4>2 DEF History
      <4> QED BY <1>5, <4>1, <4>2
    <3> QED BY <1>4, <3>1 DEF History
  <2>3. \A f \in Fields : mem'[f] = mem[f]
    BY <1>0, <1>4
  <2>4. \A f \in Fields : \A i \in 1 .. Len(mem'[f]) :
          mem'[f][i].view[Sequence] >= 2 * i - 2
    BY <2>3 DEF History
  <2>5. \A k \in Nat : 2 * k + 1 <= Len(mem'[Sequence]) =>
          \A f \in Fields : mem'[Sequence][2 * k + 1].view[f] >= k + 1
    <3> SUFFICES ASSUME NEW k \in Nat, 2 * k + 1 <= n
                 PROVE  \A f \in Fields : mem'[Sequence][2 * k + 1].view[f] >= k + 1
      BY <1>4
    <3>1. 2 * k + 1 \in 1 .. Len(mem[Sequence])
      BY <1>2, <1>5
    <3>2. mem'[Sequence][2 * k + 1] = mem[Sequence][2 * k + 1]
      BY <1>4, <3>1
    <3>3. \A f \in Fields : mem[Sequence][2 * k + 1].view[f] >= k + 1
      BY <3>1 DEF History
    <3> QED BY <3>2, <3>3
  <2> QED BY <2>1, <2>2, <2>4, <2>5 DEF History
<1>9. WriterPlace'
  <2>1. \A f \in Fields : Len(mem'[f]) = writer.beat + 1
    BY <1>0, <1>1, <1>4 DEF WriterPlace
  <2>2. /\ writer'.pc = "fence" /\ writer'.beat = writer.beat + 1
        /\ writer'.done = writer.done /\ writer.done = writer.beat
        /\ writer'.view[Sequence] >= n
    BY <1>1, <1>6 DEF TypeOK, WriterPlace
  <2> QED BY <1>2, <1>4, <1>5, <2>1, <2>2 DEF WriterPlace
<1>10. ReaderPlace'
  BY <1>1 DEF ReaderPlace
<1>11. SampleIsOneBeat' /\ NeverBeatIsFinal'
  BY <1>1, <1>2 DEF SampleIsOneBeat, NeverBeatIsFinal, TypeOK
<1> QED BY <1>7, <1>8, <1>9, <1>10, <1>11

(* The fence between the odd store and the fields keeps the invariant.     *)
LEMMA FenceInv == IInv /\ Fence => IInv'
<1> SUFFICES ASSUME IInv, Fence PROVE IInv'
  OBVIOUS
<1> USE DEF IInv
<1>1. /\ writer.pc = "fence"
      /\ writer' = [writer EXCEPT !.pc = "fields", !.fence = writer.view,
                                   !.left = Fields]
      /\ UNCHANGED <<mem, reader, answer>>
  BY DEF Fence, FenceView
<1>2. TypeOK'
  BY <1>1 DEF TypeOK
<1>3. /\ writer'.pc = "fields" /\ writer'.beat = writer.beat
      /\ writer'.done = writer.done /\ writer'.fence = writer.view
      /\ writer'.left = Fields
  BY <1>1 DEF TypeOK
<1>4. History' /\ ReaderPlace' /\ NeverBeatIsFinal'
  BY <1>1 DEF History, ReaderPlace, NeverBeatIsFinal
<1>5. WriterPlace'
  BY <1>1, <1>3 DEF WriterPlace
<1>6. SampleIsOneBeat'
  BY <1>1, <1>3 DEF SampleIsOneBeat
<1> QED BY <1>2, <1>4, <1>5, <1>6

(* A relaxed store of one field, after the fence, keeps it.                *)
LEMMA StoreFieldInv == ASSUME NEW f \in Fields PROVE IInv /\ StoreField(f) => IInv'
<1> SUFFICES ASSUME IInv, StoreField(f) PROVE IInv'
  OBVIOUS
<1> USE FieldsAssumption DEF IInv
<1>0. Sequence \in Locations /\ f \in Locations /\ Fields \subseteq Locations /\ f # Sequence
  BY DEF Locations
<1>1. /\ writer.pc = "fields" /\ f \in writer.left
      /\ Store(f, writer.beat, writer.fence)
      /\ writer' = [writer EXCEPT !.left = writer.left \ {f}, !.view = WriterSees(f)]
      /\ UNCHANGED <<reader, answer>>
  BY DEF StoreField
<1>2. writer.fence \in View /\ writer.view \in View /\ writer.beat \in Nat
      /\ writer.done \in Nat /\ writer.left \subseteq Fields
      /\ mem \in [Locations -> Seq(Write)]
  BY DEF TypeOK
<1>3. Len(mem[f]) = writer.beat /\ writer.fence[Sequence] >= 2 * writer.beat
  BY <1>1 DEF WriterPlace
<1> DEFINE n == writer.beat + 1
<1>4. n \in Nat /\ Len(mem[f]) + 1 = n
  BY <1>2, <1>3
<1>5. /\ mem' \in [Locations -> Seq(Write)]
      /\ Len(mem'[f]) = n
      /\ mem'[f][n].val = writer.beat
      /\ mem'[f][n].view = At(writer.fence, f, n)
      /\ \A i \in 1 .. writer.beat : mem'[f][i] = mem[f][i]
      /\ \A m \in Locations \ {f} : mem'[m] = mem[m]
  BY <1>0, <1>1, <1>2, <1>3, StoreAppends
<1>6. mem'[f][n].view[Sequence] >= 2 * n - 2
  <2>1. /\ At(writer.fence, f, n) \in View
        /\ At(writer.fence, f, n)[Sequence] >= writer.fence[Sequence]
    BY <1>0, <1>2, <1>4, AtAbove
  <2>2. At(writer.fence, f, n)[Sequence] \in Nat /\ writer.fence[Sequence] \in Nat
    BY <1>0, <1>2, <2>1, ViewNat
  <2>3. At(writer.fence, f, n)[Sequence] >= 2 * writer.beat
    BY <1>2, <1>3, <2>1, <2>2
  <2>4. 2 * n - 2 = 2 * writer.beat
    BY <1>2
  <2> QED BY <1>5, <2>3, <2>4
<1>7. /\ WriterSees(f) \in View /\ WriterSees(f)[f] >= n
      /\ \A g \in Fields : WriterSees(f)[g] >= writer.view[g]
      /\ \A g \in Fields : WriterSees(f)[g] \in Nat /\ writer.view[g] \in Nat
  <2>1. WriterSees(f) = At(writer.view, f, n)
    BY <1>4 DEF WriterSees
  <2>2. WriterSees(f) \in View /\ WriterSees(f)[f] >= n
        /\ \A g \in Locations : WriterSees(f)[g] >= writer.view[g]
    BY <1>0, <1>2, <1>4, <2>1, AtAbove
  <2> QED BY <1>0, <1>2, <2>2 DEF View
<1>8. TypeOK'
  <2>1. writer' \in [pc : {"idle", "fence", "fields", "dead"}, view : View,
                     fence : View, beat : Nat, done : Nat, left : SUBSET Fields]
    BY <1>1, <1>7 DEF TypeOK
  <2> QED BY <1>1, <1>5, <2>1 DEF TypeOK
<1>9. /\ writer'.pc = "fields" /\ writer'.beat = writer.beat
      /\ writer'.done = writer.done /\ writer'.fence = writer.fence
      /\ writer'.left = writer.left \ {f} /\ writer'.view = WriterSees(f)
  BY <1>1 DEF TypeOK
<1>10. History'
  <2>1. \A l \in Locations : Len(mem'[l]) >= 1
    <3>1. Len(mem'[f]) >= 1
      BY <1>2, <1>5
    <3> QED BY <1>5, <3>1 DEF History
  <2>2. \A l \in Locations : \A i \in 1 .. Len(mem'[l]) : mem'[l][i].val = i - 1
    <3>1. ASSUME NEW i \in 1 .. n PROVE mem'[f][i].val = i - 1
      <4>1. CASE i = n
        BY <1>2, <1>5, <4>1
      <4>2. CASE i \in 1 .. writer.beat
        BY <1>0, <1>3, <1>5, <4>2 DEF History
      <4> QED BY <1>2, <4>1, <4>2
    <3>2. ASSUME NEW l \in Locations, l # f, NEW i \in 1 .. Len(mem'[l])
          PROVE  mem'[l][i].val = i - 1
      <4>1. mem'[l] = mem[l]
        BY <1>5, <3>2
      <4> QED BY <3>2, <4>1 DEF History
    <3> QED BY <1>5, <3>1, <3>2
  <2>3. \A g \in Fields : \A i \in 1 .. Len(mem'[g]) :
          mem'[g][i].view[Sequence] >= 2 * i - 2
    <3>1. ASSUME NEW i \in 1 .. n PROVE mem'[f][i].view[Sequence] >= 2 * i - 2
      <4>1. CASE i = n
        BY <1>6, <4>1
      <4>2. CASE i \in 1 .. writer.beat
        BY <1>3, <1>5, <4>2 DEF History
      <4> QED BY <1>2, <4>1, <4>2
    <3>2. \A g \in Fields \ {f} : mem'[g] = mem[g]
      BY <1>0, <1>5
    <3> QED BY <1>5, <3>1, <3>2 DEF History
  <2>4. mem'[Sequence] = mem[Sequence]
    BY <1>0, <1>5
  <2> QED BY <2>1, <2>2, <2>3, <2>4 DEF History
<1>11. WriterPlace'
  <2>1. mem'[Sequence] = mem[Sequence] /\ \A g \in Fields \ {f} : mem'[g] = mem[g]
    BY <1>0, <1>5
  <2>2. \A g \in writer'.left : Len(mem'[g]) = writer'.beat
    BY <1>1, <1>2, <1>9, <2>1 DEF WriterPlace
  <2>3. ASSUME NEW g \in Fields \ writer'.left
        PROVE  Len(mem'[g]) = n /\ writer'.view[g] >= n
    <3>1. CASE g = f
      BY <1>5, <1>7, <1>9, <3>1
    <3>2. CASE g # f
      <4>1. Len(mem[g]) = n /\ writer.view[g] >= n
        BY <1>1, <1>9, <3>2 DEF WriterPlace
      <4>2. writer'.view[g] >= writer.view[g] /\ writer'.view[g] \in Nat /\ writer.view[g] \in Nat
        BY <1>7, <1>9
      <4> QED BY <1>4, <2>1, <3>2, <4>1, <4>2
    <3> QED BY <3>1, <3>2
  <2> QED BY <1>1, <1>9, <2>1, <2>2, <2>3 DEF WriterPlace
<1>12. ReaderPlace' /\ NeverBeatIsFinal' /\ SampleIsOneBeat'
  BY <1>1, <1>9 DEF ReaderPlace, NeverBeatIsFinal, SampleIsOneBeat
<1> QED BY <1>8, <1>10, <1>11, <1>12

(* The store that makes the sequence number even again keeps it.           *)
LEMMA GoEvenInv == IInv /\ GoEven => IInv'
<1> SUFFICES ASSUME IInv, GoEven PROVE IInv'
  OBVIOUS
<1> USE FieldsAssumption DEF IInv
<1>0. Sequence \in Locations /\ Fields \subseteq Locations
  BY DEF Locations
<1>1. /\ writer.pc = "fields" /\ writer.left = {}
      /\ Store(Sequence, Latest(Sequence) + 1, writer.view)
      /\ writer' = [writer EXCEPT !.pc = "idle", !.done = writer.beat,
                                   !.view = WriterSees(Sequence)]
      /\ UNCHANGED <<reader, answer>>
  BY DEF GoEven, AtRest
<1>2. writer.view \in View /\ writer.beat \in Nat /\ writer.done \in Nat
      /\ mem \in [Locations -> Seq(Write)]
  BY DEF TypeOK
<1>3. /\ Len(mem[Sequence]) = 2 * writer.beat /\ writer.beat = writer.done + 1
      /\ \A f \in Fields : Len(mem[f]) = writer.beat + 1 /\ writer.view[f] >= writer.beat + 1
  BY <1>1 DEF WriterPlace
<1> DEFINE n == 2 * writer.beat + 1
<1>4. n \in Nat /\ Len(mem[Sequence]) + 1 = n
  BY <1>2, <1>3
<1>5. Latest(Sequence) + 1 = n - 1 /\ Latest(Sequence) + 1 \in Nat
  <2>1. Latest(Sequence) = Len(mem[Sequence]) - 1
    BY <1>0, LatestValue
  <2> QED BY <1>2, <1>3, <2>1
<1>6. /\ mem' \in [Locations -> Seq(Write)]
      /\ Len(mem'[Sequence]) = n
      /\ mem'[Sequence][n].val = n - 1
      /\ mem'[Sequence][n].view = At(writer.view, Sequence, n)
      /\ \A i \in 1 .. Len(mem[Sequence]) : mem'[Sequence][i] = mem[Sequence][i]
      /\ \A m \in Locations \ {Sequence} : mem'[m] = mem[m]
  BY <1>0, <1>1, <1>2, <1>4, <1>5, StoreAppends
<1>7. /\ WriterSees(Sequence) \in View
      /\ \A f \in Fields : At(writer.view, Sequence, n)[f] >= writer.beat + 1
  <2>1. WriterSees(Sequence) = At(writer.view, Sequence, n)
    BY <1>4 DEF WriterSees
  <2>2. /\ At(writer.view, Sequence, n) \in View
        /\ \A l \in Locations : At(writer.view, Sequence, n)[l] >= writer.view[l]
    BY <1>0, <1>2, <1>4, AtAbove
  <2>3. ASSUME NEW f \in Fields PROVE At(writer.view, Sequence, n)[f] >= writer.beat + 1
    <3>1. At(writer.view, Sequence, n)[f] \in Nat /\ writer.view[f] \in Nat
      BY <1>0, <1>2, <2>2, ViewNat
    <3> QED BY <1>0, <1>2, <1>3, <2>2, <3>1
  <2> QED BY <2>1, <2>2, <2>3
<1>8. TypeOK'
  <2>1. writer' \in [pc : {"idle", "fence", "fields", "dead"}, view : View,
                     fence : View, beat : Nat, done : Nat, left : SUBSET Fields]
    BY <1>1, <1>7 DEF TypeOK
  <2> QED BY <1>1, <1>6, <2>1 DEF TypeOK
<1>9. writer'.pc = "idle" /\ writer'.beat = writer.beat /\ writer'.done = writer.beat
  BY <1>1 DEF TypeOK
<1>10. History'
  <2>1. \A l \in Locations : Len(mem'[l]) >= 1
    <3>1. Len(mem'[Sequence]) >= 1
      BY <1>2, <1>6
    <3> QED BY <1>6, <3>1 DEF History
  <2>2. \A l \in Locations : \A i \in 1 .. Len(mem'[l]) : mem'[l][i].val = i - 1
    <3>1. ASSUME NEW i \in 1 .. n PROVE mem'[Sequence][i].val = i - 1
      <4>1. CASE i = n
        BY <1>6, <4>1
      <4>2. CASE i \in 1 .. Len(mem[Sequence])
        BY <1>0, <1>6, <4>2 DEF History
      <4>3. i = n \/ i \in 1 .. 2 * writer.beat
        BY <1>2
      <4> QED BY <1>3, <4>1, <4>2, <4>3
    <3> QED BY <1>6, <3>1 DEF History
  <2>3. \A f \in Fields : mem'[f] = mem[f]
    BY <1>0, <1>6
  <2>4. ASSUME NEW k \in Nat, 2 * k + 1 <= n
        PROVE  \A f \in Fields : mem'[Sequence][2 * k + 1].view[f] >= k + 1
    <3>1. CASE k = writer.beat
      BY <1>6, <1>7, <3>1
    <3>2. CASE k # writer.beat
      <4>1. 2 * k + 1 <= Len(mem[Sequence]) /\ 2 * k + 1 \in 1 .. Len(mem[Sequence])
        BY <1>2, <1>3, <2>4, <3>2
      <4> QED BY <1>6, <4>1 DEF History
    <3> QED BY <3>1, <3>2
  <2> QED BY <1>6, <2>1, <2>2, <2>3, <2>4 DEF History
<1>11. WriterPlace'
  <2>1. \A f \in Fields : Len(mem'[f]) = writer.beat + 1
    BY <1>0, <1>3, <1>6
  <2> QED BY <1>6, <1>9, <2>1 DEF WriterPlace
<1>12. ReaderPlace' /\ NeverBeatIsFinal'
  BY <1>1 DEF ReaderPlace, NeverBeatIsFinal
<1>13. SampleIsOneBeat'
  BY <1>1, <1>2, <1>3, <1>9 DEF SampleIsOneBeat
<1> QED BY <1>8, <1>10, <1>11, <1>12, <1>13

(* A worker that dies anywhere in its publish leaves it as it is.          *)
LEMMA WriterDiesInv == IInv /\ WriterDies => IInv'
<1> SUFFICES ASSUME IInv, WriterDies PROVE IInv'
  OBVIOUS
<1> USE DEF IInv
<1>1. writer' = [writer EXCEPT !.pc = "dead"] /\ UNCHANGED <<mem, reader, answer>>
  BY DEF WriterDies
<1>2. writer'.pc = "dead" /\ writer'.done = writer.done
  BY <1>1 DEF TypeOK
<1>3. TypeOK'
  BY <1>1 DEF TypeOK
<1>4. History' /\ ReaderPlace' /\ NeverBeatIsFinal'
  BY <1>1 DEF History, ReaderPlace, NeverBeatIsFinal
<1>5. WriterPlace' /\ SampleIsOneBeat'
  BY <1>1, <1>2 DEF WriterPlace, SampleIsOneBeat
<1> QED BY <1>3, <1>4, <1>5

-----------------------------------------------------------------------------
(* The first load of the sequence number keeps it.                         *)
LEMMA LoadBeforeInv == IInv /\ LoadBefore => IInv'
<1> SUFFICES ASSUME IInv, LoadBefore PROVE IInv'
  OBVIOUS
<1> USE FieldsAssumption DEF IInv
<1>0. Sequence \in Locations /\ Fields \subseteq Locations
  BY DEF Locations
<1> DEFINE Seen(i) == Join(At(reader.view, Sequence, i), mem[Sequence][i].view)
<1>1. PICK i \in Readable(Sequence) :
        IF mem[Sequence][i].val = 0
        THEN /\ reader' = [reader EXCEPT !.view = Seen(i), !.attempts = 0]
             /\ Answer("never", answer.beat)
        ELSE /\ reader' = [reader EXCEPT !.pc = "fields", !.view = Seen(i),
                                 !.before = mem[Sequence][i].val, !.left = Fields]
             /\ UNCHANGED answer
  BY DEF LoadBefore
<1>2. reader.pc = "idle" /\ UNCHANGED <<mem, writer>>
  BY DEF LoadBefore
<1>3. reader.view \in View /\ reader.view[Sequence] \in Nat
      /\ mem[Sequence] \in Seq(Write) /\ Len(mem[Sequence]) \in Nat
  BY <1>0, LenNat, ViewNat DEF TypeOK
<1>4. i \in 1 .. Len(mem[Sequence]) /\ i >= reader.view[Sequence] /\ i \in Nat
  BY <1>3 DEF Readable, ReaderPlace
<1>5. mem[Sequence][i] \in Write /\ mem[Sequence][i].val = i - 1
      /\ mem[Sequence][i].view \in View
  <2>1. mem[Sequence][i] \in Write
    BY <1>3, <1>4
  <2>2. mem[Sequence][i].val = i - 1
    BY <1>0, <1>4 DEF History
  <2> QED BY <2>1, <2>2 DEF Write
<1>6. /\ Seen(i) \in View
      /\ Seen(i)[Sequence] >= i
      /\ \A l \in Locations : Seen(i)[l] >= reader.view[l] /\ Seen(i)[l] >= mem[Sequence][i].view[l]
  <2>1. /\ At(reader.view, Sequence, i) \in View
        /\ At(reader.view, Sequence, i)[Sequence] >= i
        /\ \A l \in Locations : At(reader.view, Sequence, i)[l] >= reader.view[l]
    BY <1>0, <1>3, <1>4, AtAbove
  <2>2. /\ Seen(i) \in View
        /\ \A l \in Locations : /\ Seen(i)[l] >= At(reader.view, Sequence, i)[l]
                                /\ Seen(i)[l] >= mem[Sequence][i].view[l]
    BY <1>5, <2>1, JoinAbove
  <2>3. \A l \in Locations : Seen(i)[l] \in Nat /\ reader.view[l] \in Nat
                             /\ At(reader.view, Sequence, i)[l] \in Nat
    BY <1>3, <2>1, <2>2, ViewNat
  <2> QED BY <1>0, <1>4, <2>1, <2>2, <2>3
<1>7. \A l \in Locations : Seen(i)[l] \in Nat /\ reader.view[l] \in Nat
                           /\ mem[Sequence][i].view[l] \in Nat
  BY <1>3, <1>5, <1>6, ViewNat
<1> HIDE DEF Seen
<1>8. History' /\ WriterPlace'
  BY <1>2 DEF History, WriterPlace
<1>9. CASE mem[Sequence][i].val = 0
  <2>1. reader' = [reader EXCEPT !.view = Seen(i), !.attempts = 0]
        /\ answer' = [kind |-> "never", beat |-> answer.beat]
    BY <1>1, <1>9 DEF Answer
  <2>2. TypeOK'
    <3>1. 0 \in 0 .. MaxTornRetries - 1
      BY RetriesAssumption
    <3>2. reader' \in [pc : {"idle", "fields", "after"}, view : View,
                 pending : View, attempts : 0 .. MaxTornRetries - 1,
                 before : Nat, beat : [Fields -> Nat], left : SUBSET Fields]
      BY <1>6, <2>1, <3>1 DEF TypeOK
    <3>3. answer' \in [kind : {"none", "never", "sample", "torn"}, beat : [Fields -> Nat]]
      BY <2>1 DEF TypeOK
    <3> QED BY <1>2, <3>2, <3>3 DEF TypeOK
  <2>3. i = 1 /\ answer.beat = NoBeat
    BY <1>3, <1>4, <1>5, <1>9 DEF ReaderPlace
  <2>4. reader'.pc = "idle" /\ reader'.view = Seen(i) /\ answer'.beat = NoBeat
        /\ answer'.kind = "never"
    BY <1>2, <2>1, <2>3 DEF TypeOK
  <2>5. ReaderPlace'
    <3>1. Seen(i)[Sequence] >= 1 /\ \A f \in Fields : Seen(i)[f] >= 1
      BY <1>0, <1>6, <1>7 DEF ReaderPlace
    <3> QED BY <2>4, <3>1 DEF ReaderPlace, NoBeat
  <2>6. SampleIsOneBeat' /\ NeverBeatIsFinal'
    BY <2>4 DEF SampleIsOneBeat, NeverBeatIsFinal, NoBeat
  <2> QED BY <1>8, <2>2, <2>5, <2>6
<1>10. CASE mem[Sequence][i].val # 0
  <2>1. reader' = [reader EXCEPT !.pc = "fields", !.view = Seen(i),
                                 !.before = i - 1, !.left = Fields]
        /\ answer' = answer
    BY <1>1, <1>5, <1>10
  <2>2. i - 1 \in Nat /\ i - 1 >= 1
    BY <1>4, <1>5, <1>10
  <2>3. TypeOK'
    BY <1>2, <1>6, <2>1, <2>2 DEF TypeOK
  <2>4. reader'.pc = "fields" /\ reader'.view = Seen(i) /\ reader'.before = i - 1
        /\ reader'.left = Fields
    BY <2>1 DEF TypeOK
  <2>5. ASSUME NEW k \in Nat, i - 1 = 2 * k PROVE \A f \in Fields : Seen(i)[f] >= k + 1
    <3>1. i = 2 * k + 1
      BY <1>4, <2>5
    <3>2. \A f \in Fields : mem[Sequence][i].view[f] >= k + 1
      BY <1>4, <3>1 DEF History
    <3> QED BY <1>0, <1>6, <1>7, <3>2
  <2>6. /\ Seen(i)[Sequence] >= 2 /\ Seen(i)[Sequence] >= (i - 1) + 1
        /\ \A f \in Fields : Seen(i)[f] >= 1
    BY <1>0, <1>4, <1>6, <1>7, <2>2 DEF ReaderPlace
  <2>7. ReaderPlace'
    <3>1. \A k \in Nat : reader'.before = 2 * k =>
            /\ \A f \in Fields : reader'.view[f] >= k + 1
            /\ \A f \in Fields \ reader'.left : reader'.beat[f] >= k
      BY <2>4, <2>5
    <3>2. /\ reader'.view[Sequence] >= 1 /\ \A f \in Fields : reader'.view[f] >= 1
          /\ reader'.before >= 1 /\ reader'.view[Sequence] >= reader'.before + 1
          /\ reader'.view[Sequence] >= 2
      BY <1>0, <1>7, <2>2, <2>4, <2>6
    <3> QED BY <2>1, <2>4, <3>1, <3>2 DEF ReaderPlace
  <2>8. SampleIsOneBeat' /\ NeverBeatIsFinal'
    BY <1>2, <2>1 DEF SampleIsOneBeat, NeverBeatIsFinal
  <2> QED BY <1>8, <2>3, <2>7, <2>8
<1> QED BY <1>9, <1>10

(* The relaxed load of a field keeps it.                                   *)
LEMMA LoadFieldInv == ASSUME NEW f \in Fields PROVE IInv /\ LoadField(f) => IInv'
<1> SUFFICES ASSUME IInv, LoadField(f) PROVE IInv'
  OBVIOUS
<1> USE FieldsAssumption DEF IInv
<1>0. Sequence \in Locations /\ f \in Locations /\ Fields \subseteq Locations
  BY DEF Locations
<1>1. PICK i \in Readable(f) :
        reader' = [reader EXCEPT !.left = reader.left \ {f},
                                 !.beat[f] = mem[f][i].val,
                                 !.view = At(reader.view, f, i),
                                 !.pending = Join(reader.pending, mem[f][i].view)]
  BY DEF LoadField
<1>2. reader.pc = "fields" /\ f \in reader.left /\ UNCHANGED <<mem, writer, answer>>
  BY DEF LoadField
<1>3. reader.view \in View /\ reader.pending \in View /\ reader.view[f] \in Nat
      /\ mem[f] \in Seq(Write) /\ Len(mem[f]) \in Nat
      /\ reader.beat \in [Fields -> Nat] /\ reader.left \subseteq Fields
  BY <1>0, LenNat, ViewNat DEF TypeOK
<1>4. i \in 1 .. Len(mem[f]) /\ i >= reader.view[f] /\ i \in Nat /\ i - 1 \in Nat
  BY <1>3 DEF Readable, ReaderPlace
<1>5. mem[f][i].val = i - 1 /\ mem[f][i].view \in View /\ mem[f][i].view[Sequence] >= 2 * i - 2
  <2>1. mem[f][i] \in Write
    BY <1>3, <1>4
  <2>2. mem[f][i].val = i - 1 /\ mem[f][i].view[Sequence] >= 2 * i - 2
    BY <1>0, <1>4 DEF History
  <2> QED BY <2>1, <2>2 DEF Write
<1> DEFINE vw == At(reader.view, f, i)
           pend == Join(reader.pending, mem[f][i].view)
<1>6. /\ vw \in View /\ vw[f] >= i
      /\ \A l \in Locations : vw[l] >= reader.view[l]
  BY <1>0, <1>3, <1>4, AtAbove
<1>7. /\ pend \in View
      /\ pend[Sequence] >= reader.pending[Sequence]
      /\ pend[Sequence] >= mem[f][i].view[Sequence]
  BY <1>0, <1>3, <1>5, JoinAbove
<1>8. /\ \A l \in Locations : vw[l] \in Nat /\ reader.view[l] \in Nat
      /\ pend[Sequence] \in Nat /\ reader.pending[Sequence] \in Nat
      /\ mem[f][i].view[Sequence] \in Nat
  BY <1>0, <1>3, <1>5, <1>6, <1>7, ViewNat
<1> HIDE DEF vw, pend
<1>9. reader' = [reader EXCEPT !.left = reader.left \ {f}, !.beat[f] = i - 1,
                               !.view = vw, !.pending = pend]
  BY <1>1, <1>5 DEF vw, pend
<1>10. TypeOK'
  BY <1>2, <1>3, <1>4, <1>6, <1>7, <1>9 DEF TypeOK
<1>11. /\ reader'.pc = "fields" /\ reader'.left = reader.left \ {f}
       /\ reader'.view = vw /\ reader'.pending = pend
       /\ reader'.before = reader.before
       /\ reader'.beat[f] = i - 1
       /\ \A g \in Fields \ {f} : reader'.beat[g] = reader.beat[g]
  BY <1>2, <1>3, <1>9 DEF TypeOK
<1>12. History' /\ WriterPlace' /\ SampleIsOneBeat' /\ NeverBeatIsFinal'
  BY <1>2 DEF History, WriterPlace, SampleIsOneBeat, NeverBeatIsFinal
<1>13. ReaderPlace'
  <2>0. reader.before \in Nat
    BY DEF TypeOK
  <2>1. vw[Sequence] >= 1 /\ (\A g \in Fields : vw[g] >= 1)
        /\ vw[Sequence] >= reader.before + 1 /\ reader.before >= 1
        /\ (answer.beat # NoBeat => vw[Sequence] >= 2)
    BY <1>0, <1>2, <1>6, <1>8, <2>0 DEF ReaderPlace
  <2>2. ASSUME NEW k \in Nat, reader.before = 2 * k
        PROVE  /\ \A g \in Fields : vw[g] >= k + 1
               /\ \A g \in Fields \ reader'.left : reader'.beat[g] >= k
    <3>1. \A g \in Fields : reader.view[g] >= k + 1
      BY <1>2, <2>2 DEF ReaderPlace
    <3>2. \A g \in Fields \ reader.left : reader.beat[g] >= k
      BY <1>2, <2>2 DEF ReaderPlace
    <3>3. \A g \in Fields : vw[g] >= k + 1
      BY <1>0, <1>6, <1>8, <3>1
    <3>4. i - 1 >= k
      BY <1>3, <1>4, <3>1
    <3> QED BY <1>11, <3>2, <3>3, <3>4
  <2>3. ASSUME NEW g \in Fields \ reader'.left
        PROVE  pend[Sequence] >= 2 * reader'.beat[g]
    <3>1. CASE g = f
      <4>1. 2 * (i - 1) = 2 * i - 2
        BY <1>4
      <4>2. pend[Sequence] >= 2 * i - 2
        BY <1>4, <1>5, <1>7, <1>8
      <4> QED BY <1>11, <3>1, <4>1, <4>2
    <3>2. CASE g # f
      <4>1. reader.pending[Sequence] >= 2 * reader.beat[g] /\ reader.beat[g] \in Nat
        BY <1>2, <1>3, <1>11, <3>2 DEF ReaderPlace
      <4>2. pend[Sequence] >= 2 * reader.beat[g]
        BY <1>7, <1>8, <4>1
      <4> QED BY <1>11, <3>2, <4>2
    <3> QED BY <3>1, <3>2
  <2> QED BY <1>2, <1>11, <2>1, <2>2, <2>3 DEF ReaderPlace
<1> QED BY <1>10, <1>12, <1>13

(* The reader's acquire fence keeps it.                                    *)
LEMMA AcquireFenceInv == IInv /\ AcquireFence => IInv'
<1> SUFFICES ASSUME IInv, AcquireFence PROVE IInv'
  OBVIOUS
<1> USE FieldsAssumption DEF IInv
<1>0. Sequence \in Locations /\ Fields \subseteq Locations
  BY DEF Locations
<1> DEFINE vw == Join(reader.view, reader.pending)
<1>1. /\ reader.pc = "fields" /\ reader.left = {}
      /\ reader' = [reader EXCEPT !.pc = "after", !.view = vw]
      /\ UNCHANGED <<mem, writer, answer>>
  BY DEF AcquireFence
<1>2. reader.view \in View /\ reader.pending \in View /\ reader.before \in Nat
      /\ reader.beat \in [Fields -> Nat]
  BY DEF TypeOK
<1>3. /\ vw \in View
      /\ \A l \in Locations : vw[l] >= reader.view[l] /\ vw[l] >= reader.pending[l]
  BY <1>2, JoinAbove
<1>4. \A l \in Locations : vw[l] \in Nat /\ reader.view[l] \in Nat /\ reader.pending[l] \in Nat
  BY <1>2, <1>3, ViewNat
<1> HIDE DEF vw
<1>5. TypeOK'
  BY <1>1, <1>3 DEF TypeOK
<1>6. /\ reader'.pc = "after" /\ reader'.view = vw /\ reader'.left = {}
      /\ reader'.before = reader.before /\ reader'.beat = reader.beat
  BY <1>1 DEF TypeOK
<1>7. History' /\ WriterPlace' /\ SampleIsOneBeat' /\ NeverBeatIsFinal'
  BY <1>1 DEF History, WriterPlace, SampleIsOneBeat, NeverBeatIsFinal
<1>8. ReaderPlace'
  <2>1. vw[Sequence] >= 1 /\ (\A g \in Fields : vw[g] >= 1)
        /\ vw[Sequence] >= reader.before + 1 /\ reader.before >= 1
        /\ (answer.beat # NoBeat => vw[Sequence] >= 2)
    BY <1>0, <1>1, <1>2, <1>3, <1>4 DEF ReaderPlace
  <2>2. ASSUME NEW k \in Nat, reader.before = 2 * k
        PROVE  /\ \A g \in Fields : vw[g] >= k + 1
               /\ \A g \in Fields : reader.beat[g] >= k
    <3>1. /\ \A g \in Fields : reader.view[g] >= k + 1
          /\ \A g \in Fields : reader.beat[g] >= k
      BY <1>1, <2>2 DEF ReaderPlace
    <3> QED BY <1>0, <1>3, <1>4, <3>1
  <2>3. ASSUME NEW g \in Fields PROVE vw[Sequence] >= 2 * reader.beat[g]
    <3>1. reader.pending[Sequence] >= 2 * reader.beat[g] /\ reader.beat[g] \in Nat
      BY <1>1, <1>2 DEF ReaderPlace
    <3> QED BY <1>0, <1>3, <1>4, <3>1
  <2> QED BY <1>1, <1>6, <2>1, <2>2, <2>3 DEF ReaderPlace
<1> QED BY <1>5, <1>7, <1>8

(* The second load of the sequence number keeps it: a sample is accepted   *)
(* only when what was read is one beat.                                    *)
LEMMA LoadAfterInv == IInv /\ LoadAfter => IInv'
<1> SUFFICES ASSUME IInv, LoadAfter PROVE IInv'
  OBVIOUS
<1> USE FieldsAssumption DEF IInv
<1>0. Sequence \in Locations /\ Fields \subseteq Locations
  BY DEF Locations
<1> DEFINE vw(i) == At(reader.view, Sequence, i)
           pend(i) == Join(reader.pending, mem[Sequence][i].view)
           seen(i) == [reader EXCEPT !.pc = "idle", !.view = vw(i), !.pending = pend(i)]
<1>1. PICK i \in Readable(Sequence) :
         IF sample_is_consistent(reader.before, mem[Sequence][i].val)
         THEN /\ reader' = [seen(i) EXCEPT !.attempts = 0]
              /\ Answer("sample", reader.beat)
         ELSE IF Retry(reader.attempts)
         THEN /\ reader' = [seen(i) EXCEPT !.attempts = Counted(reader.attempts)]
              /\ UNCHANGED answer
         ELSE /\ reader' = [seen(i) EXCEPT !.attempts = 0]
              /\ Answer("torn", answer.beat)
  BY DEF LoadAfter
<1>2. reader.pc = "after" /\ UNCHANGED <<mem, writer>>
  BY DEF LoadAfter
<1>3. /\ reader.view \in View /\ reader.pending \in View /\ reader.view[Sequence] \in Nat
      /\ reader.before \in Nat /\ reader.beat \in [Fields -> Nat]
      /\ reader.attempts \in 0 .. MaxTornRetries - 1 /\ writer.done \in Nat
      /\ mem[Sequence] \in Seq(Write) /\ Len(mem[Sequence]) \in Nat
  BY <1>0, LenNat, ViewNat DEF TypeOK
<1>4. i \in 1 .. Len(mem[Sequence]) /\ i >= reader.view[Sequence] /\ i \in Nat
  BY <1>3 DEF Readable, ReaderPlace
<1>5. mem[Sequence][i].val = i - 1 /\ mem[Sequence][i].view \in View
  <2>1. mem[Sequence][i] \in Write
    BY <1>3, <1>4
  <2>2. mem[Sequence][i].val = i - 1
    BY <1>0, <1>4 DEF History
  <2> QED BY <2>1, <2>2 DEF Write
<1>6. /\ vw(i) \in View /\ pend(i) \in View
      /\ \A l \in Locations : vw(i)[l] >= reader.view[l]
  BY <1>0, <1>3, <1>4, <1>5, AtAbove, JoinAbove
<1>7. \A l \in Locations : vw(i)[l] \in Nat /\ reader.view[l] \in Nat
  BY <1>3, <1>6, ViewNat
<1> HIDE DEF vw, pend
<1>8. \E n \in 0 .. MaxTornRetries - 1 :
        reader' = [reader EXCEPT !.pc = "idle", !.view = vw(i), !.pending = pend(i),
                                 !.attempts = n]
  <2>1. 0 \in 0 .. MaxTornRetries - 1 /\ MaxTornRetries \in Nat
    BY RetriesAssumption
  <2>2. ASSUME Retry(reader.attempts) PROVE Counted(reader.attempts) \in 0 .. MaxTornRetries - 1
    BY <1>3, <2>1, <2>2 DEF Retry, Counted
  <2> QED BY <1>1, <2>1, <2>2
<1>9. /\ reader'.pc = "idle" /\ reader'.view = vw(i)
      /\ reader' \in [pc : {"idle", "fields", "after"}, view : View,
                 pending : View, attempts : 0 .. MaxTornRetries - 1,
                 before : Nat, beat : [Fields -> Nat], left : SUBSET Fields]
  BY <1>6, <1>8 DEF TypeOK
<1>10. History' /\ WriterPlace'
  BY <1>2 DEF History, WriterPlace
<1>11. reader'.view[Sequence] >= 2 /\ reader'.view[Sequence] >= 1
       /\ \A f \in Fields : reader'.view[f] >= 1
  <2>1. reader.before >= 1 /\ reader.view[Sequence] >= reader.before + 1
        /\ \A f \in Fields : reader.view[f] >= 1
    BY <1>2 DEF ReaderPlace
  <2>2. reader.view[Sequence] >= 2
    BY <1>3, <2>1
  <2>3. vw(i)[Sequence] >= 2 /\ vw(i)[Sequence] >= 1
    BY <1>0, <1>6, <1>7, <2>2
  <2>4. \A f \in Fields : vw(i)[f] >= 1
    BY <1>0, <1>6, <1>7, <2>1
  <2> QED BY <1>9, <2>3, <2>4
<1>12. ReaderPlace'
  BY <1>9, <1>11 DEF ReaderPlace
<1>13. CASE sample_is_consistent(reader.before, mem[Sequence][i].val)
  <2>1. answer' = [kind |-> "sample", beat |-> reader.beat]
    BY <1>1, <1>13 DEF Answer
  <2>2. TypeOK'
    BY <1>2, <1>3, <1>9, <2>1 DEF TypeOK
  <2>3. reader.before % 2 = 0 /\ reader.before = i - 1
    BY <1>5, <1>13 DEF sample_is_consistent
  <2>4. PICK k \in Nat : reader.before = 2 * k
    BY <1>3, <2>3
  <2>5. k \in 1 .. writer.done
    <3>1. reader.before >= 1 /\ Len(mem[Sequence]) <= 2 * writer.done + 2
      BY <1>2, <1>3 DEF ReaderPlace, WriterPlace
    <3> QED BY <1>3, <1>4, <2>3, <2>4, <3>1
  <2>6. ASSUME NEW f \in Fields PROVE reader.beat[f] = k
    <3>1. reader.beat[f] \in Nat /\ reader.beat[f] >= k
      BY <1>2, <1>3, <2>4 DEF ReaderPlace
    <3>2. reader.view[Sequence] >= 2 * reader.beat[f]
      BY <1>2 DEF ReaderPlace
    <3>3. 2 * reader.beat[f] <= 2 * k + 1
      BY <1>3, <1>4, <2>3, <2>4, <3>1, <3>2
    <3> QED BY <3>1, <3>3
  <2>7. reader.beat = [f \in Fields |-> k]
    BY <1>3, <2>6
  <2>8. SampleIsOneBeat' /\ NeverBeatIsFinal'
    BY <1>2, <2>1, <2>5, <2>7 DEF SampleIsOneBeat, NeverBeatIsFinal
  <2> QED BY <1>10, <1>12, <2>2, <2>8
<1>14. CASE ~sample_is_consistent(reader.before, mem[Sequence][i].val)
  <2>1. answer' = answer \/ answer' = [kind |-> "torn", beat |-> answer.beat]
    BY <1>1, <1>14 DEF Answer
  <2>2. TypeOK'
    BY <1>2, <1>9, <2>1 DEF TypeOK
  <2>3. SampleIsOneBeat' /\ NeverBeatIsFinal'
    BY <1>2, <2>1 DEF SampleIsOneBeat, NeverBeatIsFinal
  <2> QED BY <1>10, <1>12, <2>2, <2>3
<1> QED BY <1>13, <1>14

-----------------------------------------------------------------------------
(* The invariant is inductive.                                             *)
LEMMA NextInv == IInv /\ [Next]_vars => IInv'
<1> SUFFICES ASSUME IInv, [Next]_vars PROVE IInv'
  OBVIOUS
<1>1. CASE UNCHANGED vars
  BY <1>1 DEF vars, IInv, TypeOK, History, WriterPlace, ReaderPlace,
              SampleIsOneBeat, NeverBeatIsFinal
<1> QED BY <1>1, GoOddInv, FenceInv, StoreFieldInv, GoEvenInv, WriterDiesInv,
           LoadBeforeInv, LoadFieldInv, AcquireFenceInv, LoadAfterInv DEF Next

(* The sampling contract of observe: whatever the memory reorders and      *)
(* wherever the writer dies, an accepted sample is one whole, completed    *)
(* beat; and a reader that has had a sample never reads "never published". *)
THEOREM SamplesAreWhole == Spec => [](TypeOK /\ SampleIsOneBeat /\ NeverBeatIsFinal)
<1>1. IInv => TypeOK /\ SampleIsOneBeat /\ NeverBeatIsFinal
  BY DEF IInv
<1> QED BY <1>1, InitInv, NextInv, PTL DEF Spec
=============================================================================
