--------------------------- MODULE MessageProofs ---------------------------
(***************************************************************************)
(* What DNSMessage promises, for any records, questions, cuts and ageings  *)
(* of any number and any limits: what a message is built from is what its  *)
(* reader gets back (RoundTrip), the TTL an aged answer is kept for        *)
(* (TTLRight), what a query tells of its sender (EDNSFound).               *)
(*                                                                         *)
(* BuilderInv lays the records that were added over the cells of the       *)
(* buffer: Laid gives each its place, its name (NameIn: labels, then the   *)
(* end or a pointer to an earlier name) and its data (BodyIn), TableIn     *)
(* says that each entry of the compression table is the place of its name. *)
(* Copy is what a reader holds of the buffer: a prefix of its cells, of    *)
(* which the TTLs may have changed.  A name is read by following its       *)
(* pointers (Way, HopsLead), a record by RecordRead; Standing says where   *)
(* the parser is between two records, ReaderInv adds what ageing did.      *)
(* What a recursive function of the model computes is shown by a least     *)
(* counterexample over the naturals (LeastNatural).                        *)
(***************************************************************************)
EXTENDS DNSMessage, SequenceTheorems, WellFoundedInduction, TLAPS

(* A sequence whose elements may be anything.                               *)
LEMMA SeqIs == ASSUME NEW S, NEW s \in Seq(S) PROVE IsSeq(s)
<1>1. DOMAIN s = 1 .. Len(s) /\ Len(s) \in Nat /\ s = [i \in 1 .. Len(s) |-> s[i]]
  OBVIOUS
<1>2. \A i \in 1 .. Len(s) : s[i] \in {s[j] : j \in DOMAIN s}
  BY <1>1
<1> QED
  BY <1>1, <1>2 DEF IsSeq

(* What is known of a sequence whatever its elements are.                     *)
LEMMA SeqHas ==
  ASSUME NEW s, IsSeq(s)
  PROVE  Len(s) \in Nat /\ DOMAIN s = 1 .. Len(s) /\ s = [i \in 1 .. Len(s) |-> s[i]]
  BY DEF IsSeq

(* A function made over 1 .. n is one.                                        *)
LEMMA SeqMade ==
  ASSUME NEW n \in Nat, NEW s, s = [i \in 1 .. n |-> s[i]]
  PROVE  IsSeq(s) /\ Len(s) = n
<1>1. DOMAIN s = 1 .. n
  OBVIOUS
<1>2. \A i \in 1 .. n : s[i] \in {s[j] : j \in DOMAIN s}
  BY <1>1
<1>3. s \in Seq({s[j] : j \in DOMAIN s})
  BY <1>2
<1> QED
  BY <1>1, <1>3 DEF IsSeq

(* Two sequences with the same elements are one.                              *)
LEMMA SameSeq ==
  ASSUME NEW s, NEW t, IsSeq(s), IsSeq(t), Len(s) = Len(t), \A i \in 1 .. Len(s) : s[i] = t[i]
  PROVE  s = t
<1>1. s = [i \in 1 .. Len(s) |-> s[i]] /\ t = [i \in 1 .. Len(t) |-> t[i]]
  BY SeqHas
<1> QED
  BY <1>1

(* Both are sequences of the same set.                                        *)
LEMMA SeqBoth ==
  ASSUME NEW s, NEW t, IsSeq(s), IsSeq(t)
  PROVE  \E S : s \in Seq(S) /\ t \in Seq(S)
<1> DEFINE S == {s[i] : i \in DOMAIN s} \cup {t[i] : i \in DOMAIN t}
<1>1. s \in Seq(S)
  <2>1. \A i \in DOMAIN s : s[i] \in S
    OBVIOUS
  <2> HIDE DEF S
  <2> QED
    BY <2>1, SeqHas
<1>2. t \in Seq(S)
  <2>1. \A i \in DOMAIN t : t[i] \in S
    OBVIOUS
  <2> HIDE DEF S
  <2> QED
    BY <2>1, SeqHas
<1> QED
  BY <1>1, <1>2

(* What the concatenation of two sequences holds.                             *)
Joined(s, t, new) ==
    /\ IsSeq(new) /\ Len(new) = Len(s) + Len(t)
    /\ \A i \in 1 .. Len(s) : new[i] = s[i]
    /\ \A i \in 1 .. Len(t) : new[Len(s) + i] = t[i]

(* Concatenation joins.                                                       *)
LEMMA ConcatIs == ASSUME NEW s, NEW t, IsSeq(s), IsSeq(t) PROVE Joined(s, t, s \o t)
<1>1. PICK S : s \in Seq(S) /\ t \in Seq(S)
  BY SeqBoth
<1>2. /\ s \o t \in Seq(S) /\ Len(s \o t) = Len(s) + Len(t)
      /\ \A i \in 1 .. Len(s) + Len(t) : (s \o t)[i] = IF i <= Len(s) THEN s[i] ELSE t[i - Len(s)]
  BY <1>1, ConcatProperties
<1>3. IsSeq(s \o t)
  BY <1>2, SeqIs
<1>4. Len(s) \in Nat /\ Len(t) \in Nat
  BY <1>1
<1>5. PICK new : new = s \o t
  OBVIOUS
<1>6. /\ Len(new) = Len(s) + Len(t)
      /\ \A i \in 1 .. Len(s) + Len(t) : new[i] = IF i <= Len(s) THEN s[i] ELSE t[i - Len(s)]
  BY <1>2, <1>5
<1>7. Joined(s, t, new)
  BY <1>3, <1>4, <1>5, <1>6 DEF Joined
<1> QED
  BY <1>5, <1>7

(* What Append returns.                                                       *)
LEMMA AppendIs ==
  ASSUME NEW s, IsSeq(s), NEW x
  PROVE  /\ IsSeq(Append(s, x)) /\ Len(Append(s, x)) = Len(s) + 1
         /\ \A i \in 1 .. Len(s) : Append(s, x)[i] = s[i]
         /\ Append(s, x)[Len(s) + 1] = x
<1>1. IsSeq(<<x>>)
  <2>1. <<x>> \in Seq({x})
    OBVIOUS
  <2> QED
    BY <2>1, SeqIs
<1>2. PICK S : s \in Seq(S) /\ <<x>> \in Seq(S)
  BY <1>1, SeqBoth
<1>3. x \in S
  <2>1. <<x>>[1] \in S
    BY <1>2
  <2> QED
    BY <2>1
<1>4. Append(s, x) \in Seq(S)
  BY <1>2, <1>3
<1>5. IsSeq(Append(s, x))
  BY <1>4, SeqIs
<1> QED
  BY <1>2, <1>3, <1>5

(* Changing an element keeps a sequence and its length.                       *)
LEMMA ExceptIs ==
  ASSUME NEW s, IsSeq(s), NEW i, NEW x
  PROVE  IsSeq([s EXCEPT ![i] = x]) /\ Len([s EXCEPT ![i] = x]) = Len(s)
<1> DEFINE n == [s EXCEPT ![i] = x]
<1>1. s = [j \in 1 .. Len(s) |-> s[j]] /\ Len(s) \in Nat
  BY SeqHas
<1>2. n = [j \in 1 .. Len(s) |-> n[j]]
  BY <1>1
<1> QED
  BY <1>1, <1>2, SeqMade

(* What SubSeq returns.                                                       *)
LEMMA SubSeqIs ==
  ASSUME NEW s, IsSeq(s), NEW m \in 1 .. Len(s) + 1, NEW n \in m - 1 .. Len(s)
  PROVE  /\ IsSeq(SubSeq(s, m, n)) /\ Len(SubSeq(s, m, n)) = n - m + 1
         /\ \A i \in 1 .. n - m + 1 : SubSeq(s, m, n)[i] = s[m + i - 1]
<1>1. PICK S : s \in Seq(S)
  BY DEF IsSeq
<1>2. Len(s) \in Nat
  BY <1>1
<1>3. \A i \in m .. n : s[i] \in S
  BY <1>1, <1>2
<1>4. /\ SubSeq(s, m, n) \in Seq(S)
      /\ Len(SubSeq(s, m, n)) = IF m <= n THEN n - m + 1 ELSE 0
      /\ \A i \in 1 .. n - m + 1 : SubSeq(s, m, n)[i] = s[m + i - 1]
  BY <1>2, <1>3, SubSeqProperties
<1>5. IsSeq(SubSeq(s, m, n))
  BY <1>4, SeqIs
<1>6. n - m + 1 = IF m <= n THEN n - m + 1 ELSE 0
  BY <1>2
<1> QED
  BY <1>4, <1>5, <1>6

(* Every set of naturals that is not empty has a least element: what a        *)
(* recursive function of the model computes is shown at its first wrong       *)
(* argument.                                                                  *)
LEMMA LeastNatural == ASSUME NEW S \in SUBSET Nat, S # {} PROVE \E m \in S : \A k \in S : m <= k
<1> DEFINE Less == {p \in Nat \X Nat : p[1] < p[2]}
<1>1. IsWellFoundedOn(Less, Nat)
  BY NatLessThanWellFounded DEF OpToRel
<1>2. PICK m \in S : \A k \in S : ~ (<<k, m>> \in Less)
  <2> HIDE DEF Less
  <2> QED
    BY <1>1, WFMin
<1>3. ASSUME NEW k \in S PROVE m <= k
  <2>1. <<k, m>> \in Nat \X Nat /\ ~ (<<k, m>> \in Less)
    BY <1>2
  <2> QED
    BY <2>1
<1> QED
  BY <1>3

(* Min of the community modules is that element.                              *)
LEMMA MinIs == ASSUME NEW S \in SUBSET Nat, S # {} PROVE Min(S) \in S /\ \A k \in S : Min(S) <= k
  BY LeastNatural DEF Min

------------------------------------------------------------------------------
(* What packing a name does.                                                  *)

(* A compression table: names that are not empty, and offsets a pointer can   *)
(* hold.                                                                      *)
IsTable(table) ==
    /\ table = [s \in DOMAIN table |-> table[s]]
    /\ \A s \in DOMAIN table : IsSeq(s) /\ Len(s) > 0 /\ table[s] \in 0 .. MaxPtr

(* The type of a pack.                                                        *)
IsPack(pk) ==
    /\ pk = [ok |-> pk.ok, msg |-> pk.msg, on |-> pk.on, table |-> pk.table]
    /\ pk.ok \in BOOLEAN /\ pk.on \in BOOLEAN /\ IsTable(pk.table)
    /\ IsSeq(pk.msg) /\ Len(pk.msg) > MsgPrefix

(* The bounds are naturals.                                                   *)
LEMMA MessageBounds == {MsgPrefix, MsgOps, MaxCount, MaxLen, MaxPtr, MaxHops} \subseteq Nat
  BY MessageAssumption

(* The part of a sequence from its m-th to its n-th element.                  *)
PartOf(s, m, n, piece) ==
    /\ IsSeq(piece) /\ Len(piece) = n - m + 1
    /\ \A i \in 1 .. n - m + 1 : piece[i] = s[m + i - 1]

(* SubSeq returns that part.                                                  *)
LEMMA PartIs ==
  ASSUME NEW s, IsSeq(s), NEW m \in 1 .. Len(s) + 1, NEW n \in m - 1 .. Len(s)
  PROVE  PartOf(s, m, n, SubSeq(s, m, n))
<1>1. PICK piece : piece = SubSeq(s, m, n)
  OBVIOUS
<1>2. /\ IsSeq(piece) /\ Len(piece) = n - m + 1
      /\ \A i \in 1 .. n - m + 1 : piece[i] = s[m + i - 1]
  BY <1>1, SubSeqIs
<1> QED
  BY <1>1, <1>2 DEF PartOf

(* Suffix returns the rest of a name.                                         *)
LEMMA SuffixIs ==
  ASSUME NEW name, IsSeq(name), NEW i \in 1 .. Len(name) + 1
  PROVE  PartOf(name, i, Len(name), Suffix(name, i))
<1>1. Len(name) \in Nat
  BY SeqHas
<1>2. Len(name) \in i - 1 .. Len(name)
  BY <1>1
<1> QED
  BY <1>1, <1>2, PartIs DEF Suffix

(* What Cells returns.                                                        *)
LEMMA CellsAre ==
  ASSUME NEW kind, NEW items, Len(items) \in Nat
  PROVE  /\ IsSeq(Cells(kind, items)) /\ Len(Cells(kind, items)) = Len(items)
         /\ \A i \in 1 .. Len(items) : Cells(kind, items)[i] = <<kind, items[i]>>
<1>1. Cells(kind, items) = [i \in 1 .. Len(items) |-> Cells(kind, items)[i]]
  BY DEF Cells
<1> QED
  BY <1>1, SeqMade DEF Cells

(* The first k labels were written, then the end of the name or a pointer.    *)
NameWritten(pk, name, new, k) ==
    /\ k \in 0 .. Len(name)
    /\ k < Len(name) => Suffix(name, k + 1) \in DOMAIN pk.table /\ pk.on
    /\ new.msg = (pk.msg \o Cells("label", SubSeq(name, 1, k)))
                     \o <<IF k = Len(name) THEN <<"end", 0>> ELSE <<"ptr", pk.table[Suffix(name, k + 1)]>> >>

(* The suffixes of the name that were added to the table, the first k ones    *)
(* at most.                                                                   *)
SuffixesNoted(pk, name, new, k) ==
    /\ new.table = [s \in DOMAIN new.table |-> new.table[s]]
    /\ \A s \in DOMAIN pk.table : s \in DOMAIN new.table /\ new.table[s] = pk.table[s]
    /\ \A s \in DOMAIN new.table \ DOMAIN pk.table :
           pk.on /\ \E i \in 1 .. k : s = Suffix(name, i) /\ new.table[s] = Offset(pk) + i - 1 /\ new.table[s] <= MaxPtr

(* Where the labels of a name stop being written, and why.                    *)
LEMMA StopIs ==
  ASSUME NEW pk, NEW name, IsSeq(name), NEW shared
  PROVE  /\ NameStop(pk, name, shared) \in 1 .. Len(name) + 1
         /\ NameStop(pk, name, shared) <= Len(name) =>
                \/ shared /\ Suffix(name, NameStop(pk, name, shared)) \in DOMAIN pk.table
                \/ name[NameStop(pk, name, shared)] \in {"void", "long"}
<1> DEFINE S == {i \in 1 .. Len(name) : \/ shared /\ name[i] # "void" /\ Suffix(name, i) \in DOMAIN pk.table
                                        \/ name[i] \in {"void", "long"}}
<1>1. Len(name) \in Nat
  BY SeqHas
<1>2. S \cup {Len(name) + 1} \in SUBSET Nat /\ S \cup {Len(name) + 1} # {}
  BY <1>1
<1>3. Min(S \cup {Len(name) + 1}) \in S \cup {Len(name) + 1}
  <2> HIDE DEF S
  <2> QED
    BY <1>2, MinIs
<1>4. NameStop(pk, name, shared) = Min(S \cup {Len(name) + 1})
  BY DEF NameStop
<1>5. NameStop(pk, name, shared) \in S \/ NameStop(pk, name, shared) = Len(name) + 1
  BY <1>3, <1>4
<1> QED
  BY <1>1, <1>5

(* What packing a name gives, refused or not: the message and what was noted. *)
NameGiven(pk, name, new) ==
    /\ new = [ok |-> new.ok, msg |-> new.msg, on |-> new.on, table |-> new.table]
    /\ new.ok \in BOOLEAN /\ new.on = pk.on
    /\ \E k \in 0 .. Len(name) :
           /\ SuffixesNoted(pk, name, new, IF new.ok THEN k ELSE Len(name))
           /\ IF new.ok THEN NameWritten(pk, name, new, k) ELSE IsSeq(new.msg) /\ Len(new.msg) >= Len(pk.msg)

(* A message to which k labels of a name and its tail were added.             *)
NameAdded(msg, name, k, tail, new) ==
    /\ IsSeq(new) /\ Len(new) = Len(msg) + k + 1
    /\ \A i \in 1 .. Len(msg) : new[i] = msg[i]
    /\ \A i \in 1 .. k : new[Len(msg) + i] = <<"label", name[i]>>
    /\ new[Len(msg) + k + 1] = tail

(* The concatenation in PackName writes that.                                 *)
LEMMA WrittenIs ==
  ASSUME NEW msg, IsSeq(msg), NEW name, IsSeq(name), NEW k \in 0 .. Len(name), NEW tail
  PROVE  NameAdded(msg, name, k, tail, (msg \o Cells("label", SubSeq(name, 1, k))) \o <<tail>>)
<1>1. PICK labels : labels = Cells("label", SubSeq(name, 1, k))
  OBVIOUS
<1>2. Len(name) \in Nat /\ 1 \in 1 .. Len(name) + 1 /\ k \in 0 .. Len(name) /\ k \in Nat /\ Len(msg) \in Nat
  BY SeqHas
<1>3. PICK sub : sub = SubSeq(name, 1, k) /\ Len(sub) = k /\ \A i \in 1 .. k : sub[i] = name[i]
  <2>1. PICK sub : sub = SubSeq(name, 1, k)
    OBVIOUS
  <2>2. Len(sub) = k - 1 + 1 /\ \A i \in 1 .. k - 1 + 1 : sub[i] = name[1 + i - 1]
    BY <1>2, <2>1, SubSeqIs
  <2>3. k - 1 + 1 = k /\ \A i \in 1 .. k : 1 + i - 1 = i
    BY <1>2
  <2>4. Len(sub) = k /\ \A i \in 1 .. k : sub[i] = name[i]
    BY <2>2, <2>3
  <2> QED
    BY <2>1, <2>4
<1>4. IsSeq(labels) /\ Len(labels) = k /\ \A i \in 1 .. k : labels[i] = <<"label", name[i]>>
  <2>1. labels = Cells("label", sub)
    BY <1>1, <1>3
  <2>2. Len(sub) \in Nat
    BY <1>2, <1>3
  <2>3. /\ IsSeq(labels) /\ Len(labels) = Len(sub)
        /\ \A i \in 1 .. Len(sub) : labels[i] = <<"label", sub[i]>>
    BY ONLY <2>1, <2>2, CellsAre
  <2> QED
    BY <1>3, <2>3
<1>5. IsSeq(<<tail>>) /\ Len(<<tail>>) = 1 /\ <<tail>>[1] = tail
  <2>1. <<tail>> \in Seq({tail})
    OBVIOUS
  <2> QED
    BY <2>1, SeqIs
<1>6. PICK one : one = <<tail>>
  OBVIOUS
<1>7. PICK half : half = msg \o labels
  OBVIOUS
<1>8. /\ IsSeq(half) /\ Len(half) = Len(msg) + k
      /\ \A i \in 1 .. Len(msg) : half[i] = msg[i]
      /\ \A i \in 1 .. k : half[Len(msg) + i] = <<"label", name[i]>>
  <2>1. /\ IsSeq(half) /\ Len(half) = Len(msg) + Len(labels)
        /\ \A i \in 1 .. Len(msg) : half[i] = msg[i]
        /\ \A i \in 1 .. Len(labels) : half[Len(msg) + i] = labels[i]
    <3>1. Joined(msg, labels, half)
      BY <1>4, <1>7, ConcatIs
    <3> QED
      BY <3>1 DEF Joined
  <2> QED
    BY <1>4, <2>1
<1>9. PICK new : new = half \o one
  OBVIOUS
<1>10. /\ IsSeq(new) /\ Len(new) = Len(half) + 1
       /\ \A i \in 1 .. Len(half) : new[i] = half[i]
       /\ new[Len(half) + 1] = tail
  <2>1. IsSeq(one) /\ Len(one) = 1 /\ one[1] = tail
    BY <1>5, <1>6
  <2>2. /\ IsSeq(new) /\ Len(new) = Len(half) + Len(one)
        /\ \A i \in 1 .. Len(half) : new[i] = half[i]
        /\ \A i \in 1 .. Len(one) : new[Len(half) + i] = one[i]
    <3>1. Joined(half, one, new)
      BY <1>8, <1>9, <2>1, ConcatIs
    <3> QED
      BY <3>1 DEF Joined
  <2> QED
    BY <2>1, <2>2
<1>11. /\ IsSeq(new) /\ Len(new) = Len(msg) + k + 1
       /\ \A i \in 1 .. Len(msg) : new[i] = msg[i]
       /\ \A i \in 1 .. k : new[Len(msg) + i] = <<"label", name[i]>>
       /\ new[Len(msg) + k + 1] = tail
  <2>1. Len(half) + 1 = Len(msg) + k + 1 /\ Len(half) \in Nat
    BY <1>2, <1>8
  <2>2. \A i \in 1 .. Len(msg) : i \in 1 .. Len(half)
    BY <1>2, <1>8
  <2>3. \A i \in 1 .. k : Len(msg) + i \in 1 .. Len(half)
    BY <1>2, <1>8
  <2> QED
    BY <1>8, <1>10, <2>1, <2>2, <2>3
<1>12. NameAdded(msg, name, k, tail, new)
  BY <1>11 DEF NameAdded
<1> QED
  BY <1>1, <1>6, <1>7, <1>9, <1>12

(* A name that was refused may leave suffixes in the table (Name.pack).       *)
LEMMA NamedFailed ==
  ASSUME NEW pk, NEW name, NEW new, Len(name) \in Nat,
         new = [ok |-> new.ok, msg |-> new.msg, on |-> new.on, table |-> new.table],
         new.ok = FALSE, new.on = pk.on, SuffixesNoted(pk, name, new, Len(name)), IsSeq(new.msg), Len(new.msg) >= Len(pk.msg)
  PROVE  NameGiven(pk, name, new)
<1>1. Len(name) \in 0 .. Len(name)
  OBVIOUS
<1> QED
  BY <1>1 DEF NameGiven

(* A name that was packed.                                                    *)
LEMMA NamedWell ==
  ASSUME NEW pk, NEW name, NEW new, NEW k \in 0 .. Len(name),
         new = [ok |-> new.ok, msg |-> new.msg, on |-> new.on, table |-> new.table],
         new.ok = TRUE, new.on = pk.on, SuffixesNoted(pk, name, new, k), NameWritten(pk, name, new, k)
  PROVE  NameGiven(pk, name, new)
  BY DEF NameGiven

(* PackName gives what NameGiven says.                                        *)
LEMMA PackNameGives ==
  ASSUME NEW pk, IsPack(pk), NEW name, IsSeq(name), NEW c \in BOOLEAN
  PROVE  NameGiven(pk, name, PackName(pk, name, c))
<1>1. Len(name) \in Nat
  BY SeqHas
<1>2. CASE \E i \in 1 .. Len(name) : name[i] = "bare"
  <2>1. PackName(pk, name, c) = [pk EXCEPT !.ok = FALSE]
    BY <1>2 DEF PackName
  <2>2. PICK new : new = PackName(pk, name, c)
    OBVIOUS
  <2>3. /\ new = [ok |-> new.ok, msg |-> new.msg, on |-> new.on, table |-> new.table]
        /\ new.ok = FALSE /\ new.msg = pk.msg /\ new.on = pk.on /\ new.table = pk.table
    BY <2>1, <2>2 DEF IsPack
  <2>4. SuffixesNoted(pk, name, new, Len(name)) /\ Len(new.msg) >= Len(pk.msg) /\ IsSeq(new.msg)
    <3>1. Len(pk.msg) \in Nat
      BY SeqHas DEF IsPack
    <3> QED
      BY <2>3, <3>1 DEF IsPack, IsTable, SuffixesNoted
  <2> QED
    BY <1>1, <2>2, <2>3, <2>4, NamedFailed
<1>3. CASE ~ \E i \in 1 .. Len(name) : name[i] = "bare"
  <2> DEFINE shared == c /\ pk.on
             stop == NameStop(pk, name, shared)
             hit == stop <= Len(name) /\ shared /\ Suffix(name, stop) \in DOMAIN pk.table
             bad == stop <= Len(name) /\ ~hit
             fresh == IF ~shared THEN {}
                    ELSE {i \in 1..stop : /\ (i < stop \/ (bad /\ name[i] = "long"))
                                          /\ PointerFits(Offset(pk) + i - 1)}
             table == [s \in DOMAIN pk.table \cup {Suffix(name, i) : i \in fresh} |->
                      IF s \in DOMAIN pk.table THEN pk.table[s] ELSE Offset(pk) + (Len(name) - Len(s))]
             tail == IF hit THEN <<"ptr", pk.table[Suffix(name, stop)]>> ELSE <<"end", 0>>
             msg == (pk.msg \o Cells("label", SubSeq(name, 1, stop - 1))) \o <<tail>>
  <2>1. PackName(pk, name, c) = [pk EXCEPT !.ok = ~bad, !.table = table, !.msg = msg]
    BY <1>3 DEF PackName
  <2>2. PICK new : new = PackName(pk, name, c)
    OBVIOUS
  <2>3. stop \in 1 .. Len(name) + 1
    BY StopIs
  <2>4. PICK shr : shr = shared
    OBVIOUS
  <2>5. /\ bad \in BOOLEAN
        /\ \A i \in fresh : shared /\ i \in 1 .. stop /\ i \in 1 .. Len(name) /\ (~bad => i < stop) /\ PointerFits(Offset(pk) + i - 1)
    <3>1. \A i \in fresh : shared /\ i \in 1 .. stop /\ (i < stop \/ bad) /\ PointerFits(Offset(pk) + i - 1)
      OBVIOUS
    <3>2. bad => stop \in 1 .. Len(name)
      BY <2>3, <1>1
    <3>3. ~bad => stop - 1 \in 0 .. Len(name)
      BY <2>3, <1>1
    <3> HIDE DEF fresh, stop, bad, shared
    <3>4. ASSUME NEW i \in fresh PROVE shared /\ i \in 1 .. stop /\ i \in 1 .. Len(name) /\ (~bad => i < stop) /\ PointerFits(Offset(pk) + i - 1)
      <4>1. shared /\ i \in 1 .. stop /\ (i < stop \/ bad) /\ PointerFits(Offset(pk) + i - 1)
        BY <3>1
      <4>2. CASE i < stop
        <5>1. i \in 1 .. Len(name)
          BY <1>1, <2>3, <4>1, <4>2
        <5> QED
          BY <4>1, <4>2, <5>1
      <4>3. CASE bad
        <5>1. stop \in 1 .. Len(name)
          BY <3>2, <4>3
        <5>2. i \in 1 .. Len(name)
          BY <1>1, <4>1, <5>1
        <5> QED
          BY <4>1, <4>3, <5>2
      <4> QED
        BY <4>1, <4>2, <4>3
    <3>5. bad \in BOOLEAN
      BY DEF bad
    <3> QED
      BY <3>4, <3>5
  <2>6. /\ new = [ok |-> new.ok, msg |-> new.msg, on |-> new.on, table |-> new.table]
        /\ new.ok = ~bad /\ new.msg = msg /\ new.on = pk.on /\ new.table = table
    <3> HIDE DEF bad, msg, table
    <3> QED
      BY <2>1, <2>2 DEF IsPack
  <2>7. \A k \in 0 .. Len(name) : (bad \/ k = stop - 1) => SuffixesNoted(pk, name, new, IF new.ok THEN k ELSE Len(name))
    <3>1. /\ table = [s \in DOMAIN table |-> table[s]]
          /\ \A s \in DOMAIN pk.table : s \in DOMAIN table /\ table[s] = pk.table[s]
          /\ \A s \in DOMAIN table \ DOMAIN pk.table : \E i \in fresh : s = Suffix(name, i) /\ table[s] = Offset(pk) + (Len(name) - Len(s))
      <4> HIDE DEF fresh
      <4> QED
        OBVIOUS
    <3>2. \A i \in fresh : Offset(pk) + (Len(name) - Len(Suffix(name, i))) = Offset(pk) + i - 1 /\ Offset(pk) + i - 1 <= MaxPtr
      <4>1. \A i \in 1 .. Len(name) : Len(Suffix(name, i)) = Len(name) - i + 1
        <5>1. TAKE i \in 1 .. Len(name)
        <5>2. i \in 1 .. Len(name) + 1
          BY <1>1
        <5>3. PartOf(name, i, Len(name), Suffix(name, i))
          BY <5>2, SuffixIs
        <5> QED
          BY <5>3 DEF PartOf
      <4>2. Offset(pk) \in Int
        BY SeqHas, MessageBounds DEF IsPack, Offset
      <4> HIDE DEF fresh, bad, stop, shared
      <4> QED
        BY <1>1, <2>5, <4>1, <4>2 DEF PointerFits
    <3>3. shared => pk.on
      OBVIOUS
    <3> HIDE DEF fresh, bad, stop, shared, table
    <3>4. TAKE k \in 0 .. Len(name)
    <3>5. HAVE bad \/ k = stop - 1
    <3>6. \A i \in fresh : i \in 1 .. (IF new.ok THEN k ELSE Len(name))
      <4>1. CASE bad
        BY <2>5, <2>6, <4>1
      <4>2. CASE ~bad
        <5>1. new.ok = TRUE /\ k = stop - 1
          BY <2>6, <3>5, <4>2
        <5>2. ASSUME NEW i \in fresh PROVE i \in 1 .. k
          <6>1. i \in 1 .. Len(name) /\ i < stop
            BY <2>5, <4>2
          <6> QED
            BY <1>1, <2>3, <5>1, <6>1
        <5> QED
          BY <5>1, <5>2
      <4> QED
        BY <4>1, <4>2
    <3>7. PICK n : n = IF new.ok THEN k ELSE Len(name)
      OBVIOUS
    <3>8. \A s \in DOMAIN table \ DOMAIN pk.table :
              pk.on /\ \E i \in 1 .. n : s = Suffix(name, i) /\ table[s] = Offset(pk) + i - 1 /\ table[s] <= MaxPtr
      <4>1. TAKE s \in DOMAIN table \ DOMAIN pk.table
      <4>2. PICK i \in fresh : s = Suffix(name, i) /\ table[s] = Offset(pk) + (Len(name) - Len(s))
        BY <3>1
      <4>3. table[s] = Offset(pk) + i - 1 /\ Offset(pk) + i - 1 <= MaxPtr
        BY <3>2, <4>2
      <4>4. i \in 1 .. n /\ pk.on
        BY <2>5, <3>3, <3>6, <3>7
      <4> QED
        BY <4>2, <4>3, <4>4
    <3>9. new.table = table
      BY <2>6
    <3>10. SuffixesNoted(pk, name, new, n)
      BY <3>1, <3>8, <3>9 DEF SuffixesNoted
    <3> QED
      BY <3>7, <3>10
  <2>8. CASE bad
    <3>1. PICK k \in 0 .. Len(name) : k = stop - 1
      BY <1>1, <2>3
    <3>2. IsSeq(msg) /\ Len(msg) >= Len(pk.msg)
      <4>1. Len(pk.msg) \in Nat /\ IsSeq(pk.msg)
        BY SeqHas DEF IsPack
      <4> HIDE DEF stop, tail
      <4>2. IsSeq(msg) /\ Len(msg) = Len(pk.msg) + k + 1
        <5>1. stop - 1 = k
          BY <3>1
        <5>2. PICK end : end = tail
          OBVIOUS
        <5>3. NameAdded(pk.msg, name, k, end, (pk.msg \o Cells("label", SubSeq(name, 1, k))) \o <<end>>)
          BY <4>1, WrittenIs
        <5>4. NameAdded(pk.msg, name, k, end, msg)
          BY <5>1, <5>2, <5>3
        <5> QED
          BY <5>4 DEF NameAdded
      <4>3. Len(pk.msg) + k + 1 >= Len(pk.msg)
        BY <1>1, <4>1
      <4> QED
        BY <4>2, <4>3
    <3>3. new.ok = FALSE /\ IsSeq(new.msg) /\ Len(new.msg) >= Len(pk.msg)
      BY <2>6, <2>8, <3>2
    <3>4. SuffixesNoted(pk, name, new, IF new.ok THEN k ELSE Len(name))
      <4> HIDE DEF bad, stop
      <4> QED
        BY <2>7, <2>8
    <3> QED
      <4>1. SuffixesNoted(pk, name, new, Len(name))
        BY <3>3, <3>4
      <4> HIDE DEF bad, msg, table
      <4> QED
        BY <1>1, <2>2, <2>6, <3>3, <4>1, NamedFailed
  <2>9. CASE ~bad
    <3>1. PICK k \in 0 .. Len(name) : k = stop - 1
      BY <1>1, <2>3
    <3>2. SuffixesNoted(pk, name, new, IF new.ok THEN k ELSE Len(name))
      <4> HIDE DEF bad, stop
      <4> QED
        BY <2>7, <2>9, <3>1
    <3>3. k < Len(name) => Suffix(name, k + 1) \in DOMAIN pk.table /\ pk.on /\ tail = <<"ptr", pk.table[Suffix(name, k + 1)]>>
      <4>1. k < Len(name) => hit /\ stop = k + 1
        <5> HIDE DEF hit, stop
        <5> QED
          BY <2>9, <3>1, <2>3, <1>1 DEF bad
      <4> HIDE DEF stop
      <4> QED
        BY <4>1
    <3>4. k = Len(name) => tail = <<"end", 0>>
      <4>1. k = Len(name) => ~(stop <= Len(name))
        <5> HIDE DEF stop
        <5> QED
          BY <3>1, <1>1, <2>3
      <4> HIDE DEF stop
      <4> QED
        BY <4>1
    <3>5. tail = IF k = Len(name) THEN <<"end", 0>> ELSE <<"ptr", pk.table[Suffix(name, k + 1)]>>
      <4> HIDE DEF tail
      <4> QED
        BY <1>1, <3>1, <3>3, <3>4
    <3>6. new.ok = TRUE
      BY <2>6, <2>9
    <3>7. NameWritten(pk, name, new, k)
      <4> HIDE DEF tail, stop
      <4> QED
        BY <2>6, <3>1, <3>3, <3>5 DEF NameWritten
    <3> QED
      <4>1. SuffixesNoted(pk, name, new, k)
        BY <3>2, <3>6
      <4> HIDE DEF bad, msg, table
      <4> QED
        BY <2>2, <2>6, <3>6, <3>7, <4>1, NamedWell
  <2> QED
    BY <2>8, <2>9
<1> QED
  BY <1>2, <1>3

(* The cell at an offset of the message.                                      *)
Cell(msg, o) == msg[MsgPrefix + o + 1]

(* The first k labels of a name stand at o, then its end or a pointer to      *)
(* the rest, which is the one the table has as long as no call that failed    *)
(* has changed it.                                                            *)
Labelled(msg, table, sound, o, name, k) ==
    /\ IsSeq(name) /\ o \in Nat /\ k \in 0 .. Len(name) /\ MsgPrefix + o + k + 1 <= Len(msg)
    /\ \A i \in 1 .. k : Cell(msg, o + i - 1) = <<"label", name[i]>>
    /\ IF k = Len(name) THEN Cell(msg, o + k)[1] = "end" ELSE Cell(msg, o + k)[1] = "ptr"
    /\ (sound /\ k < Len(name)) =>
           Suffix(name, k + 1) \in DOMAIN table /\ Cell(msg, o + k)[2] = table[Suffix(name, k + 1)]

(* A name stands from o to end.                                               *)
NameIn(msg, table, sound, o, name, end) ==
    \E k \in Nat : Labelled(msg, table, sound, o, name, k) /\ end = o + k + 1

(* Each name of the table stands where the table says, its first label too.   *)
TableIn(msg, table) ==
    \A s \in DOMAIN table : \E k \in Nat : k > 0 /\ Labelled(msg, table, TRUE, table[s], s, k)

(* What stands in a message stays there, but for the length of a record,      *)
(* which is filled in later.                                                  *)
Keeps(msg, table, new, more) ==
    /\ Len(msg) \in Nat /\ Len(new) \in Nat /\ Len(msg) <= Len(new)
    /\ \A i \in 1 .. Len(msg) : msg[i][1] # "len" => new[i] = msg[i]
    /\ \A s \in DOMAIN table : s \in DOMAIN more /\ more[s] = table[s]

(* A pack to which cells were added.                                          *)
Grows(pk, new) ==
    /\ Keeps(pk.msg, pk.table, new.msg, new.table)
    /\ \A i \in 1 .. Len(pk.msg) : new.msg[i] = pk.msg[i]

(* What is added later moves no name that stands.                             *)
LEMMA LabelledKept ==
  ASSUME NEW msg, NEW table, NEW new, NEW more, Keeps(msg, table, new, more),
         NEW sound, NEW o, NEW name, NEW k, Labelled(msg, table, sound, o, name, k)
  PROVE  Labelled(new, more, sound, o, name, k)
<1>1. MsgPrefix \in Nat /\ o \in Nat /\ k \in Nat /\ Len(name) \in Nat /\ k <= Len(name)
  BY MessageBounds, SeqHas DEF Labelled
<1>2. \A i \in 1 .. k : Cell(new, o + i - 1) = <<"label", name[i]>>
  <2>1. TAKE i \in 1 .. k
  <2>2. MsgPrefix + (o + i - 1) + 1 \in 1 .. Len(msg)
    BY <1>1 DEF Labelled, Keeps
  <2>3. Cell(msg, o + i - 1) = <<"label", name[i]>>
    BY DEF Labelled
  <2>4. Cell(msg, o + i - 1)[1] # "len"
    BY <2>3
  <2> QED
    BY <2>2, <2>3, <2>4 DEF Keeps, Cell
<1>3. Cell(new, o + k) = Cell(msg, o + k)
  <2>1. MsgPrefix + (o + k) + 1 \in 1 .. Len(msg)
    BY <1>1 DEF Labelled, Keeps
  <2>2. Cell(msg, o + k)[1] # "len"
    BY DEF Labelled
  <2> QED
    BY <2>1, <2>2 DEF Keeps, Cell
<1>4. MsgPrefix + o + k + 1 <= Len(new)
  BY <1>1 DEF Labelled, Keeps
<1> QED
  BY <1>1, <1>2, <1>3, <1>4 DEF Labelled, Keeps

(* The same for a whole name.                                                 *)
LEMMA NameKept ==
  ASSUME NEW msg, NEW table, NEW new, NEW more, Keeps(msg, table, new, more),
         NEW sound, NEW o, NEW name, NEW end, NameIn(msg, table, sound, o, name, end)
  PROVE  NameIn(new, more, sound, o, name, end)
  BY LabelledKept DEF NameIn

(* The same for the names of the table.                                       *)
LEMMA TableKeptAs ==
  ASSUME NEW msg, NEW table, NEW new, Keeps(msg, table, new, table), TableIn(msg, table)
  PROVE  TableIn(new, table)
<1>1. ASSUME NEW s \in DOMAIN table PROVE \E k \in Nat : k > 0 /\ Labelled(new, table, TRUE, table[s], s, k)
  <2>1. PICK k \in Nat : k > 0 /\ Labelled(msg, table, TRUE, table[s], s, k)
    BY DEF TableIn
  <2>2. Labelled(new, table, TRUE, table[s], s, k)
    BY <2>1, LabelledKept
  <2> QED
    BY <2>1, <2>2
<1> QED
  BY <1>1 DEF TableIn

(* A name that was packed stands in the message, and so does what the table   *)
(* says of it.                                                                *)
NamePacked(pk, name, new, sound) ==
    /\ IsPack(new) /\ new.on = pk.on /\ Grows(pk, new)
    /\ NameIn(new.msg, new.table, sound, Offset(pk), name, Offset(new))
    /\ sound => TableIn(new.msg, new.table)

(* The suffix of a suffix is a suffix of the name.                            *)
LEMMA SuffixOf ==
  ASSUME NEW name, IsSeq(name), NEW i \in 1 .. Len(name), NEW j \in 1 .. Len(name) - i + 2
  PROVE  Suffix(Suffix(name, i), j) = Suffix(name, i + j - 1)
<1>1. Len(name) \in Nat
  BY SeqHas
<1>2. PICK s : s = Suffix(name, i)
  OBVIOUS
<1>3. IsSeq(s) /\ Len(s) = Len(name) - i + 1 /\ \A n \in 1 .. Len(name) - i + 1 : s[n] = name[i + n - 1]
  <2>1. i \in 1 .. Len(name) + 1
    BY <1>1
  <2>2. PartOf(name, i, Len(name), s)
    BY <1>2, <2>1, SuffixIs
  <2> QED
    BY <2>2 DEF PartOf
<1>4. PICK t : t = Suffix(s, j)
  OBVIOUS
<1>5. j \in 1 .. Len(s) + 1
  BY <1>1, <1>3
<1>6. IsSeq(t) /\ Len(t) = Len(s) - j + 1 /\ \A n \in 1 .. Len(s) - j + 1 : t[n] = s[j + n - 1]
  <2>1. PartOf(s, j, Len(s), t)
    BY <1>3, <1>4, <1>5, SuffixIs
  <2> QED
    BY <2>1 DEF PartOf
<1>7. PICK m : m = i + j - 1
  OBVIOUS
<1>8. m \in 1 .. Len(name) + 1
  BY <1>1, <1>7
<1>9. PICK u : u = Suffix(name, m)
  OBVIOUS
<1>10. IsSeq(u) /\ Len(u) = Len(name) - m + 1 /\ \A n \in 1 .. Len(name) - m + 1 : u[n] = name[m + n - 1]
  <2>1. PartOf(name, m, Len(name), u)
    BY <1>8, <1>9, SuffixIs
  <2> QED
    BY <2>1 DEF PartOf
<1>11. Len(t) = Len(u)
  BY <1>1, <1>3, <1>6, <1>7, <1>10
<1>12. ASSUME NEW n \in 1 .. Len(t) PROVE t[n] = u[n]
  <2>1. n \in 1 .. Len(s) - j + 1 /\ n \in 1 .. Len(name) - m + 1 /\ j + n - 1 \in 1 .. Len(name) - i + 1
    BY <1>1, <1>3, <1>6, <1>7, <1>10, <1>11
  <2>2. i + (j + n - 1) - 1 = m + n - 1
    BY <1>1, <1>7, <2>1
  <2> QED
    BY <1>3, <1>6, <1>10, <2>1, <2>2
<1>13. t = u
  BY <1>6, <1>10, <1>11, <1>12, SameSeq
<1> QED
  BY <1>2, <1>4, <1>7, <1>9, <1>13

(* Where a name stands, each of its suffixes stands.                          *)
LEMMA LabelledSuffix ==
  ASSUME NEW msg, NEW table, NEW sound, NEW o, NEW name, NEW k, Labelled(msg, table, sound, o, name, k),
         NEW i \in 1 .. k
  PROVE  Labelled(msg, table, sound, o + i - 1, Suffix(name, i), k - i + 1)
<1>1. MsgPrefix \in Nat /\ o \in Nat /\ k \in Nat /\ Len(name) \in Nat /\ k <= Len(name) /\ IsSeq(name) /\ i \in 1 .. Len(name)
  BY MessageBounds, SeqHas DEF Labelled
<1>2. PICK s : s = Suffix(name, i)
  OBVIOUS
<1>3. IsSeq(s) /\ Len(s) = Len(name) - i + 1 /\ \A n \in 1 .. Len(name) - i + 1 : s[n] = name[i + n - 1]
  <2>1. i \in 1 .. Len(name) + 1
    BY <1>1
  <2>2. PartOf(name, i, Len(name), s)
    BY <1>1, <1>2, <2>1, SuffixIs
  <2> QED
    BY <2>2 DEF PartOf
<1>4. PICK h : h = k - i + 1
  OBVIOUS
<1>5. PICK p : p = o + i - 1
  OBVIOUS
<1>6. h \in 0 .. Len(s) /\ p \in Nat /\ MsgPrefix + p + h + 1 <= Len(msg) /\ p + h = o + k /\ (h = Len(s) <=> k = Len(name))
  BY <1>1, <1>3, <1>4, <1>5 DEF Labelled
<1>7. \A n \in 1 .. h : Cell(msg, p + n - 1) = <<"label", s[n]>>
  <2>1. TAKE n \in 1 .. h
  <2>2. i + n - 1 \in 1 .. k /\ n \in 1 .. Len(name) - i + 1 /\ p + n - 1 = o + (i + n - 1) - 1
    BY <1>1, <1>4, <1>5
  <2> QED
    BY <1>3, <2>2 DEF Labelled
<1>8. ASSUME k < Len(name) PROVE Suffix(s, h + 1) = Suffix(name, k + 1)
  <2>1. h + 1 \in 1 .. Len(name) - i + 2 /\ i + (h + 1) - 1 = k + 1
    BY <1>1, <1>4, <1>8
  <2>2. Suffix(Suffix(name, i), h + 1) = Suffix(name, i + (h + 1) - 1)
    BY <1>1, <2>1, SuffixOf
  <2> QED
    BY <1>2, <2>1, <2>2
<1>9. h < Len(s) => k < Len(name)
  BY <1>1, <1>3, <1>4
<1>10. Labelled(msg, table, sound, p, s, h)
  BY <1>3, <1>6, <1>7, <1>8, <1>9 DEF Labelled
<1> QED
  BY <1>2, <1>4, <1>5, <1>10

(* Noting suffixes keeps a table one: offsets that do not fit are not noted   *)
(* (Name.pack).                                                               *)
LEMMA TableNoted ==
  ASSUME NEW pk, IsPack(pk), NEW name, IsSeq(name), NEW new, NEW k \in 0 .. Len(name), SuffixesNoted(pk, name, new, k)
  PROVE  IsTable(new.table)
<1>1. Len(name) \in Nat /\ Offset(pk) \in Nat
  BY SeqHas, MessageBounds DEF IsPack, Offset
<1>2. ASSUME NEW s \in DOMAIN new.table PROVE IsSeq(s) /\ Len(s) > 0 /\ new.table[s] \in 0 .. MaxPtr
  <2>1. CASE s \in DOMAIN pk.table
    BY <2>1 DEF SuffixesNoted, IsPack, IsTable
  <2>2. CASE s \notin DOMAIN pk.table
    <3>1. PICK i \in 1 .. k : s = Suffix(name, i) /\ new.table[s] = Offset(pk) + i - 1 /\ new.table[s] <= MaxPtr
      BY <2>2 DEF SuffixesNoted
    <3>2. i \in 1 .. Len(name) + 1 /\ i \in 1 .. Len(name)
      BY <1>1
    <3>3. PartOf(name, i, Len(name), s)
      BY <3>1, <3>2, SuffixIs
    <3>4. IsSeq(s) /\ Len(s) = Len(name) - i + 1
      BY <3>3 DEF PartOf
    <3> QED
      BY <1>1, <3>1, <3>2, <3>4, MessageBounds
  <2> QED
    BY <2>1, <2>2
<1> QED
  BY <1>2 DEF IsTable, SuffixesNoted

(* PackName returns a pack.                                                   *)
LEMMA NameIsPack ==
  ASSUME NEW pk, IsPack(pk), NEW name, IsSeq(name), NEW c \in BOOLEAN
  PROVE  IsPack(PackName(pk, name, c)) /\ PackName(pk, name, c).on = pk.on
<1>1. PICK new : new = PackName(pk, name, c)
  OBVIOUS
<1>2. NameGiven(pk, name, new)
  BY <1>1, PackNameGives
<1>3. PICK k \in 0 .. Len(name) :
           /\ SuffixesNoted(pk, name, new, IF new.ok THEN k ELSE Len(name))
           /\ IF new.ok THEN NameWritten(pk, name, new, k) ELSE IsSeq(new.msg) /\ Len(new.msg) >= Len(pk.msg)
  BY <1>2 DEF NameGiven
<1>4. Len(name) \in Nat /\ Len(pk.msg) \in Nat /\ MsgPrefix \in Nat
  BY SeqHas, MessageBounds DEF IsPack
<1>5. CASE new.ok = TRUE
  <2>1. IsTable(new.table)
    BY <1>3, <1>5, TableNoted
  <2>2. PICK tail : new.msg = (pk.msg \o Cells("label", SubSeq(name, 1, k))) \o <<tail>>
    BY <1>3, <1>5 DEF NameWritten
  <2>3. NameAdded(pk.msg, name, k, tail, new.msg)
    BY <2>2, WrittenIs DEF IsPack
  <2>4. IsSeq(new.msg) /\ Len(new.msg) = Len(pk.msg) + k + 1
    BY <2>3 DEF NameAdded
  <2> QED
    BY <1>1, <1>2, <1>4, <2>1, <2>4 DEF NameGiven, IsPack
<1>6. CASE new.ok = FALSE
  <2>1. Len(name) \in 0 .. Len(name) /\ SuffixesNoted(pk, name, new, Len(name))
    BY <1>3, <1>4, <1>6
  <2>2. IsTable(new.table)
    BY <2>1, TableNoted
  <2>3. IsSeq(new.msg) /\ Len(new.msg) >= Len(pk.msg)
    BY <1>3, <1>6
  <2>4. Len(new.msg) \in Nat
    BY <2>3, SeqHas
  <2> QED
    BY <1>1, <1>2, <1>4, <2>2, <2>3, <2>4 DEF NameGiven, IsPack
<1> QED
  BY <1>2, <1>5, <1>6 DEF NameGiven

(* A name that PackName accepts stands where it was put, and the table stays  *)
(* right.                                                                     *)
LEMMA NameIsPacked ==
  ASSUME NEW pk, IsPack(pk), NEW name, IsSeq(name), NEW c \in BOOLEAN, NEW sound \in BOOLEAN,
         sound => TableIn(pk.msg, pk.table), NEW new, new = PackName(pk, name, c), new.ok
  PROVE  NamePacked(pk, name, new, sound)
<1>1. NameGiven(pk, name, new)
  BY PackNameGives
<1>2. new.ok = TRUE
  BY <1>1 DEF NameGiven
<1>3. PICK k \in 0 .. Len(name) : SuffixesNoted(pk, name, new, k) /\ NameWritten(pk, name, new, k)
  BY <1>1, <1>2 DEF NameGiven
<1>4. PICK tail : tail = IF k = Len(name) THEN <<"end", 0>> ELSE <<"ptr", pk.table[Suffix(name, k + 1)]>>
  OBVIOUS
<1>5. NameAdded(pk.msg, name, k, tail, new.msg)
  <2>1. new.msg = (pk.msg \o Cells("label", SubSeq(name, 1, k))) \o <<tail>>
    BY <1>3, <1>4 DEF NameWritten
  <2> QED
    BY <2>1, WrittenIs DEF IsPack
<1>6. Len(name) \in Nat /\ Len(pk.msg) \in Nat /\ MsgPrefix \in Nat /\ Len(pk.msg) > MsgPrefix
  BY SeqHas, MessageBounds DEF IsPack
<1>7. Offset(pk) = Len(pk.msg) - MsgPrefix /\ Offset(new) = Len(new.msg) - MsgPrefix /\ Len(new.msg) = Len(pk.msg) + k + 1 /\ Offset(pk) \in Nat
  BY <1>5, <1>6 DEF Offset, NameAdded
<1>8. IsPack(new) /\ new.on = pk.on
  BY NameIsPack
<1>9. Grows(pk, new)
  BY <1>3, <1>5, <1>6, <1>7 DEF Grows, Keeps, NameAdded, SuffixesNoted
<1>10. k < Len(name) => Suffix(name, k + 1) \in DOMAIN pk.table /\ tail = <<"ptr", pk.table[Suffix(name, k + 1)]>>
  BY <1>3, <1>4 DEF NameWritten
<1>11. k = Len(name) => tail = <<"end", 0>>
  BY <1>4
<1>12. \A i \in 1 .. k : Cell(new.msg, Offset(pk) + i - 1) = <<"label", name[i]>>
  <2>1. TAKE i \in 1 .. k
  <2>2. MsgPrefix + (Offset(pk) + i - 1) + 1 = Len(pk.msg) + i
    BY <1>6, <1>7
  <2> QED
    BY <1>5, <2>2 DEF NameAdded, Cell
<1>13. Cell(new.msg, Offset(pk) + k) = tail
  <2>1. MsgPrefix + (Offset(pk) + k) + 1 = Len(pk.msg) + k + 1
    BY <1>6, <1>7
  <2> QED
    BY <1>5, <2>1 DEF NameAdded, Cell
<1>14. \A s \in DOMAIN pk.table : s \in DOMAIN new.table /\ new.table[s] = pk.table[s]
  BY <1>3 DEF SuffixesNoted
<1>15. Labelled(new.msg, new.table, TRUE, Offset(pk), name, k)
  <2>1. MsgPrefix + Offset(pk) + k + 1 <= Len(new.msg)
    BY <1>6, <1>7
  <2>2. IF k = Len(name) THEN tail[1] = "end" ELSE tail[1] = "ptr"
    BY <1>6, <1>10, <1>11
  <2>3. k < Len(name) => Suffix(name, k + 1) \in DOMAIN new.table /\ tail[2] = new.table[Suffix(name, k + 1)]
    BY <1>10, <1>14
  <2> QED
    BY <1>6, <1>7, <1>12, <1>13, <2>1, <2>2, <2>3 DEF Labelled
<1>16. Labelled(new.msg, new.table, sound, Offset(pk), name, k)
  BY <1>15 DEF Labelled
<1>17. NameIn(new.msg, new.table, sound, Offset(pk), name, Offset(new))
  <2>1. Offset(new) = Offset(pk) + k + 1 /\ k \in Nat
    BY <1>6, <1>7
  <2> QED
    BY <1>16, <2>1 DEF NameIn
<1>18. ASSUME sound, NEW s \in DOMAIN new.table
       PROVE \E n \in Nat : n > 0 /\ Labelled(new.msg, new.table, TRUE, new.table[s], s, n)
  <2>1. CASE s \in DOMAIN pk.table
    <3>1. PICK n \in Nat : n > 0 /\ Labelled(pk.msg, pk.table, TRUE, pk.table[s], s, n)
      BY <1>18, <2>1 DEF TableIn
    <3>2. Labelled(new.msg, new.table, TRUE, pk.table[s], s, n)
      <4>1. Keeps(pk.msg, pk.table, new.msg, new.table)
        BY <1>9 DEF Grows
      <4>2. PICK p : p = pk.table[s]
        OBVIOUS
      <4>3. Labelled(pk.msg, pk.table, TRUE, p, s, n)
        BY <3>1, <4>2
      <4>4. Labelled(new.msg, new.table, TRUE, p, s, n)
        BY ONLY <4>1, <4>3, LabelledKept
      <4> QED
        BY <4>2, <4>4
    <3> QED
      BY <1>14, <2>1, <3>1, <3>2
  <2>2. CASE s \notin DOMAIN pk.table
    <3>1. PICK i \in 1 .. k : s = Suffix(name, i) /\ new.table[s] = Offset(pk) + i - 1
      BY <1>3, <2>2 DEF SuffixesNoted
    <3>2. Labelled(new.msg, new.table, TRUE, Offset(pk) + i - 1, Suffix(name, i), k - i + 1)
      BY <1>15, LabelledSuffix
    <3>3. k - i + 1 \in Nat /\ k - i + 1 > 0
      BY <1>6
    <3> QED
      BY <3>1, <3>2, <3>3
  <2> QED
    BY <2>1, <2>2
<1>19. sound => TableIn(new.msg, new.table)
  BY <1>18 DEF TableIn
<1> QED
  BY <1>8, <1>9, <1>17, <1>19 DEF NamePacked

------------------------------------------------------------------------------
(* Packing a field, a record's data, a question, a record.                    *)

(* The kinds of fields of a record's data.                                    *)
Kinds == {"name", "plain", "num", "texts", "options", "params", "raw"}

(* A value of a kind.                                                         *)
Field(kind, v) == kind \in Kinds /\ (kind # "num" => IsSeq(v))

(* The items of a list as they are packed: the parameters by their keys.      *)
Listed(kind, v) == IF kind = "params" THEN SortedParams(v) ELSE v

(* The items of a list stand from o to end.                                   *)
ListIn(msg, o, kind, items, end) ==
    /\ Len(items) \in Nat /\ end = o + Len(items) /\ MsgPrefix + end <= Len(msg)
    /\ \A i \in 1 .. Len(items) : Cell(msg, o + i - 1) = <<kind, items[i]>>

(* A field stands from o to end.                                              *)
FieldIn(msg, table, sound, o, kind, v, end) ==
    /\ o \in Nat /\ end \in Nat
    /\ kind \in {"name", "plain"} => NameIn(msg, table, sound, o, v, end)
    /\ kind = "num" => end = o + 1 /\ MsgPrefix + end <= Len(msg) /\ Cell(msg, o) = <<"num", v>>
    /\ IsList(kind) => ListIn(msg, o, kind, Listed(kind, v), end)

(* A pack that grew and whose table stays right.                              *)
Packed(pk, new, sound) ==
    /\ IsPack(new) /\ new.on = pk.on /\ Grows(pk, new)
    /\ sound => TableIn(new.msg, new.table)

(* A field was packed.                                                        *)
FieldPacked(pk, kind, v, new, sound) ==
    /\ Packed(pk, new, sound)
    /\ FieldIn(new.msg, new.table, sound, Offset(pk), kind, v, Offset(new))

(* An offset counts the cells after the prefix.                               *)
LEMMA OffsetIs == ASSUME NEW pk, IsPack(pk) PROVE Offset(pk) \in Nat /\ Offset(pk) > 0 /\ Offset(pk) + MsgPrefix = Len(pk.msg) /\ Len(pk.msg) \in Nat
  BY SeqHas, MessageBounds DEF IsPack, Offset

(* What is added later moves no field that stands.                            *)
LEMMA FieldKept ==
  ASSUME NEW msg, NEW table, NEW new, NEW more, Keeps(msg, table, new, more),
         NEW sound, NEW o, NEW kind, NEW v, NEW end, FieldIn(msg, table, sound, o, kind, v, end)
  PROVE  FieldIn(new, more, sound, o, kind, v, end)
<1>1. Len(msg) \in Nat /\ Len(new) \in Nat /\ Len(msg) <= Len(new) /\ MsgPrefix \in Nat /\ o \in Nat /\ end \in Nat
  BY MessageBounds DEF Keeps, FieldIn
<1>2. ASSUME kind \in {"name", "plain"} PROVE NameIn(new, more, sound, o, v, end)
  <2>1. NameIn(msg, table, sound, o, v, end)
    BY <1>2 DEF FieldIn
  <2> QED
    BY <2>1, NameKept
<1>3. ASSUME kind = "num" PROVE end = o + 1 /\ MsgPrefix + end <= Len(new) /\ Cell(new, o) = <<"num", v>>
  <2>1. end = o + 1 /\ MsgPrefix + end <= Len(msg) /\ Cell(msg, o) = <<"num", v>>
    BY <1>3 DEF FieldIn
  <2>2. MsgPrefix + o + 1 \in 1 .. Len(msg) /\ Cell(msg, o)[1] # "len"
    BY <1>1, <2>1
  <2> QED
    BY <1>1, <2>1, <2>2 DEF Keeps, Cell
<1>4. ASSUME IsList(kind) PROVE ListIn(new, o, kind, Listed(kind, v), end)
  <2>1. PICK items : items = Listed(kind, v)
    OBVIOUS
  <2>2. ListIn(msg, o, kind, items, end)
    BY <1>4, <2>1 DEF FieldIn
  <2>3. Len(items) \in Nat /\ end = o + Len(items) /\ MsgPrefix + end <= Len(msg)
    BY <2>2 DEF ListIn
  <2>4. ASSUME NEW i \in 1 .. Len(items) PROVE Cell(new, o + i - 1) = <<kind, items[i]>>
    <3>1. MsgPrefix + (o + i - 1) + 1 \in 1 .. Len(msg)
      BY <1>1, <2>3
    <3>2. Cell(msg, o + i - 1) = <<kind, items[i]>>
      BY <2>2 DEF ListIn
    <3>3. Cell(msg, o + i - 1)[1] # "len"
      BY <1>4, <3>2 DEF IsList
    <3> QED
      BY <3>1, <3>2, <3>3 DEF Keeps, Cell
  <2>5. ListIn(new, o, kind, items, end)
    BY <1>1, <2>3, <2>4 DEF ListIn
  <2> QED
    BY <2>1, <2>5
<1> QED
  BY <1>1, <1>2, <1>3, <1>4 DEF FieldIn

(* Cells put at the end of a message.                                         *)
LEMMA CellsPacked ==
  ASSUME NEW pk, IsPack(pk), NEW sound \in BOOLEAN, sound => TableIn(pk.msg, pk.table), NEW new, NEW cells,
         new = [pk EXCEPT !.msg = cells], IsSeq(cells), Len(cells) >= Len(pk.msg),
         \A i \in 1 .. Len(pk.msg) : cells[i] = pk.msg[i]
  PROVE  Packed(pk, new, sound) /\ new.ok = pk.ok /\ new.msg = cells /\ new.table = pk.table
<1>1. Len(pk.msg) \in Nat /\ Len(cells) \in Nat /\ MsgPrefix \in Nat
  BY SeqHas, MessageBounds DEF IsPack
<1>2. new = [ok |-> pk.ok, msg |-> cells, on |-> pk.on, table |-> pk.table]
  BY DEF IsPack
<1>3. IsPack(new) /\ new.on = pk.on
  BY <1>1, <1>2 DEF IsPack
<1>4. Grows(pk, new)
  BY <1>1, <1>2 DEF Grows, Keeps
<1>5. sound => TableIn(new.msg, new.table)
  <2>1. Keeps(pk.msg, pk.table, cells, pk.table)
    BY <1>2, <1>4 DEF Grows
  <2> QED
    BY <1>2, <2>1, TableKeptAs
<1> QED
  BY <1>2, <1>3, <1>4, <1>5 DEF Packed

(* A sequence with one more element.                                          *)
Appended(s, x, new) ==
    /\ IsSeq(new) /\ Len(new) = Len(s) + 1 /\ \A i \in 1 .. Len(s) : new[i] = s[i]
    /\ new[Len(s) + 1] = x

(* Append adds one.                                                           *)
LEMMA AppendedIs == ASSUME NEW s, IsSeq(s), NEW x PROVE Appended(s, x, Append(s, x))
  BY AppendIs DEF Appended

(* One cell more.                                                             *)
LEMMA OnePacked ==
  ASSUME NEW pk, IsPack(pk), NEW sound \in BOOLEAN, sound => TableIn(pk.msg, pk.table), NEW kind, NEW v,
         NEW new, new = Append1(pk, kind, v)
  PROVE  /\ Packed(pk, new, sound) /\ new.ok = pk.ok /\ new.table = pk.table
         /\ Offset(new) = Offset(pk) + 1 /\ Cell(new.msg, Offset(pk)) = <<kind, v>>
<1>1. PICK cells : cells = Append(pk.msg, <<kind, v>>)
  OBVIOUS
<1>2. new = [pk EXCEPT !.msg = cells]
  BY <1>1 DEF Append1
<1>3. Appended(pk.msg, <<kind, v>>, cells)
  BY <1>1, AppendedIs DEF IsPack
<1>4. Len(pk.msg) \in Nat
  BY SeqHas DEF IsPack
<1>5. /\ IsSeq(cells) /\ Len(cells) = Len(pk.msg) + 1 /\ Len(cells) >= Len(pk.msg)
      /\ \A i \in 1 .. Len(pk.msg) : cells[i] = pk.msg[i]
  BY <1>3, <1>4 DEF Appended
<1>6. Packed(pk, new, sound) /\ new.ok = pk.ok /\ new.msg = cells /\ new.table = pk.table
  BY <1>2, <1>5, CellsPacked
<1>7. Offset(new) = Offset(pk) + 1
  BY <1>4, <1>5, <1>6, MessageBounds DEF Offset
<1>8. Cell(new.msg, Offset(pk)) = <<kind, v>>
  <2>1. MsgPrefix + Offset(pk) + 1 = Len(pk.msg) + 1
    BY <1>4, MessageBounds DEF Offset
  <2> QED
    BY <1>3, <1>6, <2>1 DEF Cell, Appended
<1> QED
  BY <1>6, <1>7, <1>8

(* A list more.                                                               *)
LEMMA ListPacked ==
  ASSUME NEW pk, IsPack(pk), NEW sound \in BOOLEAN, sound => TableIn(pk.msg, pk.table), NEW kind, NEW items,
         Len(items) \in Nat, NEW new, new = [pk EXCEPT !.msg = pk.msg \o Cells(kind, items)]
  PROVE  /\ Packed(pk, new, sound) /\ new.ok = pk.ok /\ new.table = pk.table
         /\ ListIn(new.msg, Offset(pk), kind, items, Offset(new))
<1>1. PICK cells : cells = Cells(kind, items)
  OBVIOUS
<1>2. IsSeq(cells) /\ Len(cells) = Len(items) /\ \A i \in 1 .. Len(items) : cells[i] = <<kind, items[i]>>
  BY <1>1, CellsAre
<1>3. PICK all : all = pk.msg \o cells
  OBVIOUS
<1>4. Joined(pk.msg, cells, all)
  BY <1>2, <1>3, ConcatIs DEF IsPack
<1>5. Len(pk.msg) \in Nat
  BY SeqHas DEF IsPack
<1>6. /\ IsSeq(all) /\ Len(all) = Len(pk.msg) + Len(items) /\ Len(all) >= Len(pk.msg)
      /\ \A i \in 1 .. Len(pk.msg) : all[i] = pk.msg[i]
  BY <1>2, <1>4, <1>5 DEF Joined
<1>7. new = [pk EXCEPT !.msg = all]
  BY <1>1, <1>3
<1>8. Packed(pk, new, sound) /\ new.ok = pk.ok /\ new.msg = all /\ new.table = pk.table
  BY <1>6, <1>7, CellsPacked
<1>9. ListIn(new.msg, Offset(pk), kind, items, Offset(new))
  <2>1. Offset(new) = Offset(pk) + Len(items) /\ MsgPrefix + Offset(new) <= Len(new.msg)
    <3>1. Offset(pk) = Len(pk.msg) - MsgPrefix /\ Offset(new) = Len(all) - MsgPrefix /\ Len(new.msg) = Len(all) /\ MsgPrefix \in Nat
      BY <1>8, MessageBounds DEF Offset
    <3> QED
      BY <1>5, <1>6, <3>1
  <2>2. ASSUME NEW i \in 1 .. Len(items) PROVE Cell(new.msg, Offset(pk) + i - 1) = <<kind, items[i]>>
    <3>1. MsgPrefix + (Offset(pk) + i - 1) + 1 = Len(pk.msg) + i
      BY <1>5, MessageBounds DEF Offset
    <3> QED
      BY <1>2, <1>4, <1>8, <3>1 DEF Cell, Joined
  <2> QED
    BY <2>1, <2>2 DEF ListIn
<1> QED
  BY <1>8, <1>9

(* Sorting the parameters keeps their number.                                 *)
LEMMA ListedIs ==
  ASSUME NEW kind, NEW v, IsSeq(v)
  PROVE  IsSeq(Listed(kind, v)) /\ Len(Listed(kind, v)) = Len(v)
<1>1. Len(v) \in Nat
  BY SeqHas
<1>2. PICK s : s = SortedParams(v)
  OBVIOUS
<1>3. s = [n \in 1 .. Len(v) |-> s[n]]
  BY <1>2 DEF SortedParams
<1>4. IsSeq(s) /\ Len(s) = Len(v)
  BY <1>1, <1>3, SeqMade
<1> QED
  BY <1>2, <1>4 DEF Listed

(* A refusal leaves a pack.                                                   *)
LEMMA Refused ==
  ASSUME NEW pk, IsPack(pk), NEW new, new = [pk EXCEPT !.ok = FALSE]
  PROVE  IsPack(new) /\ new.on = pk.on /\ new.ok = FALSE
  BY DEF IsPack

(* What packing a field comes to.                                             *)
LEMMA FieldWays ==
  ASSUME NEW pk, NEW kind, NEW v, Field(kind, v), NEW new, new = PackField(pk, kind, v)
  PROVE  \/ kind \in {"name", "plain"} /\ \E c \in BOOLEAN : new = PackName(pk, v, c)
         \/ kind = "num" /\ new = Append1(pk, kind, v)
         \/ IsList(kind) /\ new = [pk EXCEPT !.msg = pk.msg \o Cells(kind, Listed(kind, v))]
         \/ IsList(kind) /\ new = [pk EXCEPT !.ok = FALSE]
<1>1. CASE kind = "name"
  BY <1>1 DEF PackField
<1>2. CASE kind = "plain"
  BY <1>2 DEF PackField
<1>3. CASE kind = "num"
  BY <1>3 DEF PackField
<1>4. CASE kind = "params"
  BY <1>4 DEF PackField, IsList, Listed
<1>5. CASE kind \in {"options", "raw"}
  BY <1>5 DEF PackField, IsList, Listed
<1>6. CASE kind = "texts"
  <2>1. new = IF \E i \in 1 .. Len(v) : v[i] = "long" THEN [pk EXCEPT !.ok = FALSE]
              ELSE [pk EXCEPT !.msg = pk.msg \o Cells(kind, v)]
    BY <1>6 DEF PackField
  <2> QED
    BY <1>6, <2>1 DEF IsList, Listed
<1> QED
  BY <1>1, <1>2, <1>3, <1>4, <1>5, <1>6 DEF Field, Kinds

(* PackField returns a pack.                                                  *)
LEMMA FieldIsPack ==
  ASSUME NEW pk, IsPack(pk), NEW kind, NEW v, Field(kind, v), NEW new, new = PackField(pk, kind, v)
  PROVE  IsPack(new) /\ new.on = pk.on
<1>1. CASE kind \in {"name", "plain"} /\ \E c \in BOOLEAN : new = PackName(pk, v, c)
  <2>1. IsSeq(v)
    BY <1>1 DEF Field
  <2> QED
    BY <1>1, <2>1, NameIsPack
<1>2. CASE kind = "num" /\ new = Append1(pk, kind, v)
  <2>1. Packed(pk, new, FALSE)
    BY <1>2, OnePacked
  <2> QED
    BY <2>1 DEF Packed
<1>3. CASE IsList(kind) /\ new = [pk EXCEPT !.msg = pk.msg \o Cells(kind, Listed(kind, v))]
  <2>1. IsSeq(v)
    BY <1>3 DEF Field, IsList
  <2>2. PICK items : items = Listed(kind, v) /\ Len(items) \in Nat
    BY <2>1, ListedIs, SeqHas
  <2>3. Packed(pk, new, FALSE)
    BY <1>3, <2>2, ListPacked
  <2> QED
    BY <2>3 DEF Packed
<1>4. CASE IsList(kind) /\ new = [pk EXCEPT !.ok = FALSE]
  BY <1>4, Refused
<1> QED
  BY <1>1, <1>2, <1>3, <1>4, FieldWays

(* A field that PackField accepts stands where it was put.                    *)
LEMMA FieldIsPacked ==
  ASSUME NEW pk, IsPack(pk), NEW kind, NEW v, Field(kind, v), NEW sound \in BOOLEAN,
         sound => TableIn(pk.msg, pk.table), NEW new, new = PackField(pk, kind, v), new.ok
  PROVE  FieldPacked(pk, kind, v, new, sound)
<1>1. IsPack(new) /\ new.on = pk.on
  BY FieldIsPack
<1>2. Offset(pk) \in Nat /\ Offset(new) \in Nat
  BY <1>1, OffsetIs
<1>3. CASE kind \in {"name", "plain"} /\ \E c \in BOOLEAN : new = PackName(pk, v, c)
  <2>1. IsSeq(v)
    BY <1>3 DEF Field
  <2>2. NamePacked(pk, v, new, sound)
    BY <1>3, <2>1, NameIsPacked
  <2> QED
    BY <1>2, <1>3, <2>2 DEF FieldPacked, Packed, NamePacked, FieldIn, IsList
<1>4. CASE kind = "num" /\ new = Append1(pk, kind, v)
  <2>1. /\ Packed(pk, new, sound)
        /\ Offset(new) = Offset(pk) + 1 /\ Cell(new.msg, Offset(pk)) = <<kind, v>>
    BY <1>4, OnePacked
  <2>2. MsgPrefix + Offset(new) <= Len(new.msg)
    BY <1>1, OffsetIs, MessageBounds
  <2> QED
    BY <1>2, <1>4, <2>1, <2>2 DEF FieldPacked, FieldIn, IsList
<1>5. CASE IsList(kind) /\ new = [pk EXCEPT !.msg = pk.msg \o Cells(kind, Listed(kind, v))]
  <2>1. IsSeq(v)
    BY <1>5 DEF Field, IsList
  <2>2. PICK items : items = Listed(kind, v) /\ Len(items) \in Nat
    BY <2>1, ListedIs, SeqHas
  <2>3. Packed(pk, new, sound) /\ ListIn(new.msg, Offset(pk), kind, items, Offset(new))
    BY <1>5, <2>2, ListPacked
  <2> QED
    BY <1>2, <1>5, <2>2, <2>3 DEF FieldPacked, FieldIn, IsList
<1>6. CASE IsList(kind) /\ new = [pk EXCEPT !.ok = FALSE]
  BY <1>6, Refused
<1> QED
  BY <1>3, <1>4, <1>5, <1>6, FieldWays

(* Keeping what was packed.                                                   *)
LEMMA GrowsOn ==
  ASSUME NEW a, NEW b, NEW c, Grows(a, b), Grows(b, c)
  PROVE  Grows(a, c)
<1>1. Len(a.msg) \in Nat /\ Len(b.msg) \in Nat /\ Len(c.msg) \in Nat /\ Len(a.msg) <= Len(b.msg) /\ Len(b.msg) <= Len(c.msg)
  BY DEF Grows, Keeps
<1>2. \A i \in 1 .. Len(a.msg) : c.msg[i] = a.msg[i]
  <2>1. TAKE i \in 1 .. Len(a.msg)
  <2>2. i \in 1 .. Len(b.msg)
    BY <1>1
  <2> QED
    BY <2>2 DEF Grows
<1>3. \A s \in DOMAIN a.table : s \in DOMAIN c.table /\ c.table[s] = a.table[s]
  BY DEF Grows, Keeps
<1> QED
  BY <1>1, <1>2, <1>3 DEF Grows, Keeps

(* Nothing was added.                                                         *)
LEMMA GrowsSelf == ASSUME NEW pk, IsPack(pk) PROVE Grows(pk, pk)
  BY SeqHas DEF Grows, Keeps, IsPack

(* The data of a record has the fields its type says, a list last.            *)
LEMMA DataIs ==
  ASSUME NEW type
  PROVE  /\ Len(Data(type)) \in 1 .. 3
         /\ \A i \in 1 .. Len(Data(type)) : Data(type)[i] \in Kinds /\ (IsList(Data(type)[i]) => i = Len(Data(type)))
<1>1. Data(type) \in {<<"name">>, <<"num", "name">>, <<"name", "name", "num">>, <<"num", "plain">>, <<"num">>,
                      <<"texts">>, <<"options">>, <<"num", "plain", "params">>, <<"raw">>}
  BY DEF Data, AData, NSData, CNAMEData, SOAData, PTRData, MXData, TXTData, AAAAData, SRVData, SVCBData, HTTPSData,
         OPTData, UnknownData
<1>2. PICK d : d = Data(type)
  OBVIOUS
<1>3. CASE d \in {<<"name">>, <<"num">>, <<"texts">>, <<"options">>, <<"raw">>}
  BY <1>2, <1>3 DEF Kinds, IsList
<1>4. CASE d \in {<<"num", "name">>, <<"num", "plain">>}
  BY <1>2, <1>4 DEF Kinds, IsList
<1>5. CASE d \in {<<"name", "name", "num">>, <<"num", "plain", "params">>}
  BY <1>2, <1>5 DEF Kinds, IsList
<1> QED
  BY <1>1, <1>2, <1>3, <1>4, <1>5

(* The fields of a record's data, one by one.                                 *)
BodySteps(pk, r, f) ==
    /\ f[0] = pk
    /\ \A n \in 1 .. Len(Data(r.type)) :
           f[n] = IF f[n - 1].ok THEN PackField(f[n - 1], Data(r.type)[n], r.body[n]) ELSE f[n - 1]

(* PackBody is the last of its steps.                                         *)
LEMMA PackBodyUnfolds ==
  ASSUME NEW pk, NEW r
  PROVE  \E f : BodySteps(pk, r, f) /\ PackBody(pk, r) = f[Len(Data(r.type))]
<1> DEFINE Step(x, n) == IF x.ok THEN PackField(x, Data(r.type)[n], r.body[n]) ELSE x
           IsDone(d, m) == d = [n \in 0 .. m |-> IF n = 0 THEN pk ELSE Step(d[n - 1], n)]
           Bad == {m \in Nat : ~ \E d : IsDone(d, m)}
<1> HIDE DEF Step
<1>0. Len(Data(r.type)) \in Nat
  BY DataIs
<1>1. \A m \in Nat : \E d : IsDone(d, m)
  <2> SUFFICES ASSUME Bad # {} PROVE FALSE
    OBVIOUS
  <2>1. PICK m \in Bad : \A k \in Bad : m <= k
    <3> HIDE DEF Bad
    <3>1. Bad \in SUBSET Nat
      BY DEF Bad
    <3> QED
      BY <3>1, LeastNatural
  <2>2. CASE m = 0
    <3>1. IsDone([n \in 0 .. 0 |-> pk], 0)
      OBVIOUS
    <3> QED
      BY <3>1, <2>2, <2>1
  <2>3. CASE m # 0
    <3>1. m - 1 \in Nat /\ m - 1 \notin Bad
      <4>1. m \in Nat
        BY <2>1
      <4> HIDE DEF Bad
      <4> QED
        BY <2>1, <2>3, <4>1
    <3>2. PICK d : IsDone(d, m - 1)
      BY <3>1
    <3> DEFINE e == [n \in 0 .. m |-> IF n = m THEN Step(d[m - 1], m) ELSE d[n]]
    <3>3. \A n \in 0 .. m : e[n] = IF n = 0 THEN pk ELSE Step(e[n - 1], n)
      <4> TAKE n \in 0 .. m
      <4>1. CASE n = 0
        BY <4>1, <3>1, <3>2
      <4>2. CASE n # 0 /\ n # m
        BY <4>2, <3>1, <3>2
      <4>3. CASE n # 0 /\ n = m
        BY <4>3, <3>1, <3>2
      <4> QED
        BY <4>1, <4>2, <4>3
    <3>4. IsDone(e, m)
      BY <3>3
    <3> QED
      BY <3>4, <2>1
  <2> QED
    BY <2>2, <2>3
<1>2. PICK d : IsDone(d, Len(Data(r.type)))
  BY <1>0, <1>1
<1> DEFINE f == CHOOSE x : IsDone(x, Len(Data(r.type)))
<1>3. IsDone(f, Len(Data(r.type)))
  BY <1>2
<1>4. PackBody(pk, r) = f[Len(Data(r.type))]
  BY DEF PackBody, Step
<1> HIDE DEF f
<1>5. f[0] = pk /\ \A n \in 1 .. Len(Data(r.type)) : f[n] = Step(f[n - 1], n)
  BY <1>0, <1>3
<1> QED
  BY <1>4, <1>5 DEF Step, BodySteps

(* A record whose data are what its type says.                                *)
Record(r) ==
    /\ IsSeq(r.name)
    /\ \A i \in 1 .. Len(Data(r.type)) : Field(Data(r.type)[i], r.body[i])

(* A record's data stand from o to end, field after field.                    *)
BodyIn(msg, table, sound, o, r, end) ==
    \E at :
        /\ at[0] = o /\ at[Len(Data(r.type))] = end
        /\ \A i \in 1 .. Len(Data(r.type)) : FieldIn(msg, table, sound, at[i - 1], Data(r.type)[i], r.body[i], at[i])

(* What is added later moves no data that stand.                              *)
LEMMA BodyKept ==
  ASSUME NEW msg, NEW table, NEW new, NEW more, Keeps(msg, table, new, more),
         NEW sound, NEW o, NEW r, NEW end, BodyIn(msg, table, sound, o, r, end)
  PROVE  BodyIn(new, more, sound, o, r, end)
<1>1. PICK at :
        /\ at[0] = o /\ at[Len(Data(r.type))] = end
        /\ \A i \in 1 .. Len(Data(r.type)) : FieldIn(msg, table, sound, at[i - 1], Data(r.type)[i], r.body[i], at[i])
  BY DEF BodyIn
<1>2. ASSUME NEW i \in 1 .. Len(Data(r.type)) PROVE FieldIn(new, more, sound, at[i - 1], Data(r.type)[i], r.body[i], at[i])
  <2>1. PICK p, e, kind, v : p = at[i - 1] /\ e = at[i] /\ kind = Data(r.type)[i] /\ v = r.body[i]
    OBVIOUS
  <2>2. FieldIn(msg, table, sound, p, kind, v, e)
    BY <1>1, <2>1
  <2>3. FieldIn(new, more, sound, p, kind, v, e)
    BY ONLY <2>2, Keeps(msg, table, new, more), FieldKept
  <2> QED
    BY <2>1, <2>3
<1> QED
  BY <1>1, <1>2 DEF BodyIn

(* A record's data were packed.                                               *)
BodyPacked(pk, r, new, sound) ==
    /\ Packed(pk, new, sound)
    /\ BodyIn(new.msg, new.table, sound, Offset(pk), r, Offset(new))

(* PackBody returns a pack.                                                   *)
LEMMA BodyIsPack ==
  ASSUME NEW pk, IsPack(pk), NEW r, Record(r), NEW new, new = PackBody(pk, r)
  PROVE  IsPack(new) /\ new.on = pk.on
<1>1. PICK f : BodySteps(pk, r, f) /\ new = f[Len(Data(r.type))]
  BY PackBodyUnfolds
<1> DEFINE N == Len(Data(r.type))
           Fine(n) == IsPack(f[n]) /\ f[n].on = pk.on
           Bad == {n \in 0 .. N : ~ Fine(n)}
<1>2. N \in Nat
  BY DataIs
<1>3. ASSUME Bad # {} PROVE FALSE
  <2> HIDE DEF N, Fine
  <2>1. PICK m \in Bad : \A k \in Bad : m <= k
    <3> HIDE DEF Bad
    <3>1. Bad \in SUBSET Nat
      BY <1>2 DEF Bad
    <3> QED
      BY <3>1, <1>3, LeastNatural
  <2>2. CASE m = 0
    BY <2>1, <2>2, <1>1 DEF Fine, BodySteps
  <2>3. CASE m # 0
    <3>1. m \in 1 .. N /\ m - 1 \in 0 .. N /\ m - 1 < m
      BY <1>2, <2>1, <2>3
    <3>2. Fine(m - 1)
      BY <3>1, <2>1
    <3>3. f[m] = IF f[m - 1].ok THEN PackField(f[m - 1], Data(r.type)[m], r.body[m]) ELSE f[m - 1]
      BY <3>1, <1>1 DEF BodySteps, N
    <3>4. Field(Data(r.type)[m], r.body[m])
      BY <3>1 DEF Record, N
    <3>5. CASE f[m] = PackField(f[m - 1], Data(r.type)[m], r.body[m])
      <4>1. IsPack(f[m]) /\ f[m].on = f[m - 1].on
        BY <3>2, <3>4, <3>5, FieldIsPack DEF Fine
      <4> QED
        BY <2>1, <3>2, <4>1 DEF Fine
    <3>6. CASE f[m] = f[m - 1]
      BY <2>1, <3>2, <3>6 DEF Fine
    <3> QED
      BY <3>3, <3>5, <3>6
  <2> QED
    BY <2>2, <2>3
<1>4. Fine(N)
  BY <1>2, <1>3
<1> QED
  BY <1>1, <1>4

(* Data that PackBody accepts stand where they were put.                      *)
LEMMA BodyIsPacked ==
  ASSUME NEW pk, IsPack(pk), pk.ok, NEW r, Record(r), NEW sound \in BOOLEAN,
         sound => TableIn(pk.msg, pk.table), NEW new, new = PackBody(pk, r), new.ok
  PROVE  BodyPacked(pk, r, new, sound)
<1>1. PICK f : BodySteps(pk, r, f) /\ new = f[Len(Data(r.type))]
  BY PackBodyUnfolds
<1> DEFINE N == Len(Data(r.type))
           SoFar(n) ==
               /\ Packed(pk, f[n], sound)
               /\ \A i \in 1 .. n : FieldIn(f[n].msg, f[n].table, sound, Offset(f[i - 1]), Data(r.type)[i], r.body[i], Offset(f[i]))
           Fine(n) == f[n].ok => SoFar(n)
           Bad == {n \in 0 .. N : ~ Fine(n)}
<1>2. N \in Nat
  BY DataIs
<1>3. ASSUME Bad # {} PROVE FALSE
  <2> HIDE DEF N, Fine, SoFar
  <2>1. PICK m \in Bad : \A k \in Bad : m <= k
    <3> HIDE DEF Bad
    <3>1. Bad \in SUBSET Nat
      BY <1>2 DEF Bad
    <3> QED
      BY <3>1, <1>3, LeastNatural
  <2>2. CASE m = 0
    <3>1. f[0] = pk
      BY <1>1 DEF BodySteps
    <3>2. Packed(pk, pk, sound)
      BY GrowsSelf DEF Packed
    <3>3. SoFar(0)
      BY <3>1, <3>2 DEF SoFar
    <3> QED
      BY <2>1, <2>2, <3>3 DEF Fine
  <2>3. CASE m # 0
    <3>1. m \in 1 .. N /\ m - 1 \in 0 .. N /\ m - 1 < m
      BY <1>2, <2>1, <2>3
    <3>2. Fine(m - 1)
      BY <3>1, <2>1
    <3>3. PICK a, b, kind, v : a = f[m - 1] /\ b = f[m] /\ kind = Data(r.type)[m] /\ v = r.body[m]
      OBVIOUS
    <3>4. b = IF a.ok THEN PackField(a, kind, v) ELSE a
      BY <3>1, <3>3, <1>1 DEF BodySteps, N
    <3>5. Field(kind, v)
      BY <3>1, <3>3 DEF Record, N
    <3>6. b.ok /\ ~SoFar(m)
      BY <2>1, <3>3 DEF Fine
    <3>7. a.ok /\ b = PackField(a, kind, v)
      BY <3>4, <3>6
    <3>8. SoFar(m - 1)
      BY <3>2, <3>3, <3>7 DEF Fine
    <3>9. Packed(pk, a, sound)
      BY <3>3, <3>8 DEF SoFar
    <3>10. FieldPacked(a, kind, v, b, sound)
      <4>1. IsPack(a) /\ (sound => TableIn(a.msg, a.table))
        BY <3>9 DEF Packed
      <4> QED
        BY <3>5, <3>6, <3>7, <4>1, FieldIsPacked
    <3>11. Packed(a, b, sound)
      BY <3>10 DEF FieldPacked
    <3>12. Packed(pk, b, sound)
      <4>1. Grows(pk, b)
        BY <3>9, <3>11, GrowsOn DEF Packed
      <4> QED
        BY <3>9, <3>11, <4>1 DEF Packed
    <3>13. ASSUME NEW i \in 1 .. m PROVE FieldIn(b.msg, b.table, sound, Offset(f[i - 1]), Data(r.type)[i], r.body[i], Offset(f[i]))
      <4>1. CASE i = m
        BY <3>3, <3>10, <4>1 DEF FieldPacked
      <4>2. CASE i # m
        <5>1. i \in 1 .. m - 1
          BY <3>1, <4>2
        <5>2. PICK p, e, k, w : p = Offset(f[i - 1]) /\ e = Offset(f[i]) /\ k = Data(r.type)[i] /\ w = r.body[i]
          OBVIOUS
        <5>3. FieldIn(a.msg, a.table, sound, p, k, w, e)
          BY <3>3, <3>8, <5>1, <5>2 DEF SoFar
        <5>4. Keeps(a.msg, a.table, b.msg, b.table)
          BY <3>11 DEF Packed, Grows
        <5>5. FieldIn(b.msg, b.table, sound, p, k, w, e)
          BY ONLY <5>3, <5>4, FieldKept
        <5> QED
          BY <5>2, <5>5
      <4> QED
        BY <4>1, <4>2
    <3>14. SoFar(m)
      BY <3>3, <3>12, <3>13 DEF SoFar
    <3> QED
      BY <3>6, <3>14
  <2> QED
    BY <2>2, <2>3
<1>4. SoFar(N)
  BY <1>1, <1>2, <1>3
<1>5. Packed(pk, new, sound)
  BY <1>1, <1>4
<1>6. BodyIn(new.msg, new.table, sound, Offset(pk), r, Offset(new))
  <2> DEFINE at == [n \in 0 .. N |-> Offset(f[n])]
  <2>1. at[0] = Offset(pk) /\ at[N] = Offset(new)
    BY <1>1, <1>2 DEF BodySteps
  <2>2. \A i \in 1 .. N : at[i - 1] = Offset(f[i - 1]) /\ at[i] = Offset(f[i])
    BY <1>2
  <2> HIDE DEF at
  <2>3. \A i \in 1 .. N : FieldIn(new.msg, new.table, sound, at[i - 1], Data(r.type)[i], r.body[i], at[i])
    BY <1>1, <1>4, <2>2
  <2> QED
    BY <2>1, <2>3 DEF BodyIn
<1> QED
  BY <1>5, <1>6 DEF BodyPacked

(* A question stands from o to end.                                           *)
QuestionIn(msg, table, sound, o, name, end) ==
    \E l \in Nat :
        /\ NameIn(msg, table, sound, o, name, l) /\ end = l + 1
        /\ MsgPrefix + end <= Len(msg) /\ Cell(msg, l) = <<"type", "A">>

(* The cells after the name of a record.                                      *)
Fixed(msg, l, r, end) ==
    /\ l + 3 <= end /\ end \in Nat /\ MsgPrefix + end <= Len(msg)
    /\ Cell(msg, l) = <<"type", r.type>> /\ Cell(msg, l + 1) = <<"ttl", r.ttl>>
    /\ Cell(msg, l + 2) = <<"len", end - (l + 3)>>

(* A record stands from o to end, with its length filled in.                  *)
RecordIn(msg, table, sound, o, r, end) ==
    \E l \in Nat :
        /\ NameIn(msg, table, sound, o, r.name, l)
        /\ Fixed(msg, l, r, end)
        /\ BodyIn(msg, table, sound, l + 3, r, end)

(* Packing twice is packing.                                                  *)
LEMMA PackedOn ==
  ASSUME NEW a, NEW b, NEW c, NEW sound, Packed(a, b, sound), Packed(b, c, sound)
  PROVE  Packed(a, c, sound)
<1>1. Grows(a, c)
  BY GrowsOn DEF Packed
<1> QED
  BY <1>1 DEF Packed

(* Packing a name is packing.                                                 *)
LEMMA NameIsPackedSo ==
  ASSUME NEW pk, NEW name, NEW new, NEW sound, NamePacked(pk, name, new, sound)
  PROVE  Packed(pk, new, sound)
  BY DEF NamePacked, Packed

(* One cell was packed.                                                       *)
OneMore(pk, kind, v, new, sound) ==
    /\ Packed(pk, new, sound) /\ new.ok = pk.ok
    /\ Offset(new) = Offset(pk) + 1 /\ Cell(new.msg, Offset(pk)) = <<kind, v>>

(* Append1 packs one cell.                                                    *)
LEMMA OneMoreIs ==
  ASSUME NEW pk, IsPack(pk), NEW sound \in BOOLEAN, sound => TableIn(pk.msg, pk.table), NEW kind, NEW v,
         NEW new, new = Append1(pk, kind, v)
  PROVE  OneMore(pk, kind, v, new, sound)
  BY OnePacked DEF OneMore

(* PackQuestion returns a pack.                                               *)
LEMMA QuestionIsPack ==
  ASSUME NEW pk, IsPack(pk), NEW name, IsSeq(name), NEW new, new = PackQuestion(pk, name)
  PROVE  IsPack(new) /\ new.on = pk.on
<1>1. PICK named : named = PackName(pk, name, TRUE)
  OBVIOUS
<1>2. IsPack(named) /\ named.on = pk.on
  BY <1>1, NameIsPack
<1>3. CASE new = Append1(named, "type", "A")
  <2>1. Packed(named, new, FALSE)
    BY <1>2, <1>3, OnePacked
  <2> QED
    BY <1>2, <2>1 DEF Packed
<1>4. CASE new = named
  BY <1>2, <1>4
<1> QED
  BY <1>1, <1>3, <1>4 DEF PackQuestion

(* A question was packed.                                                     *)
QuestionPacked(pk, name, new, sound) ==
    Packed(pk, new, sound) /\ QuestionIn(new.msg, new.table, sound, Offset(pk), name, Offset(new))

(* A question that PackQuestion accepts stands where it was put.              *)
LEMMA QuestionIsPacked ==
  ASSUME NEW pk, IsPack(pk), NEW name, IsSeq(name), NEW sound \in BOOLEAN,
         sound => TableIn(pk.msg, pk.table), NEW new, new = PackQuestion(pk, name), new.ok
  PROVE  QuestionPacked(pk, name, new, sound)
<1>1. PICK named : named = PackName(pk, name, TRUE)
  OBVIOUS
<1>2. named.ok /\ new = Append1(named, "type", "A")
  BY <1>1 DEF PackQuestion
<1>3. NamePacked(pk, name, named, sound)
  BY <1>1, <1>2, NameIsPacked
<1>4. Packed(pk, named, sound) /\ IsPack(named) /\ (sound => TableIn(named.msg, named.table))
  BY <1>3, NameIsPackedSo DEF NamePacked
<1>5. /\ Packed(named, new, sound) /\ Offset(new) = Offset(named) + 1
      /\ Cell(new.msg, Offset(named)) = <<"type", "A">>
  BY <1>2, <1>4, OnePacked
<1>6. Packed(pk, new, sound)
  BY <1>4, <1>5, PackedOn
<1>7. NameIn(new.msg, new.table, sound, Offset(pk), name, Offset(named))
  <2>1. Keeps(named.msg, named.table, new.msg, new.table)
    BY <1>5 DEF Packed, Grows
  <2>2. PICK p, e : p = Offset(pk) /\ e = Offset(named)
    OBVIOUS
  <2>3. NameIn(named.msg, named.table, sound, p, name, e)
    BY <1>3, <2>2 DEF NamePacked
  <2>4. NameIn(new.msg, new.table, sound, p, name, e)
    BY ONLY <2>1, <2>3, NameKept
  <2> QED
    BY <2>2, <2>4
<1>8. Offset(named) \in Nat /\ MsgPrefix + Offset(new) <= Len(new.msg)
  <2>1. IsPack(new)
    BY <1>5 DEF Packed
  <2>2. Offset(new) + MsgPrefix = Len(new.msg) /\ Len(new.msg) \in Nat /\ Offset(new) \in Nat
    BY <2>1, OffsetIs
  <2> QED
    BY <1>4, <2>2, OffsetIs, MessageBounds
<1>9. QuestionIn(new.msg, new.table, sound, Offset(pk), name, Offset(new))
  BY <1>5, <1>7, <1>8 DEF QuestionIn
<1> QED
  BY <1>6, <1>9 DEF QuestionPacked

(* What a record's header comes to.                                           *)
HeaderPacked(pk, r, new, sound) ==
    /\ Packed(pk, new, sound) /\ new.ok
    /\ \E l \in Nat :
          /\ NameIn(new.msg, new.table, sound, Offset(pk), r.name, l) /\ Offset(new) = l + 3 /\ Offset(pk) <= l
          /\ Cell(new.msg, l) = <<"type", r.type>> /\ Cell(new.msg, l + 1) = <<"ttl", r.ttl>>
          /\ Cell(new.msg, l + 2) = <<"len", 0>>

(* PackHeader returns a pack.                                                 *)
LEMMA HeaderIsPack ==
  ASSUME NEW pk, IsPack(pk), NEW r, Record(r), NEW new, new = PackHeader(pk, r)
  PROVE  IsPack(new) /\ new.on = pk.on
<1>1. PICK named : named = PackName(pk, r.name, TRUE)
  OBVIOUS
<1>2. IsPack(named) /\ named.on = pk.on
  BY <1>1, NameIsPack DEF Record
<1>3. CASE new = named
  BY <1>2, <1>3
<1>4. CASE new = Append1(Append1(Append1(named, "type", r.type), "ttl", r.ttl), "len", 0)
  <2>1. PICK a : a = Append1(named, "type", r.type)
    OBVIOUS
  <2>2. PICK b : b = Append1(a, "ttl", r.ttl)
    OBVIOUS
  <2>3. new = Append1(b, "len", 0)
    BY <1>4, <2>1, <2>2
  <2>4. Packed(named, a, FALSE)
    BY <1>2, <2>1, OnePacked
  <2>5. IsPack(a) /\ a.on = pk.on
    BY <1>2, <2>4 DEF Packed
  <2>6. Packed(a, b, FALSE)
    BY <2>2, <2>5, OnePacked
  <2>7. IsPack(b) /\ b.on = pk.on
    BY <2>5, <2>6 DEF Packed
  <2>8. Packed(b, new, FALSE)
    BY <2>3, <2>7, OnePacked
  <2> QED
    BY <2>7, <2>8 DEF Packed
<1> QED
  BY <1>1, <1>3, <1>4 DEF PackHeader

(* A header that PackHeader accepts stands where it was put, its length still *)
(* 0.                                                                         *)
LEMMA HeaderIsPacked ==
  ASSUME NEW pk, IsPack(pk), NEW r, Record(r), NEW sound \in BOOLEAN,
         sound => TableIn(pk.msg, pk.table), NEW new, new = PackHeader(pk, r), new.ok
  PROVE  HeaderPacked(pk, r, new, sound)
<1>1. PICK named : named = PackName(pk, r.name, TRUE)
  OBVIOUS
<1>2. PICK a : a = Append1(named, "type", r.type)
  OBVIOUS
<1>3. PICK b : b = Append1(a, "ttl", r.ttl)
  OBVIOUS
<1>4. named.ok /\ new = Append1(b, "len", 0)
  BY <1>1, <1>2, <1>3 DEF PackHeader
<1>5. NamePacked(pk, r.name, named, sound)
  BY <1>1, <1>4, NameIsPacked DEF Record
<1>6. Packed(pk, named, sound) /\ IsPack(named) /\ (sound => TableIn(named.msg, named.table))
  BY <1>5, NameIsPackedSo DEF NamePacked
<1>7. PICK l : l = Offset(named)
  OBVIOUS
<1>8. /\ Packed(named, a, sound) /\ a.ok = named.ok /\ Offset(a) = l + 1
      /\ Cell(a.msg, l) = <<"type", r.type>>
  BY <1>2, <1>6, <1>7, OnePacked
<1>9. IsPack(a) /\ (sound => TableIn(a.msg, a.table))
  BY <1>8 DEF Packed
<1>10. /\ Packed(a, b, sound) /\ b.ok = a.ok /\ Offset(b) = (l + 1) + 1
       /\ Cell(b.msg, l + 1) = <<"ttl", r.ttl>>
  <2>1. PICK v, kind : v = r.ttl /\ kind = "ttl"
    OBVIOUS
  <2>2. OneMore(a, kind, v, b, sound)
    BY <1>3, <1>9, <2>1, OneMoreIs
  <2> QED
    BY <1>8, <2>1, <2>2 DEF OneMore
<1>11. IsPack(b) /\ (sound => TableIn(b.msg, b.table))
  BY <1>10 DEF Packed
<1>12. l \in Nat /\ MsgPrefix + l = Len(named.msg) /\ Len(named.msg) \in Nat /\ MsgPrefix \in Nat
  BY <1>6, <1>7, OffsetIs, MessageBounds
<1>13. (l + 1) + 1 = l + 2 /\ (l + 2) + 1 = l + 3
  BY <1>12
<1>14. /\ Packed(b, new, sound) /\ new.ok = b.ok /\ Offset(new) = l + 3
       /\ Cell(new.msg, l + 2) = <<"len", 0>>
  <2>1. Offset(b) = l + 2
    BY <1>10, <1>13
  <2>2. /\ Packed(b, new, sound) /\ new.ok = b.ok /\ Offset(new) = Offset(b) + 1
        /\ Cell(new.msg, Offset(b)) = <<"len", 0>>
    <3>1. PICK v, kind : v = 0 /\ kind = "len"
      OBVIOUS
    <3>2. new = Append1(b, kind, v)
      BY <1>4, <3>1
    <3>3. OneMore(b, kind, v, new, sound)
      BY ONLY <1>11, <3>2, sound \in BOOLEAN, OneMoreIs
    <3> QED
      BY <3>1, <3>3 DEF OneMore
  <2> QED
    BY <1>13, <2>1, <2>2
<1>15. Packed(a, new, sound) /\ Packed(named, new, sound) /\ Packed(pk, new, sound)
  BY <1>6, <1>8, <1>10, <1>14, PackedOn
<1>16. Cell(new.msg, l) = <<"type", r.type>> /\ Cell(new.msg, l + 1) = <<"ttl", r.ttl>>
  <2>1. MsgPrefix + l + 1 \in 1 .. Len(a.msg) /\ MsgPrefix + (l + 1) + 1 \in 1 .. Len(b.msg)
    <3>1. Offset(a) + MsgPrefix = Len(a.msg) /\ Offset(b) + MsgPrefix = Len(b.msg)
      BY <1>9, <1>11, OffsetIs
    <3> QED
      BY <1>8, <1>10, <1>12, <3>1
  <2> QED
    BY <1>8, <1>10, <1>14, <1>15, <2>1 DEF Cell, Packed, Grows
<1>17. NameIn(new.msg, new.table, sound, Offset(pk), r.name, l)
  <2>1. Keeps(named.msg, named.table, new.msg, new.table)
    BY <1>15 DEF Packed, Grows
  <2>2. PICK p, name : p = Offset(pk) /\ name = r.name
    OBVIOUS
  <2>3. NameIn(named.msg, named.table, sound, p, name, l)
    BY <1>5, <1>7, <2>2 DEF NamePacked
  <2>4. NameIn(new.msg, new.table, sound, p, name, l)
    BY ONLY <2>1, <2>3, NameKept
  <2> QED
    BY <2>2, <2>4
<1>18. Offset(pk) <= l
  <2>1. Len(pk.msg) <= Len(named.msg)
    BY <1>6 DEF Packed, Grows, Keeps
  <2>2. Offset(pk) + MsgPrefix = Len(pk.msg) /\ Offset(pk) \in Nat /\ Len(pk.msg) \in Nat
    BY OffsetIs
  <2> QED
    BY <1>12, <2>1, <2>2
<1> QED
  BY <1>4, <1>8, <1>10, <1>12, <1>14, <1>15, <1>16, <1>17, <1>18 DEF HeaderPacked

(* A record was packed.                                                       *)
RecordPacked(pk, r, new, sound) ==
    Packed(pk, new, sound) /\ RecordIn(new.msg, new.table, sound, Offset(pk), r, Offset(new))

(* What packing a record comes to.                                            *)
Ways(header, whole, new) ==
    \/ ~header.ok /\ new = header
    \/ header.ok /\ ~whole.ok /\ new = whole
    \/ header.ok /\ whole.ok /\ new = [whole EXCEPT !.ok = FALSE]
    \/ /\ header.ok /\ whole.ok
       /\ \E p : p = Len(header.msg) /\ new = [whole EXCEPT !.msg[p] = <<"len", Len(whole.msg) - Len(header.msg)>>]

(* PackResource ends in one of those ways.                                    *)
LEMMA ResourceWays ==
  ASSUME NEW pk, NEW r, NEW header, header = PackHeader(pk, r), NEW whole, whole = PackBody(header, r),
         NEW new, new = PackResource(pk, r)
  PROVE  Ways(header, whole, new)
<1>1. CASE ~header.ok
  BY <1>1 DEF PackResource, Ways
<1>2. CASE header.ok /\ ~whole.ok
  BY <1>2 DEF PackResource, Ways
<1>3. CASE header.ok /\ whole.ok
  BY <1>3 DEF PackResource, Ways
<1> QED
  BY <1>1, <1>2, <1>3

(* One cell of a pack was changed.                                            *)
Patched(pk, p, x, new) ==
    /\ IsPack(new) /\ new.on = pk.on /\ new.ok = pk.ok /\ new.table = pk.table
    /\ Len(new.msg) = Len(pk.msg)
    /\ \A i \in 1 .. Len(pk.msg) : new.msg[i] = IF i = p THEN x ELSE pk.msg[i]

(* EXCEPT changes that cell only.                                             *)
LEMMA PatchedIs ==
  ASSUME NEW pk, IsPack(pk), NEW p, NEW x, NEW new, new = [pk EXCEPT !.msg[p] = x]
  PROVE  Patched(pk, p, x, new)
<1>1. PICK m : m = [pk.msg EXCEPT ![p] = x]
  OBVIOUS
<1>2. IsSeq(m) /\ Len(m) = Len(pk.msg)
  BY <1>1, ExceptIs DEF IsPack
<1>3. \A i \in 1 .. Len(pk.msg) : m[i] = IF i = p THEN x ELSE pk.msg[i]
  BY <1>1, SeqHas DEF IsPack
<1>4. new = [ok |-> pk.ok, msg |-> m, on |-> pk.on, table |-> pk.table]
  BY <1>1 DEF IsPack
<1>5. new.ok = pk.ok /\ new.msg = m /\ new.on = pk.on /\ new.table = pk.table
  BY <1>4
<1>6. IsPack(new)
  <2>1. pk.ok \in BOOLEAN /\ pk.on \in BOOLEAN /\ IsTable(pk.table) /\ Len(pk.msg) > MsgPrefix
    BY DEF IsPack
  <2>2. Len(m) > MsgPrefix
    BY <1>2, <2>1
  <2> QED
    BY <1>2, <1>4, <1>5, <2>1, <2>2 DEF IsPack
<1> QED
  BY <1>2, <1>3, <1>5, <1>6 DEF Patched

(* PackResource returns a pack.                                               *)
LEMMA ResourceIsPack ==
  ASSUME NEW pk, IsPack(pk), NEW r, Record(r), NEW new, new = PackResource(pk, r)
  PROVE  IsPack(new) /\ new.on = pk.on
<1>1. PICK header : header = PackHeader(pk, r)
  OBVIOUS
<1>2. PICK whole : whole = PackBody(header, r)
  OBVIOUS
<1>3. IsPack(header) /\ header.on = pk.on
  BY <1>1, HeaderIsPack
<1>4. IsPack(whole) /\ whole.on = pk.on
  BY <1>2, <1>3, BodyIsPack
<1>5. CASE new = [whole EXCEPT !.ok = FALSE]
  BY <1>4, <1>5, Refused
<1>6. ASSUME NEW p, NEW x, new = [whole EXCEPT !.msg[p] = x] PROVE IsPack(new) /\ new.on = pk.on
  <2>1. Patched(whole, p, x, new)
    BY <1>4, <1>6, PatchedIs
  <2> QED
    BY <1>4, <2>1 DEF Patched
<1>8. Ways(header, whole, new)
  BY <1>1, <1>2, ResourceWays
<1>7. \/ new = header \/ new = whole \/ new = [whole EXCEPT !.ok = FALSE]
      \/ \E p, x : new = [whole EXCEPT !.msg[p] = x]
  BY <1>8 DEF Ways
<1> QED
  BY <1>3, <1>4, <1>5, <1>6, <1>7

(* A record that PackResource accepts stands where it was put.                *)
LEMMA ResourceIsPacked ==
  ASSUME NEW pk, IsPack(pk), NEW r, Record(r), NEW sound \in BOOLEAN,
         sound => TableIn(pk.msg, pk.table), NEW new, new = PackResource(pk, r), new.ok
  PROVE  RecordPacked(pk, r, new, sound)
<1>1. PICK header : header = PackHeader(pk, r)
  OBVIOUS
<1>2. PICK whole : whole = PackBody(header, r)
  OBVIOUS
<1>3. PICK size : size = Len(whole.msg) - Len(header.msg)
  OBVIOUS
<1>4. IsPack(header) /\ IsPack(whole)
  BY <1>1, <1>2, HeaderIsPack, BodyIsPack
<1>11. PICK p : p = Len(header.msg)
  OBVIOUS
<1>5. header.ok /\ whole.ok /\ new = [whole EXCEPT !.msg[p] = <<"len", size>>]
  <2>1. new # [whole EXCEPT !.ok = FALSE]
    BY <1>4, Refused
  <2>2. Ways(header, whole, new)
    BY <1>1, <1>2, ResourceWays
  <2> QED
    BY <1>3, <1>11, <2>1, <2>2 DEF Ways
<1>6. HeaderPacked(pk, r, header, sound)
  BY <1>1, <1>5, HeaderIsPacked
<1>7. PICK l \in Nat :
          /\ NameIn(header.msg, header.table, sound, Offset(pk), r.name, l) /\ Offset(header) = l + 3 /\ Offset(pk) <= l
          /\ Cell(header.msg, l) = <<"type", r.type>> /\ Cell(header.msg, l + 1) = <<"ttl", r.ttl>>
          /\ Cell(header.msg, l + 2) = <<"len", 0>>
  BY <1>6 DEF HeaderPacked
<1>8. Packed(pk, header, sound) /\ (sound => TableIn(header.msg, header.table))
  BY <1>6 DEF HeaderPacked, Packed
<1>9. BodyPacked(header, r, whole, sound)
  BY <1>2, <1>4, <1>5, <1>8, BodyIsPacked
<1>10. Packed(header, whole, sound) /\ (sound => TableIn(whole.msg, whole.table))
  BY <1>9 DEF BodyPacked, Packed
<1>12. /\ IsPack(new) /\ new.on = whole.on /\ new.table = whole.table
       /\ Len(new.msg) = Len(whole.msg)
       /\ \A i \in 1 .. Len(whole.msg) : new.msg[i] = IF i = p THEN <<"len", size>> ELSE whole.msg[i]
  <2>1. PICK x : x = <<"len", size>>
    OBVIOUS
  <2>2. new = [whole EXCEPT !.msg[p] = x]
    BY <1>5, <1>11, <2>1
  <2>3. Patched(whole, p, x, new)
    BY <1>4, <2>2, PatchedIs
  <2> QED
    BY <2>1, <2>3 DEF Patched
<1>13. /\ MsgPrefix \in Nat /\ Len(pk.msg) \in Nat /\ Len(header.msg) \in Nat /\ Len(whole.msg) \in Nat
       /\ Offset(pk) + MsgPrefix = Len(pk.msg) /\ Offset(header) + MsgPrefix = Len(header.msg)
       /\ Offset(whole) + MsgPrefix = Len(whole.msg) /\ Offset(new) + MsgPrefix = Len(new.msg)
       /\ Offset(pk) \in Nat /\ Offset(header) \in Nat /\ Offset(whole) \in Nat /\ Offset(new) \in Nat
  BY <1>4, <1>12, OffsetIs, MessageBounds
<1>14. p = MsgPrefix + (l + 2) + 1 /\ Len(header.msg) <= Len(whole.msg) /\ Len(pk.msg) < p /\ Offset(new) = Offset(whole) /\ size = Offset(new) - (l + 3)
  <2>1. Len(header.msg) <= Len(whole.msg)
    BY <1>10 DEF Packed, Grows, Keeps
  <2>2. Offset(pk) <= l /\ Offset(header) = l + 3
    BY <1>7
  <2>3. Len(new.msg) = Len(whole.msg)
    BY <1>12
  <2>4. p = MsgPrefix + (l + 2) + 1 /\ Len(pk.msg) < p
    BY <1>11, <1>13, <2>2
  <2>5. Offset(new) = Offset(whole)
    BY <1>13, <2>3
  <2>6. size = Offset(new) - (l + 3)
    <3>1. PICK a, b, c, d : a = Len(whole.msg) /\ b = Len(header.msg) /\ c = Offset(whole) /\ d = Offset(header)
      OBVIOUS
    <3>2. a \in Nat /\ b \in Nat /\ c \in Nat /\ d \in Nat /\ c + MsgPrefix = a /\ d + MsgPrefix = b /\ MsgPrefix \in Nat
      BY <1>13, <3>1
    <3>3. a - b = c - d
      BY <3>2
    <3>4. size = a - b /\ d = l + 3 /\ Offset(new) = c
      BY <1>3, <2>2, <2>5, <3>1
    <3> QED
      BY <3>3, <3>4
  <2> QED
    BY <2>1, <2>4, <2>5, <2>6
<1>15. whole.msg[p] = <<"len", 0>>
  <2>1. p \in 1 .. Len(header.msg)
    BY <1>7, <1>11, <1>13, <1>14
  <2> QED
    BY <1>7, <1>10, <1>14, <2>1 DEF Packed, Grows, Cell
<1>16. Keeps(whole.msg, whole.table, new.msg, new.table)
  BY <1>12, <1>13, <1>15 DEF Keeps
<1>17. sound => TableIn(new.msg, new.table)
  BY <1>10, <1>12, <1>16, TableKeptAs
<1>18. Grows(pk, new)
  <2>1. Grows(pk, whole)
    BY <1>8, <1>10, GrowsOn DEF Packed
  <2>2. \A i \in 1 .. Len(pk.msg) : new.msg[i] = pk.msg[i]
    <3>1. TAKE i \in 1 .. Len(pk.msg)
    <3>2. i \in 1 .. Len(whole.msg) /\ i # p
      BY <1>11, <1>13, <1>14
    <3> QED
      BY <1>12, <2>1, <3>2 DEF Grows
  <2> QED
    BY <1>12, <1>13, <2>1, <2>2 DEF Grows, Keeps
<1>19. Packed(pk, new, sound)
  BY <1>8, <1>10, <1>12, <1>17, <1>18 DEF Packed
<1>20. Keeps(header.msg, header.table, whole.msg, whole.table)
  BY <1>10 DEF Packed, Grows
<1>21. NameIn(new.msg, new.table, sound, Offset(pk), r.name, l)
  <2>1. PICK o, name : o = Offset(pk) /\ name = r.name
    OBVIOUS
  <2>2. NameIn(header.msg, header.table, sound, o, name, l)
    BY <1>7, <2>1
  <2>3. NameIn(whole.msg, whole.table, sound, o, name, l)
    BY ONLY <1>20, <2>2, NameKept
  <2>4. NameIn(new.msg, new.table, sound, o, name, l)
    BY ONLY <1>16, <2>3, NameKept
  <2> QED
    BY <2>1, <2>4
<1>22. BodyIn(new.msg, new.table, sound, l + 3, r, Offset(new))
  <2>1. PICK o, e : o = l + 3 /\ e = Offset(new)
    OBVIOUS
  <2>2. BodyIn(whole.msg, whole.table, sound, o, r, e)
    BY <1>7, <1>9, <1>14, <2>1 DEF BodyPacked
  <2>3. BodyIn(new.msg, new.table, sound, o, r, e)
    BY ONLY <1>16, <2>2, BodyKept
  <2> QED
    BY <2>1, <2>3
<1>23. Fixed(new.msg, l, r, Offset(new))
  <2>1. l + 3 <= Offset(new) /\ MsgPrefix + Offset(new) <= Len(new.msg)
    BY <1>7, <1>13, <1>14
  <2>2. /\ MsgPrefix + l + 1 \in 1 .. Len(header.msg) /\ MsgPrefix + (l + 1) + 1 \in 1 .. Len(header.msg)
        /\ MsgPrefix + l + 1 # p /\ MsgPrefix + (l + 1) + 1 # p
        /\ MsgPrefix + l + 1 \in 1 .. Len(whole.msg) /\ MsgPrefix + (l + 1) + 1 \in 1 .. Len(whole.msg)
    BY <1>7, <1>11, <1>13, <1>14
  <2>3. Cell(whole.msg, l) = <<"type", r.type>> /\ Cell(whole.msg, l + 1) = <<"ttl", r.ttl>>
    BY <1>7, <1>10, <2>2 DEF Packed, Grows, Cell
  <2>4. Cell(new.msg, l) = <<"type", r.type>> /\ Cell(new.msg, l + 1) = <<"ttl", r.ttl>>
    BY <1>12, <2>2, <2>3 DEF Cell
  <2>5. Cell(new.msg, l + 2) = <<"len", Offset(new) - (l + 3)>>
    <3>1. p \in 1 .. Len(whole.msg)
      BY <1>7, <1>11, <1>13, <1>14
    <3> QED
      BY <1>12, <1>14, <3>1 DEF Cell
  <2> QED
    BY <1>13, <2>1, <2>4, <2>5 DEF Fixed
<1>24. RecordIn(new.msg, new.table, sound, Offset(pk), r, Offset(new))
  BY <1>7, <1>21, <1>22, <1>23 DEF RecordIn
<1> QED
  BY <1>19, <1>24 DEF RecordPacked

------------------------------------------------------------------------------
(* The items of a message, in the order in which they are packed.             *)

(* All that was added, one section after the other.                           *)
ItemsOf(m) == m[1] \o m[2] \o m[3] \o m[4]

(* How many items precede a section.                                          *)
ItemsBefore(m, s) ==
    CASE s = 1 -> 0
      [] s = 2 -> Len(m[1])
      [] s = 3 -> Len(m[1]) + Len(m[2])
      [] s = 4 -> Len(m[1]) + Len(m[2]) + Len(m[3])
      [] s = 5 -> Len(m[1]) + Len(m[2]) + Len(m[3]) + Len(m[4])

(* What the calls have added: questions and records, by section.              *)
IsAdded(m) ==
    /\ m = [s \in MsgSections |-> m[s]]
    /\ m[1] \in Seq(MsgQuestions) /\ \A s \in 2 .. 4 : m[s] \in Seq(MsgRecords)

(* A section is a stretch of all the items.                                   *)
InSection(m, s, all) == \A i \in 1 .. Len(m[s]) : all[ItemsBefore(m, s) + i] = m[s][i]

(* The items are those of the sections, in their order.                       *)
ItemsGive(m, all) ==
    /\ IsSeq(all) /\ Len(all) = ItemsBefore(m, 5)
    /\ \A s \in 1 .. 4 : InSection(m, s, all)

(* The sections are sequences.                                                *)
LEMMA LensAre ==
  ASSUME NEW m, IsAdded(m)
  PROVE  /\ Len(m[1]) \in Nat /\ Len(m[2]) \in Nat /\ Len(m[3]) \in Nat /\ Len(m[4]) \in Nat
         /\ IsSeq(m[1]) /\ IsSeq(m[2]) /\ IsSeq(m[3]) /\ IsSeq(m[4])
<1>1. m[1] \in Seq(MsgQuestions) /\ m[2] \in Seq(MsgRecords) /\ m[3] \in Seq(MsgRecords) /\ m[4] \in Seq(MsgRecords)
  BY DEF IsAdded
<1> QED
  BY <1>1, SeqIs

(* ItemsBefore, unfolded.                                                     *)
LEMMA BeforeIs ==
  ASSUME NEW m
  PROVE  /\ ItemsBefore(m, 1) = 0 /\ ItemsBefore(m, 2) = Len(m[1]) /\ ItemsBefore(m, 3) = Len(m[1]) + Len(m[2])
         /\ ItemsBefore(m, 4) = Len(m[1]) + Len(m[2]) + Len(m[3])
         /\ ItemsBefore(m, 5) = Len(m[1]) + Len(m[2]) + Len(m[3]) + Len(m[4])
  BY DEF ItemsBefore

(* Concatenation gives the items in that order.                               *)
LEMMA ItemsAre == ASSUME NEW m, IsAdded(m) PROVE ItemsGive(m, ItemsOf(m))
<1>1. PICK p, q, r, s : p = m[1] /\ q = m[2] /\ r = m[3] /\ s = m[4]
  OBVIOUS
<1>2. /\ IsSeq(p) /\ IsSeq(q) /\ IsSeq(r) /\ IsSeq(s)
      /\ Len(p) \in Nat /\ Len(q) \in Nat /\ Len(r) \in Nat /\ Len(s) \in Nat
  BY <1>1, LensAre
<1>3. PICK a, b, c : a = p \o q /\ b = a \o r /\ c = b \o s
  OBVIOUS
<1>4. Joined(p, q, a)
  BY <1>2, <1>3, ConcatIs
<1>5. IsSeq(a) /\ Len(a) = Len(p) + Len(q)
  BY <1>4 DEF Joined
<1>6. Joined(a, r, b)
  BY <1>2, <1>3, <1>5, ConcatIs
<1>7. IsSeq(b) /\ Len(b) = Len(p) + Len(q) + Len(r)
  BY <1>5, <1>6 DEF Joined
<1>8. Joined(b, s, c)
  BY <1>2, <1>3, <1>7, ConcatIs
<1>9. IsSeq(c) /\ Len(c) = Len(p) + Len(q) + Len(r) + Len(s)
  BY <1>7, <1>8 DEF Joined
<1>10. ItemsOf(m) = c
  BY <1>1, <1>3 DEF ItemsOf
<1>11. InSection(m, 4, c)
  <2>1. ItemsBefore(m, 4) = Len(b)
    BY <1>1, <1>7, BeforeIs
  <2> QED
    BY <1>1, <1>8, <2>1 DEF Joined, InSection
<1>12. InSection(m, 3, c)
  <2> SUFFICES ASSUME NEW i \in 1 .. Len(r) PROVE c[ItemsBefore(m, 3) + i] = r[i]
    BY <1>1 DEF InSection
  <2>2. Len(a) + i \in 1 .. Len(b) /\ Len(a) + i = Len(p) + Len(q) + i
    BY <1>2, <1>5, <1>7
  <2>3. b[Len(a) + i] = r[i]
    BY <1>6 DEF Joined
  <2>4. c[Len(p) + Len(q) + i] = r[i]
    BY <1>8, <2>2, <2>3 DEF Joined
  <2> QED
    BY <1>1, <2>4, BeforeIs
<1>13. InSection(m, 2, c)
  <2> SUFFICES ASSUME NEW i \in 1 .. Len(q) PROVE c[ItemsBefore(m, 2) + i] = q[i]
    BY <1>1 DEF InSection
  <2>2. Len(p) + i \in 1 .. Len(a) /\ Len(p) + i \in 1 .. Len(b)
    BY <1>2, <1>5, <1>7
  <2>3. a[Len(p) + i] = q[i]
    BY <1>4 DEF Joined
  <2>4. c[Len(p) + i] = q[i]
    BY <1>6, <1>8, <2>2, <2>3 DEF Joined
  <2> QED
    BY <1>1, <2>4, BeforeIs
<1>14. InSection(m, 1, c)
  <2> SUFFICES ASSUME NEW i \in 1 .. Len(p) PROVE c[ItemsBefore(m, 1) + i] = p[i]
    BY <1>1 DEF InSection
  <2>2. i \in 1 .. Len(a) /\ i \in 1 .. Len(b) /\ 0 + i = i
    BY <1>2, <1>5, <1>7
  <2>3. c[0 + i] = p[i]
    BY <1>4, <1>6, <1>8, <2>2 DEF Joined
  <2> QED
    BY <1>1, <2>3, BeforeIs
<1>15. ItemsBefore(m, 5) = Len(p) + Len(q) + Len(r) + Len(s)
  BY <1>1, BeforeIs
<1>16. \A t \in 1 .. 4 : t = 1 \/ t = 2 \/ t = 3 \/ t = 4
  OBVIOUS
<1>17. \A t \in 1 .. 4 : InSection(m, t, c)
  BY <1>11, <1>12, <1>13, <1>14, <1>16
<1>18. ItemsGive(m, c)
  BY <1>9, <1>15, <1>17 DEF ItemsGive
<1> QED
  BY <1>10, <1>18

(* Where an item stands among all of them.                                    *)
LEMMA PlaceIs ==
  ASSUME NEW m, IsAdded(m), NEW j \in 1 .. ItemsBefore(m, 5)
  PROVE  \E t \in 1 .. 4, i \in Nat : i \in 1 .. Len(m[t]) /\ j = ItemsBefore(m, t) + i
<1>1. PICK p, q, r, s : p = Len(m[1]) /\ q = Len(m[2]) /\ r = Len(m[3]) /\ s = Len(m[4])
  OBVIOUS
<1>2. p \in Nat /\ q \in Nat /\ r \in Nat /\ s \in Nat
  BY <1>1, LensAre
<1>3. /\ ItemsBefore(m, 1) = 0 /\ ItemsBefore(m, 2) = p /\ ItemsBefore(m, 3) = p + q
      /\ ItemsBefore(m, 4) = p + q + r /\ ItemsBefore(m, 5) = p + q + r + s
  BY <1>1, BeforeIs
<1>4. j \in Nat /\ j > 0 /\ j <= p + q + r + s
  BY <1>2, <1>3
<1>5. CASE j <= p
  <2>1. j \in 1 .. p /\ j = 0 + j
    BY <1>2, <1>4, <1>5
  <2>2. 1 \in 1 .. 4
    OBVIOUS
  <2> QED
    BY <1>1, <1>3, <1>4, <2>1, <2>2
<1>6. CASE j > p /\ j <= p + q
  <2>1. PICK i : i = j - p
    OBVIOUS
  <2>2. i \in Nat /\ i \in 1 .. q /\ j = p + i
    BY <1>2, <1>4, <1>6, <2>1
  <2>3. 2 \in 1 .. 4
    OBVIOUS
  <2> QED
    BY <1>1, <1>3, <2>2, <2>3
<1>7. CASE j > p + q /\ j <= p + q + r
  <2>1. PICK i : i = j - (p + q)
    OBVIOUS
  <2>2. i \in Nat /\ i \in 1 .. r /\ j = (p + q) + i
    BY <1>2, <1>4, <1>7, <2>1
  <2>3. 3 \in 1 .. 4
    OBVIOUS
  <2> QED
    BY <1>1, <1>3, <2>2, <2>3
<1>8. CASE j > p + q + r
  <2>1. PICK i : i = j - (p + q + r)
    OBVIOUS
  <2>2. i \in Nat /\ i \in 1 .. s /\ j = (p + q + r) + i
    BY <1>2, <1>4, <1>8, <2>1
  <2>3. 4 \in 1 .. 4
    OBVIOUS
  <2> QED
    BY <1>1, <1>3, <2>2, <2>3
<1> QED
  BY <1>2, <1>4, <1>5, <1>6, <1>7, <1>8

(* An item is added to the last section that holds any.                       *)
AddedTo(m, s, x, new) ==
    IsAdded(new) /\ Appended(ItemsOf(m), x, ItemsOf(new)) /\ ItemsBefore(m, 5) = ItemsBefore(m, s) + Len(m[s])

(* A call of the builder adds an item after all others: the sections come in  *)
(* their order (Builder.startCheck).                                          *)
LEMMA AddedIs ==
  ASSUME NEW m, IsAdded(m), NEW s \in 1 .. 4, NEW x, x \in IF s = 1 THEN MsgQuestions ELSE MsgRecords,
         \A t \in 1 .. 4 : t > s => m[t] = <<>>, NEW new, new = [m EXCEPT ![s] = Append(@, x)]
  PROVE  AddedTo(m, s, x, new)
<1>1. PICK y : y = Append(m[s], x)
  OBVIOUS
<1>2. IsAdded(new)
  <2>1. new = [t \in MsgSections |-> new[t]]
    BY DEF IsAdded
  <2>2. \A t \in MsgSections : new[t] = IF t = s THEN Append(m[t], x) ELSE m[t]
    BY DEF IsAdded, MsgSections
  <2>3. new[1] \in Seq(MsgQuestions)
    BY <2>2 DEF IsAdded, MsgSections
  <2>4. ASSUME NEW t \in 2 .. 4 PROVE new[t] \in Seq(MsgRecords)
    BY <2>2 DEF IsAdded, MsgSections
  <2> QED
    BY <2>1, <2>3, <2>4 DEF IsAdded
<1>3. /\ Len(m[1]) \in Nat /\ Len(m[2]) \in Nat /\ Len(m[3]) \in Nat /\ Len(m[4]) \in Nat
      /\ \A t \in 1 .. 4 : IsSeq(m[t])
  <2>1. \A t \in 1 .. 4 : t = 1 \/ t = 2 \/ t = 3 \/ t = 4
    OBVIOUS
  <2> QED
    BY <2>1, LensAre
<1>4. Appended(m[s], x, y)
  BY <1>1, <1>3, AppendedIs
<1>5. new[s] = y /\ \A t \in 1 .. 4 : t # s => new[t] = m[t]
  BY <1>1 DEF IsAdded, MsgSections
<1>6. Len(y) = Len(m[s]) + 1
  BY <1>4 DEF Appended
<1>7. \A t \in 1 .. 4 : t > s => Len(m[t]) = 0
  BY DEF IsAdded
<1>15. PICK a, b, c, d : a = Len(m[1]) /\ b = Len(m[2]) /\ c = Len(m[3]) /\ d = Len(m[4])
  OBVIOUS
<1>16. /\ a \in Nat /\ b \in Nat /\ c \in Nat /\ d \in Nat
       /\ (s < 2 => b = 0) /\ (s < 3 => c = 0) /\ (s < 4 => d = 0)
  BY <1>3, <1>7, <1>15
<1>17. /\ ItemsBefore(m, 1) = 0 /\ ItemsBefore(m, 2) = a /\ ItemsBefore(m, 3) = a + b
       /\ ItemsBefore(m, 4) = a + b + c /\ ItemsBefore(m, 5) = a + b + c + d
  BY <1>15, BeforeIs
<1>19. PICK e, f, g, h : e = Len(new[1]) /\ f = Len(new[2]) /\ g = Len(new[3]) /\ h = Len(new[4])
  OBVIOUS
<1>18. /\ s = 1 => e = a + 1 /\ f = b /\ g = c /\ h = d
       /\ s = 2 => e = a /\ f = b + 1 /\ g = c /\ h = d
       /\ s = 3 => e = a /\ f = b /\ g = c + 1 /\ h = d
       /\ s = 4 => e = a /\ f = b /\ g = c /\ h = d + 1
  BY <1>5, <1>6, <1>15, <1>19
<1>20. /\ ItemsBefore(new, 1) = 0 /\ ItemsBefore(new, 2) = e /\ ItemsBefore(new, 3) = e + f
       /\ ItemsBefore(new, 4) = e + f + g /\ ItemsBefore(new, 5) = e + f + g + h
  BY <1>19, BeforeIs
<1>21. s = 1 \/ s = 2 \/ s = 3 \/ s = 4
  OBVIOUS
<1>8. /\ ItemsBefore(m, 5) = ItemsBefore(m, s) + Len(m[s]) /\ ItemsBefore(new, 5) = ItemsBefore(m, 5) + 1
      /\ \A t \in 1 .. 4 : t <= s => ItemsBefore(new, t) = ItemsBefore(m, t)
      /\ \A t \in 1 .. 4 : ItemsBefore(m, t) \in Nat
  <2>1. \A t \in 1 .. 4 : t = 1 \/ t = 2 \/ t = 3 \/ t = 4
    OBVIOUS
  <2>2. \A t \in 1 .. 4 : ItemsBefore(m, t) \in Nat
    BY <1>16, <1>17, <2>1
  <2>3. ItemsBefore(m, 5) = ItemsBefore(m, s) + Len(m[s])
    <3>1. CASE s = 1
      <4>1. Len(m[s]) = a /\ ItemsBefore(m, s) = 0
        BY <1>15, <1>17, <3>1
      <4>2. ItemsBefore(m, 5) = 0 + a
        BY <1>16, <1>17, <3>1
      <4> QED
        BY <4>1, <4>2
    <3>2. CASE s = 2
      <4>1. Len(m[s]) = b /\ ItemsBefore(m, s) = a
        BY <1>15, <1>17, <3>2
      <4>2. ItemsBefore(m, 5) = a + b
        BY <1>16, <1>17, <3>2
      <4> QED
        BY <4>1, <4>2
    <3>3. CASE s = 3
      <4>1. Len(m[s]) = c /\ ItemsBefore(m, s) = a + b
        BY <1>15, <1>17, <3>3
      <4>2. ItemsBefore(m, 5) = (a + b) + c
        BY <1>16, <1>17, <3>3
      <4> QED
        BY <4>1, <4>2
    <3>4. CASE s = 4
      <4>1. Len(m[s]) = d /\ ItemsBefore(m, s) = a + b + c
        BY <1>15, <1>17, <3>4
      <4>2. ItemsBefore(m, 5) = (a + b + c) + d
        BY <1>16, <1>17, <3>4
      <4> QED
        BY <4>1, <4>2
    <3> QED
      BY <1>21, <3>1, <3>2, <3>3, <3>4
  <2>4. ItemsBefore(new, 5) = ItemsBefore(m, 5) + 1
    <3>1. e + f + g + h = (a + b + c + d) + 1
      BY <1>16, <1>18, <1>21
    <3> QED
      BY <1>17, <1>20, <3>1
  <2>5. \A t \in 1 .. 4 : t <= s => ItemsBefore(new, t) = ItemsBefore(m, t)
    <3>1. /\ s >= 2 => e = a
          /\ s >= 3 => e + f = a + b
          /\ s >= 4 => e + f + g = a + b + c
      BY <1>16, <1>18, <1>21
    <3>2. s >= 2 => ItemsBefore(new, 2) = ItemsBefore(m, 2)
      BY <1>17, <1>20, <3>1
    <3>3. s >= 3 => ItemsBefore(new, 3) = ItemsBefore(m, 3)
      BY <1>17, <1>20, <3>1
    <3>4. s >= 4 => ItemsBefore(new, 4) = ItemsBefore(m, 4)
      BY <1>17, <1>20, <3>1
    <3>5. ItemsBefore(new, 1) = ItemsBefore(m, 1)
      BY <1>17, <1>20
    <3> QED
      BY <2>1, <3>2, <3>3, <3>4, <3>5
  <2> QED
    BY <2>2, <2>3, <2>4, <2>5
<1>9. PICK all, more : all = ItemsOf(m) /\ more = ItemsOf(new)
  OBVIOUS
<1>10. ItemsGive(m, all) /\ ItemsGive(new, more)
  BY <1>2, <1>9, ItemsAre
<1>11. IsSeq(more) /\ Len(more) = Len(all) + 1 /\ Len(all) = ItemsBefore(m, 5)
  BY <1>8, <1>10 DEF ItemsGive
<1>12. ASSUME NEW j \in 1 .. Len(all) PROVE more[j] = all[j]
  <2>1. PICK t \in 1 .. 4, i \in Nat : i \in 1 .. Len(m[t]) /\ j = ItemsBefore(m, t) + i
    BY <1>11, PlaceIs
  <2>2. t <= s
    BY <1>7, <2>1
  <2>3. all[j] = m[t][i]
    BY <1>10, <2>1 DEF ItemsGive, InSection
  <2>4. i \in 1 .. Len(new[t]) /\ new[t][i] = m[t][i]
    <3>1. CASE t = s
      BY <1>4, <1>5, <2>1, <3>1 DEF Appended
    <3>2. CASE t # s
      BY <1>5, <2>1, <3>2
    <3> QED
      BY <3>1, <3>2
  <2>5. more[ItemsBefore(new, t) + i] = new[t][i]
    BY <1>10, <2>4 DEF ItemsGive, InSection
  <2> QED
    BY <1>8, <2>1, <2>2, <2>3, <2>4, <2>5
<1>13. more[Len(all) + 1] = x
  <2>1. PICK i : i = Len(m[s]) + 1
    OBVIOUS
  <2>2. i \in 1 .. Len(new[s]) /\ new[s][i] = x
    BY <1>3, <1>4, <1>5, <1>6, <2>1 DEF Appended
  <2>3. more[ItemsBefore(new, s) + i] = x
    BY <1>10, <2>2 DEF ItemsGive, InSection
  <2>4. ItemsBefore(new, s) + i = Len(all) + 1
    <3>1. PICK u, v, w : u = ItemsBefore(m, s) /\ v = Len(m[s]) /\ w = Len(all)
      OBVIOUS
    <3>2. u \in Nat /\ v \in Nat /\ w = u + v /\ i = v + 1 /\ ItemsBefore(new, s) = u
      <4>1. Len(m[s]) \in Nat
        BY <1>3, SeqHas
      <4>2. ItemsBefore(m, s) \in Nat
        BY <1>8
      <4>3. ItemsBefore(new, s) = ItemsBefore(m, s)
        <5>1. s <= s
          OBVIOUS
        <5> QED
          BY <1>8, <5>1
      <4>4. Len(all) = ItemsBefore(m, s) + Len(m[s])
        BY <1>8, <1>11
      <4> QED
        BY <2>1, <3>1, <4>1, <4>2, <4>3, <4>4
    <3>3. u + i = w + 1
      BY <3>2
    <3> QED
      BY <3>1, <3>2, <3>3
  <2> QED
    BY <2>3, <2>4
<1>14. Appended(all, x, more)
  BY <1>11, <1>12, <1>13 DEF Appended
<1> QED
  BY <1>2, <1>8, <1>9, <1>14 DEF AddedTo

(* A message packed whole, item by item.                                      *)
FirstPack == [PackOf(NewBuilder) EXCEPT !.on = TRUE]

(* One step of AppendPack.                                                    *)
PackItem(pk, asked, x) ==
    IF ~pk.ok THEN pk ELSE IF asked THEN PackQuestion(pk, x) ELSE PackResource(pk, x)

(* The steps of AppendPack.                                                   *)
PackSteps(m, f) ==
    /\ f[0] = FirstPack
    /\ \A n \in 1 .. Len(ItemsOf(m)) : f[n] = PackItem(f[n - 1], n <= Len(m[1]), ItemsOf(m)[n])

(* AppendPack is the last of them.                                            *)
LEMMA AppendPackUnfolds ==
  ASSUME NEW m, IsAdded(m)
  PROVE  \E f : PackSteps(m, f) /\ AppendPack(m) = f[Len(ItemsOf(m))]
<1> DEFINE Step(x, n) == IF ~x.ok THEN x ELSE IF n <= Len(m[1]) THEN PackQuestion(x, ItemsOf(m)[n]) ELSE PackResource(x, ItemsOf(m)[n])
           IsDone(d, top) == d = [n \in 0 .. top |-> IF n = 0 THEN FirstPack ELSE Step(d[n - 1], n)]
           Bad == {top \in Nat : ~ \E d : IsDone(d, top)}
<1> HIDE DEF Step
<1>0. Len(ItemsOf(m)) \in Nat
  BY ItemsAre, SeqHas DEF ItemsGive
<1>1. \A top \in Nat : \E d : IsDone(d, top)
  <2> SUFFICES ASSUME Bad # {} PROVE FALSE
    OBVIOUS
  <2>1. PICK top \in Bad : \A k \in Bad : top <= k
    <3> HIDE DEF Bad
    <3>1. Bad \in SUBSET Nat
      BY DEF Bad
    <3> QED
      BY <3>1, LeastNatural
  <2>2. CASE top = 0
    <3>1. IsDone([n \in 0 .. 0 |-> FirstPack], 0)
      OBVIOUS
    <3> QED
      BY <3>1, <2>2, <2>1
  <2>3. CASE top # 0
    <3>1. top - 1 \in Nat /\ top - 1 \notin Bad
      <4>1. top \in Nat
        BY <2>1
      <4> HIDE DEF Bad
      <4> QED
        BY <2>1, <2>3, <4>1
    <3>2. PICK d : IsDone(d, top - 1)
      BY <3>1
    <3> DEFINE e == [n \in 0 .. top |-> IF n = top THEN Step(d[top - 1], top) ELSE d[n]]
    <3>3. \A n \in 0 .. top : e[n] = IF n = 0 THEN FirstPack ELSE Step(e[n - 1], n)
      <4> TAKE n \in 0 .. top
      <4>1. CASE n = 0
        BY <4>1, <3>1, <3>2
      <4>2. CASE n # 0 /\ n # top
        BY <4>2, <3>1, <3>2
      <4>3. CASE n # 0 /\ n = top
        BY <4>3, <3>1, <3>2
      <4> QED
        BY <4>1, <4>2, <4>3
    <3>4. IsDone(e, top)
      BY <3>3
    <3> QED
      BY <3>4, <2>1
  <2> QED
    BY <2>2, <2>3
<1>2. PICK d : IsDone(d, Len(ItemsOf(m)))
  BY <1>0, <1>1
<1> DEFINE f == CHOOSE x : IsDone(x, Len(ItemsOf(m)))
<1>3. IsDone(f, Len(ItemsOf(m)))
  BY <1>2
<1>4. AppendPack(m) = f[Len(ItemsOf(m))]
  BY DEF AppendPack, ItemsOf, FirstPack, Step
<1> HIDE DEF f
<1>5. f[0] = FirstPack /\ \A n \in 1 .. Len(ItemsOf(m)) : f[n] = Step(f[n - 1], n)
  BY <1>0, <1>3
<1> QED
  BY <1>4, <1>5 DEF Step, PackSteps, PackItem

(* They are the only ones.                                                    *)
LEMMA PackUnique ==
  ASSUME NEW m, IsAdded(m), NEW f, PackSteps(m, f)
  PROVE  AppendPack(m) = f[Len(ItemsOf(m))]
<1>1. PICK g : PackSteps(m, g) /\ AppendPack(m) = g[Len(ItemsOf(m))]
  BY AppendPackUnfolds
<1>2. PICK size \in Nat : size = Len(ItemsOf(m))
  BY ItemsAre, SeqHas DEF ItemsGive
<1> DEFINE Bad == {n \in 0 .. size : f[n] # g[n]}
<1>3. ASSUME Bad # {} PROVE FALSE
  <2>1. PICK k \in Bad : \A n \in Bad : k <= n
    <3> HIDE DEF Bad
    <3>1. Bad \in SUBSET Nat
      BY DEF Bad
    <3> QED
      BY <1>3, <3>1, LeastNatural
  <2>2. k # 0
    BY <1>1, <2>1 DEF PackSteps
  <2>3. k \in 1 .. size /\ k - 1 \in 0 .. size /\ k - 1 \notin Bad
    BY <2>1, <2>2
  <2>4. f[k - 1] = g[k - 1]
    BY <2>3
  <2>5. f[k] = g[k]
    BY <1>1, <1>2, <2>3, <2>4 DEF PackSteps
  <2> QED
    BY <2>1, <2>5
<1>4. f[size] = g[size]
  BY <1>3
<1> QED
  BY <1>1, <1>2, <1>4

(* A message packed whole gives this pack.                                    *)
PackedAs(m, pk) == \E f : PackSteps(m, f) /\ f[Len(ItemsOf(m))] = pk

(* With one more item, it gives the pack with that item.                      *)
LEMMA PackStepsMore ==
  ASSUME NEW m, NEW new, NEW f, PackSteps(m, f), NEW x, Appended(ItemsOf(m), x, ItemsOf(new)), NEW size \in Nat, size = Len(ItemsOf(m)),
         NEW pk, pk = PackItem(f[size], size < Len(new[1]), x), Len(m[1]) \in Nat, Len(new[1]) \in Nat,
         Len(new[1]) = Len(m[1]) \/ (size < Len(new[1]) /\ size <= Len(m[1]))
  PROVE  PackedAs(new, pk)
<1> DEFINE g == [n \in 0 .. size + 1 |-> IF n = size + 1 THEN pk ELSE f[n]]
<1>1. Len(ItemsOf(new)) = size + 1 /\ ItemsOf(new)[size + 1] = x /\ \A n \in 1 .. size : ItemsOf(new)[n] = ItemsOf(m)[n]
  BY DEF Appended
<1>2. g[0] = f[0] /\ g[size + 1] = pk /\ \A n \in 0 .. size : g[n] = f[n]
  OBVIOUS
<1> HIDE DEF g
<1>3. \A n \in 1 .. size + 1 : g[n] = PackItem(g[n - 1], n <= Len(new[1]), ItemsOf(new)[n])
  <2>1. TAKE n \in 1 .. size + 1
  <2>2. CASE n = size + 1
    <3>1. n - 1 = size /\ ((size < Len(new[1])) <=> (n <= Len(new[1])))
      BY <2>2
    <3>2. (size < Len(new[1])) = (n <= Len(new[1]))
      BY <3>1
    <3> QED
      BY <1>1, <1>2, <2>2, <3>1, <3>2
  <2>3. CASE n # size + 1
    <3>1. n \in 1 .. size /\ n - 1 \in 0 .. size /\ n \in 0 .. size /\ ((n <= Len(m[1])) <=> (n <= Len(new[1])))
      BY <2>3
    <3>2. (n <= Len(m[1])) = (n <= Len(new[1]))
      BY <3>1
    <3>3. f[n] = PackItem(f[n - 1], n <= Len(m[1]), ItemsOf(m)[n])
      BY <3>1 DEF PackSteps
    <3> QED
      BY <1>1, <1>2, <3>1, <3>2, <3>3
  <2> QED
    BY <2>2, <2>3
<1>4. PackSteps(new, g)
  BY <1>1, <1>2, <1>3 DEF PackSteps
<1> QED
  BY <1>1, <1>2, <1>4 DEF PackedAs

(* A question or a record stands from o to end.                               *)
ItemIn(msg, table, sound, asked, o, x, end) ==
    IF asked THEN QuestionIn(msg, table, sound, o, x, end) ELSE RecordIn(msg, table, sound, o, x, end)

(* The items stand one after the other, the n-th ends at at[n].               *)
Laid(msg, table, sound, m, at) ==
    /\ at[0] = 1 /\ MsgPrefix + at[Len(ItemsOf(m))] = Len(msg)
    /\ \A n \in 0 .. Len(ItemsOf(m)) : at[n] \in Nat /\ \A i \in 0 .. n : at[i] <= at[n]
    /\ \A n \in 1 .. Len(ItemsOf(m)) :
           ItemIn(msg, table, sound, n <= Len(m[1]), at[n - 1], ItemsOf(m)[n], at[n])

(* Once the table may be wrong, labels and ends still stand where they were.  *)
LEMMA NameUnsound ==
  ASSUME NEW msg, NEW table, NEW more, NEW sound, NEW o, NEW name, NEW end, NameIn(msg, table, sound, o, name, end)
  PROVE  NameIn(msg, more, FALSE, o, name, end)
  BY DEF NameIn, Labelled

(* The same for a field.                                                      *)
LEMMA FieldUnsound ==
  ASSUME NEW msg, NEW table, NEW more, NEW sound, NEW o, NEW kind, NEW v, NEW end,
         FieldIn(msg, table, sound, o, kind, v, end)
  PROVE  FieldIn(msg, more, FALSE, o, kind, v, end)
<1>1. ASSUME kind \in {"name", "plain"} PROVE NameIn(msg, more, FALSE, o, v, end)
  <2>1. NameIn(msg, table, sound, o, v, end)
    BY <1>1 DEF FieldIn
  <2> QED
    BY <2>1, NameUnsound
<1> QED
  BY <1>1 DEF FieldIn

(* The same for a record's data.                                              *)
LEMMA BodyUnsound ==
  ASSUME NEW msg, NEW table, NEW more, NEW sound, NEW o, NEW r, NEW end, BodyIn(msg, table, sound, o, r, end)
  PROVE  BodyIn(msg, more, FALSE, o, r, end)
<1>1. PICK at :
        /\ at[0] = o /\ at[Len(Data(r.type))] = end
        /\ \A i \in 1 .. Len(Data(r.type)) : FieldIn(msg, table, sound, at[i - 1], Data(r.type)[i], r.body[i], at[i])
  BY DEF BodyIn
<1>2. ASSUME NEW i \in 1 .. Len(Data(r.type)) PROVE FieldIn(msg, more, FALSE, at[i - 1], Data(r.type)[i], r.body[i], at[i])
  <2>1. PICK p, e, kind, v : p = at[i - 1] /\ e = at[i] /\ kind = Data(r.type)[i] /\ v = r.body[i]
    OBVIOUS
  <2>2. FieldIn(msg, table, sound, p, kind, v, e)
    BY <1>1, <2>1
  <2>3. FieldIn(msg, more, FALSE, p, kind, v, e)
    BY ONLY <2>2, FieldUnsound
  <2> QED
    BY <2>1, <2>3
<1> QED
  BY <1>1, <1>2 DEF BodyIn

(* The same for an item.                                                      *)
LEMMA ItemUnsound ==
  ASSUME NEW msg, NEW table, NEW more, NEW sound, NEW asked, NEW o, NEW x, NEW end,
         ItemIn(msg, table, sound, asked, o, x, end)
  PROVE  ItemIn(msg, more, FALSE, asked, o, x, end)
<1>1. CASE asked
  <2>1. PICK l \in Nat :
        /\ NameIn(msg, table, sound, o, x, l) /\ end = l + 1
        /\ MsgPrefix + end <= Len(msg) /\ Cell(msg, l) = <<"type", "A">>
    BY <1>1 DEF ItemIn, QuestionIn
  <2>2. NameIn(msg, more, FALSE, o, x, l)
    BY <2>1, NameUnsound
  <2> QED
    BY <1>1, <2>1, <2>2 DEF ItemIn, QuestionIn
<1>2. CASE ~asked
  <2>1. PICK l \in Nat : NameIn(msg, table, sound, o, x.name, l) /\ Fixed(msg, l, x, end) /\ BodyIn(msg, table, sound, l + 3, x, end)
    BY <1>2 DEF ItemIn, RecordIn
  <2>2. NameIn(msg, more, FALSE, o, x.name, l)
    <3>1. PICK name : name = x.name
      OBVIOUS
    <3> QED
      BY <2>1, <3>1, NameUnsound
  <2>3. BodyIn(msg, more, FALSE, l + 3, x, end)
    <3>1. PICK p : p = l + 3
      OBVIOUS
    <3>2. BodyIn(msg, table, sound, p, x, end)
      BY <2>1, <3>1
    <3>3. BodyIn(msg, more, FALSE, p, x, end)
      BY ONLY <3>2, BodyUnsound
    <3> QED
      BY <3>1, <3>3
  <2> QED
    BY <1>2, <2>1, <2>2, <2>3 DEF ItemIn, RecordIn
<1> QED
  BY <1>1, <1>2

(* The same for all items.                                                    *)
LEMMA LaidUnsound ==
  ASSUME NEW msg, NEW table, NEW more, NEW sound, NEW m, NEW at, Laid(msg, table, sound, m, at)
  PROVE  Laid(msg, more, FALSE, m, at)
<1>1. ASSUME NEW n \in 1 .. Len(ItemsOf(m)) PROVE ItemIn(msg, more, FALSE, n <= Len(m[1]), at[n - 1], ItemsOf(m)[n], at[n])
  <2>1. PICK asked, o, x, e : asked = (n <= Len(m[1])) /\ o = at[n - 1] /\ x = ItemsOf(m)[n] /\ e = at[n]
    OBVIOUS
  <2>2. ItemIn(msg, table, sound, asked, o, x, e)
    BY <2>1 DEF Laid
  <2>3. ItemIn(msg, more, FALSE, asked, o, x, e)
    BY ONLY <2>2, ItemUnsound
  <2> QED
    BY <2>1, <2>3
<1> QED
  BY <1>1 DEF Laid

(* What is added later moves no item that stands.                             *)
LEMMA ItemKept ==
  ASSUME NEW pk, NEW new, Grows(pk, new), NEW sound, NEW asked, NEW o, NEW x, NEW end,
         ItemIn(pk.msg, pk.table, sound, asked, o, x, end)
  PROVE  ItemIn(new.msg, new.table, sound, asked, o, x, end)
<1>1. PICK a, b, t, u : a = pk.msg /\ b = new.msg /\ t = pk.table /\ u = new.table
  OBVIOUS
<1>2. Keeps(a, t, b, u) /\ \A i \in 1 .. Len(a) : b[i] = a[i]
  BY <1>1 DEF Grows
<1>3. Len(a) \in Nat /\ Len(b) \in Nat /\ Len(a) <= Len(b) /\ MsgPrefix \in Nat
  BY <1>2, MessageBounds DEF Keeps
<1>4. ASSUME NEW l \in Nat, MsgPrefix + l + 1 <= Len(a) PROVE Cell(b, l) = Cell(a, l)
  <2>1. MsgPrefix + l + 1 \in 1 .. Len(a)
    BY <1>3, <1>4
  <2> QED
    BY <1>2, <2>1 DEF Cell
<1>5. CASE asked
  <2>1. PICK l \in Nat :
        /\ NameIn(a, t, sound, o, x, l) /\ end = l + 1
        /\ MsgPrefix + end <= Len(a) /\ Cell(a, l) = <<"type", "A">>
    BY <1>1, <1>5 DEF ItemIn, QuestionIn
  <2>2. NameIn(b, u, sound, o, x, l)
    BY ONLY <1>2, <2>1, NameKept
  <2>3. Cell(b, l) = Cell(a, l) /\ MsgPrefix + end <= Len(b)
    BY <1>3, <1>4, <2>1
  <2> QED
    BY <1>1, <1>5, <2>1, <2>2, <2>3 DEF ItemIn, QuestionIn
<1>6. CASE ~asked
  <2>1. PICK l \in Nat : NameIn(a, t, sound, o, x.name, l) /\ Fixed(a, l, x, end) /\ BodyIn(a, t, sound, l + 3, x, end)
    BY <1>1, <1>6 DEF ItemIn, RecordIn
  <2>2. NameIn(b, u, sound, o, x.name, l)
    <3>1. PICK name : name = x.name
      OBVIOUS
    <3>2. NameIn(a, t, sound, o, name, l)
      BY <2>1, <3>1
    <3>3. NameIn(b, u, sound, o, name, l)
      BY ONLY <1>2, <3>2, NameKept
    <3> QED
      BY <3>1, <3>3
  <2>3. BodyIn(b, u, sound, l + 3, x, end)
    <3>1. PICK p : p = l + 3
      OBVIOUS
    <3>2. BodyIn(a, t, sound, p, x, end)
      BY <2>1, <3>1
    <3>3. BodyIn(b, u, sound, p, x, end)
      BY ONLY <1>2, <3>2, BodyKept
    <3> QED
      BY <3>1, <3>3
  <2>4. Fixed(b, l, x, end)
    <3>1. /\ l + 3 <= end /\ end \in Nat /\ MsgPrefix + end <= Len(a)
          /\ Cell(a, l) = <<"type", x.type>> /\ Cell(a, l + 1) = <<"ttl", x.ttl>>
          /\ Cell(a, l + 2) = <<"len", end - (l + 3)>>
      BY <2>1 DEF Fixed
    <3>2. Cell(b, l) = Cell(a, l)
      BY <1>3, <1>4, <3>1
    <3>3. Cell(b, l + 1) = Cell(a, l + 1)
      BY <1>3, <1>4, <3>1
    <3>4. Cell(b, l + 2) = Cell(a, l + 2)
      BY <1>3, <1>4, <3>1
    <3>5. MsgPrefix + end <= Len(b)
      BY <1>3, <3>1
    <3> QED
      BY <3>1, <3>2, <3>3, <3>4, <3>5 DEF Fixed
  <2> QED
    BY <1>1, <1>6, <2>1, <2>2, <2>3, <2>4 DEF ItemIn, RecordIn
<1> QED
  BY <1>5, <1>6

(* One more item.                                                             *)
ItemPacked(pk, asked, x, new, sound) ==
    Packed(pk, new, sound) /\ ItemIn(new.msg, new.table, sound, asked, Offset(pk), x, Offset(new))

(* The items that stood, and one more after them.                             *)
LEMMA LaidMore ==
  ASSUME NEW pk, IsPack(pk), NEW new, NEW sound, NEW x, NEW m, IsSeq(ItemsOf(m)), NEW more, NEW at, Laid(pk.msg, pk.table, sound, m, at),
         NEW asked \in BOOLEAN, ItemPacked(pk, asked, x, new, sound), Appended(ItemsOf(m), x, ItemsOf(more)),
         asked = (Len(ItemsOf(m)) < Len(more[1])), Len(m[1]) \in Nat, Len(more[1]) \in Nat,
         \/ Len(more[1]) = Len(m[1])
         \/ Len(ItemsOf(m)) < Len(more[1]) /\ Len(ItemsOf(m)) <= Len(m[1])
  PROVE  \E to : Laid(new.msg, new.table, sound, more, to)
<1>1. PICK size \in Nat : size = Len(ItemsOf(m))
  BY SeqHas
<1>2. PICK items, all : items = ItemsOf(m) /\ all = ItemsOf(more)
  OBVIOUS
<1>3. Len(all) = size + 1 /\ all[size + 1] = x /\ \A n \in 1 .. size : all[n] = items[n]
  BY <1>1, <1>2 DEF Appended
<1>4. PICK end : end = Offset(new)
  OBVIOUS
<1>5. /\ at[0] = 1 /\ MsgPrefix + at[size] = Len(pk.msg)
      /\ \A n \in 0 .. size : at[n] \in Nat /\ \A i \in 0 .. n : at[i] <= at[n]
  BY <1>1 DEF Laid
<1>6. Packed(pk, new, sound) /\ IsPack(new) /\ Grows(pk, new)
  BY DEF ItemPacked, Packed
<1>7. /\ end \in Nat /\ MsgPrefix \in Nat /\ end + MsgPrefix = Len(new.msg) /\ Offset(pk) + MsgPrefix = Len(pk.msg)
      /\ Len(pk.msg) \in Nat /\ Len(new.msg) \in Nat /\ Len(pk.msg) <= Len(new.msg) /\ Offset(pk) \in Nat
  BY <1>4, <1>6, OffsetIs, MessageBounds DEF Grows, Keeps
<1>8. at[size] = Offset(pk) /\ at[size] <= end
  BY <1>5, <1>7
<1> DEFINE to == [n \in 0 .. size + 1 |-> IF n = size + 1 THEN end ELSE at[n]]
<1>9. to[size + 1] = end /\ \A n \in 0 .. size : to[n] = at[n]
  OBVIOUS
<1> HIDE DEF to
<1>10. to[0] = 1 /\ MsgPrefix + to[size + 1] = Len(new.msg)
  BY <1>5, <1>7, <1>9
<1>11. ASSUME NEW n \in 0 .. size + 1 PROVE to[n] \in Nat /\ \A i \in 0 .. n : to[i] <= to[n]
  <2>1. CASE n \in 0 .. size
    <3>1. \A i \in 0 .. n : to[i] = at[i]
      BY <1>9, <2>1
    <3> QED
      BY <1>5, <1>9, <2>1, <3>1
  <2>2. CASE n = size + 1
    <3>1. \A i \in 0 .. size : to[i] <= end
      <4>1. TAKE i \in 0 .. size
      <4>2. at[i] <= at[size] /\ at[i] \in Nat /\ at[size] \in Nat /\ to[i] = at[i]
        BY <1>5, <1>9
      <4> QED
        BY <1>7, <1>8, <4>2
    <3>2. \A i \in 0 .. n : i \in 0 .. size \/ i = size + 1
      BY <2>2
    <3> QED
      BY <1>7, <1>9, <2>2, <3>1, <3>2
  <2> QED
    BY <2>1, <2>2
<1>12. ASSUME NEW n \in 1 .. size + 1
       PROVE ItemIn(new.msg, new.table, sound, n <= Len(more[1]), to[n - 1], all[n], to[n])
  <2>1. CASE n = size + 1
    <3>1. n - 1 = size /\ ((size < Len(more[1])) <=> (n <= Len(more[1])))
      BY <2>1
    <3>2. asked = (n <= Len(more[1]))
      BY <1>1, <3>1
    <3>3. ItemIn(new.msg, new.table, sound, asked, Offset(pk), x, end)
      BY <1>4 DEF ItemPacked
    <3> QED
      BY <1>3, <1>8, <1>9, <2>1, <3>1, <3>2, <3>3
  <2>2. CASE n # size + 1
    <3>1. n \in 1 .. size /\ n - 1 \in 0 .. size /\ n \in 0 .. size /\ ((n <= Len(m[1])) <=> (n <= Len(more[1])))
      BY <1>1, <2>2
    <3>2. (n <= Len(m[1])) = (n <= Len(more[1]))
      BY <3>1
    <3>3. PICK a, o, y, e : a = (n <= Len(m[1])) /\ o = at[n - 1] /\ y = items[n] /\ e = at[n]
      OBVIOUS
    <3>4. ItemIn(pk.msg, pk.table, sound, a, o, y, e)
      BY <1>1, <1>2, <3>1, <3>3 DEF Laid
    <3>5. ItemIn(new.msg, new.table, sound, a, o, y, e)
      BY ONLY <1>6, <3>4, ItemKept
    <3> QED
      BY <1>3, <1>9, <3>1, <3>2, <3>3, <3>5
  <2> QED
    BY <2>1, <2>2
<1>13. Laid(new.msg, new.table, sound, more, to)
  <2>1. Len(ItemsOf(more)) = size + 1
    BY <1>2, <1>3
  <2> QED
    BY <1>2, <1>10, <1>11, <1>12, <2>1 DEF Laid
<1> QED
  BY <1>13

(* An item that may be added.                                                 *)
ItemOk(asked, x) == IF asked THEN IsSeq(x) ELSE Record(x)

(* Every record that may be added is well made.                               *)
LEMMA RecordOk == ASSUME NEW r \in MsgRecords PROVE Record(r)
<1>1. /\ IsSeq(r.name) /\ Len(r.body) = Len(Data(r.type))
      /\ \A i \in 1 .. Len(r.body) : Data(r.type)[i] = "num" \/ IsSeq(r.body[i])
  BY MessageAssumption
<1>2. ASSUME NEW i \in 1 .. Len(Data(r.type)) PROVE Field(Data(r.type)[i], r.body[i])
  <2>1. Data(r.type)[i] \in Kinds
    BY DataIs
  <2> QED
    BY <1>1, <2>1 DEF Field
<1> QED
  BY <1>1, <1>2 DEF Record

(* So is every question.                                                      *)
LEMMA QuestionOk == ASSUME NEW name \in MsgQuestions PROVE IsSeq(name)
  BY MessageAssumption

(* PackItem returns a pack.                                                   *)
LEMMA ItemIsPack ==
  ASSUME NEW pk, IsPack(pk), NEW asked \in BOOLEAN, NEW x, ItemOk(asked, x), NEW new, new = PackItem(pk, asked, x)
  PROVE  IsPack(new) /\ new.on = pk.on
<1>1. CASE ~pk.ok
  BY <1>1 DEF PackItem
<1>2. CASE pk.ok /\ asked
  BY <1>2, QuestionIsPack DEF PackItem, ItemOk
<1>3. CASE pk.ok /\ ~asked
  BY <1>3, ResourceIsPack DEF PackItem, ItemOk
<1> QED
  BY <1>1, <1>2, <1>3

(* An item that PackItem accepts stands where it was put.                     *)
LEMMA ItemIsPacked ==
  ASSUME NEW pk, IsPack(pk), pk.ok, NEW asked \in BOOLEAN, NEW x, ItemOk(asked, x), NEW sound \in BOOLEAN,
         sound => TableIn(pk.msg, pk.table), NEW new, new = PackItem(pk, asked, x), new.ok
  PROVE  ItemPacked(pk, asked, x, new, sound)
<1>1. CASE asked
  <2>1. IsSeq(x) /\ new = PackQuestion(pk, x)
    BY <1>1 DEF PackItem, ItemOk
  <2>2. QuestionPacked(pk, x, new, sound)
    BY <2>1, QuestionIsPacked
  <2> QED
    BY <1>1, <2>2 DEF QuestionPacked, ItemPacked, ItemIn
<1>2. CASE ~asked
  <2>1. Record(x) /\ new = PackResource(pk, x)
    BY <1>2 DEF PackItem, ItemOk
  <2>2. RecordPacked(pk, x, new, sound)
    BY <2>1, ResourceIsPacked
  <2> QED
    BY <1>2, <2>2 DEF RecordPacked, ItemPacked, ItemIn
<1> QED
  BY <1>1, <1>2

------------------------------------------------------------------------------
(* The builder.                                                               *)

(* The builder: what it holds is what was added, in the order of the          *)
(* sections, and what a message packed whole holds.                           *)
IsBuilder ==
    /\ bld = [msg |-> bld.msg, section |-> bld.section, counts |-> bld.counts, on |-> bld.on, table |-> bld.table]
    /\ bld.section \in 0 .. 5
    /\ bld.counts = [s \in MsgSections |-> Len(added[s])] /\ \A s \in MsgSections : Len(added[s]) <= MaxCount

(* The sections that are not yet begun are empty.                             *)
Building == stage = "build" => bld.section \in 0 .. 4 /\ \A s \in 1 .. 4 : s > bld.section => added[s] = <<>>

(* Before the first call, nothing is there.                                   *)
Fresh == ops = 0 => bld.msg = NewBuilder.msg /\ bld.table = NoTable /\ ~tainted /\ added = [s \in MsgSections |-> <<>>]

(* All that was added stands in the buffer.                                   *)
LaidOut == \E at : Laid(bld.msg, bld.table, ~tainted, added, at)

(* A builder that compresses holds what AppendPack would.                     *)
PackedWhole == (bld.on /\ ~tainted) => PackedAs(added, PackOf(bld))

(* The builder's inductive invariant.                                         *)
BuilderInv ==
    /\ stage \in {"build", "finished", "read", "queried"} /\ ops \in 0 .. MsgOps /\ tainted \in BOOLEAN
    /\ IsBuilder /\ Building /\ Fresh /\ IsAdded(added)
    /\ IsPack(PackOf(bld)) /\ (~tainted => TableIn(bld.msg, bld.table))
    /\ LaidOut /\ PackedWhole

(* What it is about.                                                          *)
bvars == <<bld.msg, bld.on, bld.table, bld.counts, added, tainted, ops>>

(* No item was added.                                                         *)
LEMMA NothingAdded ==
  ASSUME NEW m, m = [s \in MsgSections |-> <<>>]
  PROVE  IsAdded(m) /\ IsSeq(ItemsOf(m)) /\ Len(ItemsOf(m)) = 0
<1>1. m[1] = <<>> /\ m[2] = <<>> /\ m[3] = <<>> /\ m[4] = <<>>
  BY DEF MsgSections
<1>2. IsAdded(m)
  <2>1. m = [s \in MsgSections |-> m[s]]
    OBVIOUS
  <2>2. \A s \in 2 .. 4 : m[s] = <<>>
    BY DEF MsgSections
  <2>3. <<>> \in Seq(MsgQuestions) /\ <<>> \in Seq(MsgRecords)
    OBVIOUS
  <2> QED
    BY <1>1, <2>1, <2>2, <2>3 DEF IsAdded
<1>3. ItemsBefore(m, 5) = 0
  <2>1. Len(m[1]) = 0 /\ Len(m[2]) = 0 /\ Len(m[3]) = 0 /\ Len(m[4]) = 0
    BY <1>1
  <2>2. ItemsBefore(m, 5) = 0 + 0 + 0 + 0
    BY <2>1, BeforeIs
  <2> QED
    BY <2>2
<1>4. IsSeq(ItemsOf(m)) /\ Len(ItemsOf(m)) = ItemsBefore(m, 5)
  BY <1>2, ItemsAre DEF ItemsGive
<1> QED
  BY <1>2, <1>3, <1>4

(* The header alone lays nothing out.                                         *)
LEMMA EmptyLaid ==
  ASSUME NEW m, Len(ItemsOf(m)) = 0, NEW table, NEW sound, NEW msg, msg = NewBuilder.msg
  PROVE  /\ IsSeq(msg) /\ Len(msg) = MsgPrefix + 1 /\ Len(msg) > MsgPrefix
         /\ \E at : Laid(msg, table, sound, m, at)
<1>1. MsgPrefix + 1 \in Nat /\ MsgPrefix \in Nat
  BY MessageBounds
<1>2. IsSeq(msg) /\ Len(msg) = MsgPrefix + 1
  <2>1. msg = [i \in 1 .. (MsgPrefix + 1) |-> <<"head", 0>>]
    BY DEF NewBuilder
  <2>2. msg = [i \in 1 .. (MsgPrefix + 1) |-> msg[i]]
    BY <2>1
  <2> QED
    BY <1>1, <2>2, SeqMade
<1> DEFINE at == [n \in 0 .. 0 |-> 1]
<1>3. at[0] = 1 /\ \A n \in 0 .. 0 : at[n] \in Nat /\ \A i \in 0 .. n : at[i] <= at[n]
  OBVIOUS
<1> HIDE DEF at
<1>4. Laid(msg, table, sound, m, at)
  BY <1>1, <1>2, <1>3 DEF Laid
<1> QED
  BY <1>1, <1>2, <1>4

(* The empty table is right.                                                  *)
LEMMA NoTableIs == IsTable(NoTable) /\ \A msg : TableIn(msg, NoTable)
  BY DEF NoTable, IsTable, TableIn

(* A new builder.                                                             *)
LEMMA BuilderInit == MessageInit => BuilderInv
<1> SUFFICES ASSUME MessageInit PROVE BuilderInv
  OBVIOUS
<1>1. /\ bld = NewBuilder /\ added = [s \in MsgSections |-> <<>>] /\ tainted = FALSE /\ stage = "build" /\ ops = 0
  BY DEF MessageInit
<1>2. /\ bld.msg = NewBuilder.msg /\ bld.section = 0 /\ bld.counts = [s \in MsgSections |-> 0] /\ bld.on = FALSE
      /\ bld.table = NoTable
      /\ bld = [msg |-> bld.msg, section |-> bld.section, counts |-> bld.counts, on |-> bld.on, table |-> bld.table]
  BY <1>1 DEF NewBuilder
<1>3. IsAdded(added) /\ Len(ItemsOf(added)) = 0
  BY <1>1, NothingAdded
<1>4. /\ IsSeq(bld.msg) /\ Len(bld.msg) > MsgPrefix
      /\ LaidOut
  <2>1. PICK msg, table, sound : msg = bld.msg /\ table = bld.table /\ sound = ~tainted
    OBVIOUS
  <2>2. IsSeq(msg) /\ Len(msg) > MsgPrefix /\ \E at : Laid(msg, table, sound, added, at)
    BY <1>2, <1>3, <2>1, EmptyLaid
  <2> QED
    BY <2>1, <2>2 DEF LaidOut
<1>5. \A s \in MsgSections : added[s] = <<>> /\ Len(added[s]) = 0
  BY <1>1
<1>6. IsBuilder
  <2>1. bld.counts = [s \in MsgSections |-> Len(added[s])]
    BY <1>2, <1>5
  <2>2. 0 <= MaxCount
    BY MessageBounds
  <2> QED
    BY <1>2, <1>5, <2>1, <2>2 DEF IsBuilder
<1>7. Building /\ Fresh
  BY <1>1, <1>2, <1>5 DEF Building, Fresh, MsgSections
<1>8. IsPack(PackOf(bld)) /\ TableIn(bld.msg, bld.table)
  <2>1. IsTable(bld.table) /\ TableIn(bld.msg, bld.table)
    BY <1>2, NoTableIs
  <2> QED
    BY <1>2, <1>4, <2>1 DEF IsPack, PackOf
<1>9. PackedWhole
  BY <1>2 DEF PackedWhole
<1>10. ops \in 0 .. MsgOps
  BY <1>1, MessageBounds
<1> QED
  BY <1>1, <1>3, <1>4, <1>6, <1>7, <1>8, <1>9, <1>10 DEF BuilderInv

(* What changes nothing of what was packed.                                   *)
LEMMA BuilderKept ==
  ASSUME BuilderInv, bld' = [bld EXCEPT !.section = bld'.section], bld'.section \in 0 .. 5,
         added' = added, tainted' = tainted, ops' = ops, stage' \in {"build", "finished", "read", "queried"},
         stage' = "build" => stage = "build" /\ bld'.section \in 0 .. 4 /\ bld'.section >= bld.section
  PROVE  BuilderInv'
<1>1. /\ bld'.msg = bld.msg /\ bld'.counts = bld.counts /\ bld'.on = bld.on /\ bld'.table = bld.table
      /\ bld' = [msg |-> bld'.msg, section |-> bld'.section, counts |-> bld'.counts, on |-> bld'.on, table |-> bld'.table]
  BY DEF BuilderInv, IsBuilder
<1>2. PackOf(bld') = PackOf(bld)
  BY <1>1 DEF PackOf
<1>3. IsBuilder'
  BY <1>1 DEF BuilderInv, IsBuilder
<1>4. Building'
  BY DEF BuilderInv, Building, IsBuilder
<1>5. Fresh'
  BY <1>1 DEF BuilderInv, Fresh
<1>6. LaidOut' /\ PackedWhole'
  BY <1>1, <1>2 DEF BuilderInv, LaidOut, PackedWhole
<1> QED
  BY <1>1, <1>2, <1>3, <1>4, <1>5, <1>6 DEF BuilderInv

(* Compression is only turned on before anything was packed.                  *)
LEMMA CompressionKept == ASSUME BuilderInv, EnableCompression PROVE BuilderInv'
<1>1. /\ stage = "build" /\ ops = 0 /\ ~bld.on /\ bld' = [bld EXCEPT !.on = TRUE, !.table = NoTable]
      /\ added' = added /\ tainted' = tainted /\ stage' = stage /\ ops' = ops
  BY DEF EnableCompression
<1>2. /\ bld'.msg = bld.msg /\ bld'.counts = bld.counts /\ bld'.on = TRUE /\ bld'.table = NoTable /\ bld'.section = bld.section
      /\ bld' = [msg |-> bld'.msg, section |-> bld'.section, counts |-> bld'.counts, on |-> bld'.on, table |-> bld'.table]
  BY <1>1 DEF BuilderInv, IsBuilder
<1>3. bld.msg = NewBuilder.msg /\ bld.table = NoTable /\ ~tainted /\ added = [s \in MsgSections |-> <<>>]
  BY <1>1 DEF BuilderInv, Fresh
<1>4. IsBuilder' /\ Building' /\ Fresh'
  BY <1>1, <1>2, <1>3 DEF BuilderInv, IsBuilder, Building, Fresh
<1>5. IsPack(PackOf(bld))' /\ TableIn(bld.msg, bld.table)'
  BY <1>2, NoTableIs DEF BuilderInv, IsPack, PackOf
<1>6. LaidOut'
  <2>1. bld'.table = bld.table
    BY <1>2, <1>3
  <2> QED
    BY <1>1, <1>2, <2>1 DEF BuilderInv, LaidOut
<1>7. PackedWhole'
  <2>1. PackOf(bld') = FirstPack
    <3>1. PICK b : b = NewBuilder
      OBVIOUS
    <3>2. b.table = NoTable
      BY <3>1 DEF NewBuilder
    <3>4. PICK p : p = PackOf(b)
      OBVIOUS
    <3>5. p = [ok |-> TRUE, msg |-> b.msg, on |-> b.on, table |-> b.table]
      BY <3>4 DEF PackOf
    <3>6. FirstPack = [p EXCEPT !.on = TRUE]
      BY <3>1, <3>4 DEF FirstPack
    <3>3. FirstPack = [ok |-> TRUE, msg |-> b.msg, on |-> TRUE, table |-> b.table]
      BY <3>5, <3>6
    <3> QED
      BY <1>2, <1>3, <3>1, <3>2, <3>3 DEF PackOf
  <2>2. Len(ItemsOf(added)) = 0
    BY <1>3, NothingAdded
  <2> DEFINE f == [n \in 0 .. 0 |-> FirstPack]
  <2>3. f[0] = FirstPack
    OBVIOUS
  <2> HIDE DEF f
  <2>4. PackedAs(added, PackOf(bld'))
    BY <2>1, <2>2, <2>3 DEF PackSteps, PackedAs
  <2> QED
    BY <1>1, <2>4 DEF PackedWhole
<1> QED
  BY <1>1, <1>4, <1>5, <1>6, <1>7 DEF BuilderInv

(* A call that adds x to the section s, the last one that has any.            *)
Adding(s, x) ==
    /\ stage = "build" /\ s = bld.section /\ s \in 1 .. 4
    /\ x \in IF s = 1 THEN MsgQuestions ELSE MsgRecords
    /\ Add(PackItem(PackOf(bld), s = 1, x), x)

(* The calls that add an item are those.                                      *)
LEMMA AddingIs ==
  ASSUME MessageNext,
         \/ \E name \in MsgQuestions : AddQuestion(name)
         \/ \E r \in MsgRecords : AddResource(r)
  PROVE  \E s, x : Adding(s, x)
<1>1. ASSUME NEW name \in MsgQuestions, AddQuestion(name) PROVE Adding(1, name)
  BY <1>1 DEF AddQuestion, Adding, PackItem, PackOf
<1>2. ASSUME NEW r \in MsgRecords, AddResource(r) PROVE Adding(bld.section, r)
  BY <1>2 DEF AddResource, Adding, PackItem, PackOf
<1> QED
  BY <1>1, <1>2

(* A call that adds an item, or is refused after it changed the table, keeps  *)
(* the invariant.                                                             *)
LEMMA AddingKept == ASSUME BuilderInv, NEW s, NEW x, Adding(s, x) PROVE BuilderInv'
<1>1. PICK pk : pk = PackOf(bld)
  OBVIOUS
<1>2. PICK asked \in BOOLEAN : asked = (s = 1)
  OBVIOUS
<1>3. PICK new : new = PackItem(pk, asked, x)
  OBVIOUS
<1>4. /\ stage = "build" /\ s = bld.section /\ s \in 1 .. 4 /\ x \in IF asked THEN MsgQuestions ELSE MsgRecords
      /\ Add(new, x)
  BY <1>1, <1>2, <1>3 DEF Adding
<1>5. ops < MsgOps /\ ops' = ops + 1 /\ stage' = stage
  BY <1>4 DEF Add
<1>6. pk.ok = TRUE /\ pk.msg = bld.msg /\ pk.on = bld.on /\ pk.table = bld.table /\ IsPack(pk)
  BY <1>1 DEF PackOf, BuilderInv
<1>7. ItemOk(asked, x)
  BY <1>4, RecordOk, QuestionOk DEF ItemOk
<1>8. IsPack(new) /\ new.on = pk.on
  BY <1>3, <1>6, <1>7, ItemIsPack
<1>9. /\ bld = [msg |-> bld.msg, section |-> bld.section, counts |-> bld.counts, on |-> bld.on, table |-> bld.table]
      /\ bld.section \in 0 .. 5 /\ tainted \in BOOLEAN /\ IsAdded(added) /\ ops \in Nat /\ MsgOps \in Nat /\ ops <= MsgOps
      /\ bld.counts = [t \in MsgSections |-> Len(added[t])] /\ \A t \in MsgSections : Len(added[t]) <= MaxCount
      /\ \A t \in 1 .. 4 : t > s => added[t] = <<>>
  BY <1>4, MessageBounds DEF BuilderInv, IsBuilder, Building
<1>10. ops' \in 0 .. MsgOps /\ Fresh'
  BY <1>5, <1>9 DEF Fresh
<1>11. CASE ~ (new.ok /\ bld.counts[bld.section] < MaxCount)
  <2>1. bld' = [bld EXCEPT !.table = new.table] /\ tainted' = (tainted \/ new.table # bld.table) /\ added' = added
    BY <1>4, <1>11 DEF Add
  <2>2. /\ bld' = [msg |-> bld.msg, section |-> bld.section, counts |-> bld.counts, on |-> bld.on, table |-> new.table]
        /\ bld'.msg = bld.msg /\ bld'.section = bld.section /\ bld'.counts = bld.counts /\ bld'.on = bld.on
        /\ bld'.table = new.table
    BY <1>9, <2>1
  <2>3. IsBuilder' /\ Building'
    BY <1>4, <1>5, <1>9, <2>1, <2>2 DEF IsBuilder, Building
  <2>4. IsPack(PackOf(bld))'
    <3>1. IsTable(new.table)
      BY <1>8 DEF IsPack
    <3> QED
      BY <1>6, <2>2, <3>1 DEF IsPack, PackOf
  <2>5. CASE new.table = bld.table
    <3>1. bld' = bld /\ tainted' = tainted
      BY <1>9, <2>1, <2>2, <2>5
    <3> QED
      BY <1>5, <1>10, <2>1, <2>3, <2>4, <3>1 DEF BuilderInv, LaidOut, PackedWhole
  <2>6. CASE new.table # bld.table
    <3>1. tainted' = TRUE
      BY <2>1, <2>6
    <3>2. LaidOut'
      <4>1. PICK at : Laid(bld.msg, bld.table, ~tainted, added, at)
        BY DEF BuilderInv, LaidOut
      <4>2. PICK msg, t, u, sound, m : msg = bld.msg /\ t = bld.table /\ u = new.table /\ sound = ~tainted /\ m = added
        OBVIOUS
      <4>3. Laid(msg, t, sound, m, at)
        BY <4>1, <4>2
      <4>4. Laid(msg, u, FALSE, m, at)
        BY ONLY <4>3, LaidUnsound
      <4>5. (~tainted)' = FALSE /\ bld'.msg = msg /\ bld'.table = u /\ added' = m
        BY <2>1, <2>2, <3>1, <4>2
      <4> QED
        BY <4>4, <4>5 DEF LaidOut
    <3>3. PackedWhole'
      BY <3>1 DEF PackedWhole
    <3> QED
      BY <1>5, <1>10, <2>1, <2>3, <2>4, <3>1, <3>2, <3>3 DEF BuilderInv
  <2> QED
    BY <2>5, <2>6
<1>12. CASE new.ok /\ bld.counts[bld.section] < MaxCount
  <2>1. /\ bld' = [bld EXCEPT !.msg = new.msg, !.table = new.table, !.counts[bld.section] = bld.counts[bld.section] + 1]
        /\ added' = [added EXCEPT ![s] = Append(@, x)] /\ tainted' = tainted
    BY <1>4, <1>12 DEF Add
  <2>2. PICK m, more : m = added /\ more = added'
    OBVIOUS
  <2>3. PICK counts : counts = [bld.counts EXCEPT ![s] = bld.counts[s] + 1]
    OBVIOUS
  <2>4. /\ bld' = [msg |-> new.msg, section |-> bld.section, counts |-> counts, on |-> bld.on, table |-> new.table]
        /\ bld'.msg = new.msg /\ bld'.section = bld.section /\ bld'.counts = counts /\ bld'.on = bld.on
        /\ bld'.table = new.table
    BY <1>4, <1>9, <2>1, <2>3
  <2>5. IsAdded(more) /\ Appended(ItemsOf(m), x, ItemsOf(more)) /\ ItemsBefore(m, 5) = ItemsBefore(m, s) + Len(m[s])
    <3>1. x \in IF s = 1 THEN MsgQuestions ELSE MsgRecords
      BY <1>2, <1>4
    <3>2. more = [m EXCEPT ![s] = Append(@, x)]
      BY <2>1, <2>2
    <3>3. AddedTo(m, s, x, more)
      BY <1>4, <1>9, <2>2, <3>1, <3>2, AddedIs
    <3> QED
      BY <3>3 DEF AddedTo
  <2>6. \A t \in 1 .. 4 : Len(m[t]) \in Nat /\ IsSeq(m[t])
    <3>1. \A t \in 1 .. 4 : t = 1 \/ t = 2 \/ t = 3 \/ t = 4
      OBVIOUS
    <3> QED
      BY <1>9, <2>2, <3>1, LensAre
  <2>7. Len(more[s]) = Len(m[s]) + 1 /\ \A t \in 1 .. 4 : t # s => more[t] = m[t]
    <3>1. more[s] = Append(m[s], x) /\ \A t \in 1 .. 4 : t # s => more[t] = m[t]
      BY <1>4, <1>9, <2>1, <2>2 DEF IsAdded, MsgSections
    <3>2. Appended(m[s], x, more[s])
      BY <1>4, <2>6, <3>1, AppendedIs
    <3> QED
      BY <3>1, <3>2 DEF Appended
  <2>8. counts = [t \in MsgSections |-> Len(more[t])] /\ \A t \in MsgSections : Len(more[t]) <= MaxCount
    <3>1. \A t \in MsgSections : counts[t] = IF t = s THEN Len(m[s]) + 1 ELSE Len(m[t])
      BY <1>4, <1>9, <2>2, <2>3 DEF MsgSections
    <3>2. counts = [t \in MsgSections |-> counts[t]]
      BY <1>9, <2>3
    <3>3. \A t \in MsgSections : counts[t] = Len(more[t])
      BY <2>7, <3>1 DEF MsgSections
    <3>4. Len(m[s]) < MaxCount
      BY <1>4, <1>9, <1>12, <2>2 DEF MsgSections
    <3>5. \A t \in MsgSections : Len(more[t]) <= MaxCount
      <4>1. TAKE t \in MsgSections
      <4>2. CASE t = s
        <5>1. Len(m[s]) \in Nat /\ MaxCount \in Nat
          BY <1>4, <2>6, MessageBounds
        <5>2. Len(m[s]) + 1 <= MaxCount
          BY <3>4, <5>1
        <5> QED
          BY <2>7, <4>2, <5>2
      <4>3. CASE t # s
        BY <1>9, <2>2, <2>7, <4>3 DEF MsgSections
      <4> QED
        BY <4>2, <4>3
    <3> QED
      BY <3>2, <3>3, <3>5
  <2>9. IsBuilder' /\ Building'
    BY <1>4, <1>5, <1>9, <2>2, <2>4, <2>7, <2>8 DEF IsBuilder, Building
  <2>10. PICK sound \in BOOLEAN : sound = ~tainted
    BY <1>9
  <2>11. ItemPacked(pk, asked, x, new, sound)
    <3>1. sound => TableIn(pk.msg, pk.table)
      BY <1>6, <2>10 DEF BuilderInv
    <3> QED
      BY <1>3, <1>6, <1>7, <1>12, <3>1, ItemIsPacked
  <2>12. IsPack(PackOf(bld))' /\ ((~tainted)' => TableIn(bld.msg, bld.table)') /\ PackOf(bld') = new
    <3>1. new = [ok |-> new.ok, msg |-> new.msg, on |-> new.on, table |-> new.table] /\ new.ok = TRUE
      BY <1>8, <1>12 DEF IsPack
    <3>2. PackOf(bld') = new
      BY <1>6, <1>8, <2>4, <3>1 DEF PackOf
    <3>3. sound => TableIn(new.msg, new.table)
      BY <2>11 DEF ItemPacked, Packed
    <3> QED
      BY <1>8, <2>1, <2>4, <2>10, <3>2, <3>3
  <2>13. PICK size \in Nat : size = Len(ItemsOf(m)) /\ size = ItemsBefore(m, 5)
    <3>1. IsSeq(ItemsOf(m)) /\ Len(ItemsOf(m)) = ItemsBefore(m, 5)
      BY <1>9, <2>2, ItemsAre DEF ItemsGive
    <3> QED
      BY <3>1, SeqHas
  <2>14. /\ asked = (size < Len(more[1])) /\ Len(m[1]) \in Nat /\ Len(more[1]) \in Nat
         /\ Len(more[1]) = Len(m[1]) \/ (size < Len(more[1]) /\ size <= Len(m[1]))
    <3>1. Len(m[1]) \in Nat /\ Len(m[2]) \in Nat /\ Len(m[3]) \in Nat /\ Len(m[4]) \in Nat
      BY <2>6
    <3>2. CASE s = 1
      <4>1. size = Len(m[1])
        <5>1. ItemsBefore(m, 1) = 0
          BY BeforeIs
        <5> QED
          BY <2>5, <2>13, <3>1, <3>2, <5>1
      <4> QED
        BY <1>2, <2>7, <3>1, <3>2, <4>1
    <3>3. CASE s # 1
      <4>1. size >= Len(m[1])
        <5>1. ItemsBefore(m, 5) = Len(m[1]) + Len(m[2]) + Len(m[3]) + Len(m[4])
          BY BeforeIs
        <5>2. PICK a, b, c, d : a = Len(m[1]) /\ b = Len(m[2]) /\ c = Len(m[3]) /\ d = Len(m[4])
          OBVIOUS
        <5>3. size = a + b + c + d /\ a \in Nat /\ b \in Nat /\ c \in Nat /\ d \in Nat
          BY <2>13, <3>1, <5>1, <5>2
        <5>4. a + b + c + d >= a
          BY <5>3
        <5> QED
          BY <5>2, <5>3, <5>4
      <4>2. more[1] = m[1]
        BY <2>7, <3>3
      <4>3. Len(more[1]) = Len(m[1])
        BY <4>2
      <4>4. ~ (size < Len(more[1]))
        BY <3>1, <4>1, <4>3
      <4>5. asked = FALSE
        BY <1>2, <3>3
      <4>6. (size < Len(more[1])) = FALSE
        BY <4>4
      <4>7. asked = (size < Len(more[1]))
        BY <4>5, <4>6
      <4>8. /\ Len(m[1]) \in Nat /\ Len(more[1]) \in Nat
            /\ Len(more[1]) = Len(m[1]) \/ (size < Len(more[1]) /\ size <= Len(m[1]))
        BY <3>1, <4>3
      <4> QED
        BY <4>7, <4>8
    <3> QED
      BY <3>2, <3>3
  <2>15. LaidOut'
    <3>1. PICK at : Laid(pk.msg, pk.table, sound, m, at)
      BY <1>6, <2>2, <2>10 DEF BuilderInv, LaidOut
    <3>2. IsSeq(ItemsOf(m))
      BY <1>9, <2>2, ItemsAre DEF ItemsGive
    <3>3. \E to : Laid(new.msg, new.table, sound, more, to)
      BY ONLY <1>6, <2>5, <2>11, <2>13, <2>14, <3>1, <3>2, asked \in BOOLEAN, LaidMore
    <3>4. sound = (~tainted)' /\ bld'.msg = new.msg /\ bld'.table = new.table /\ added' = more
      BY <2>1, <2>2, <2>4, <2>10
    <3> QED
      BY <3>3, <3>4 DEF LaidOut
  <2>16. PackedWhole'
    <3> SUFFICES ASSUME bld'.on, ~tainted' PROVE PackedAs(added', PackOf(bld'))
      BY DEF PackedWhole
    <3>1. PICK f : PackSteps(m, f) /\ f[size] = pk
      BY <1>1, <2>1, <2>2, <2>4, <2>13 DEF BuilderInv, PackedWhole, PackedAs
    <3>2. new = PackItem(f[size], size < Len(more[1]), x)
      BY <1>3, <2>14, <3>1
    <3>3. PackedAs(more, new)
      BY ONLY <2>5, <2>13, <2>14, <3>1, <3>2, PackStepsMore
    <3> QED
      BY <2>2, <2>12, <3>3
  <2> QED
    BY <1>5, <1>10, <2>1, <2>2, <2>5, <2>9, <2>12, <2>15, <2>16, <1>9 DEF BuilderInv
<1> QED
  BY <1>11, <1>12

(* A step of the network, of the parser, of updateTTL or of Query.parse.      *)
Reading ==
    \/ \E cut \in Cuts : Deliver(cut)
    \/ ParseQuestion \/ ParseSkipQuestion \/ (\E s \in 2 .. 4 : ParseHeader(s))
    \/ ParseData \/ ParseResource \/ ParseSkip
    \/ (\E a \in Ageings : Age(a))
    \/ ParseQuery

(* The builder is left alone by all that reads.                               *)
LEMMA ReadingKeeps ==
  ASSUME Reading
  PROVE  /\ bld' = bld /\ added' = added /\ tainted' = tainted /\ ops' = ops
         /\ stage' # "build" /\ (stage \in {"finished", "read"}) /\ (stage' = stage \/ stage' \in {"read", "queried"})
<1>1. ASSUME NEW cut \in Cuts, Deliver(cut)
      PROVE  /\ bld' = bld /\ added' = added /\ tainted' = tainted /\ ops' = ops
             /\ stage = "finished" /\ stage' = "read"
  BY <1>1 DEF Deliver
<1>2. ASSUME NEW op, NEW s, NEW r, Call(op, s, r)
      PROVE  bld' = bld /\ added' = added /\ tainted' = tainted /\ ops' = ops /\ stage = "read" /\ stage' = stage
  BY <1>2 DEF Call
<1>3. ASSUME \/ ParseQuestion \/ ParseSkipQuestion \/ (\E s \in 2 .. 4 : ParseHeader(s))
             \/ ParseData \/ ParseResource \/ ParseSkip
      PROVE  \E op, s, r : Call(op, s, r)
  BY <1>3 DEF ParseQuestion, ParseSkipQuestion, ParseHeader, ParseData, ParseResource, ParseSkip
<1>4. ASSUME NEW a \in Ageings, Age(a)
      PROVE  bld' = bld /\ added' = added /\ tainted' = tainted /\ ops' = ops /\ stage = "read" /\ stage' = stage
  BY <1>4 DEF Age
<1>5. ASSUME ParseQuery
      PROVE  bld' = bld /\ added' = added /\ tainted' = tainted /\ ops' = ops /\ stage = "read" /\ stage' = "queried"
  BY <1>5 DEF ParseQuery
<1> QED
  BY <1>1, <1>2, <1>3, <1>4, <1>5 DEF Reading

(* Every step keeps the builder's invariant.                                  *)
LEMMA BuilderNext == BuilderInv /\ [MessageNext]_mvars => BuilderInv'
<1> SUFFICES ASSUME BuilderInv, [MessageNext]_mvars PROVE BuilderInv'
  OBVIOUS
<1>1. /\ bld = [msg |-> bld.msg, section |-> bld.section, counts |-> bld.counts, on |-> bld.on, table |-> bld.table]
      /\ bld.section \in 0 .. 5 /\ stage \in {"build", "finished", "read", "queried"}
      /\ stage = "build" => bld.section \in 0 .. 4
  BY DEF BuilderInv, IsBuilder, Building
<1>2. ASSUME bld' = bld, added' = added, tainted' = tainted, ops' = ops,
             stage' = stage \/ stage' \in {"read", "queried"} PROVE BuilderInv'
  <2>1. bld' = [bld EXCEPT !.section = bld'.section]
    BY <1>1, <1>2
  <2>2. bld'.section \in 0 .. 5 /\ bld'.section >= bld.section /\ (stage' = "build" => stage = "build" /\ bld'.section \in 0 .. 4)
    BY <1>1, <1>2
  <2>3. stage' \in {"build", "finished", "read", "queried"}
    BY <1>1, <1>2
  <2> QED
    BY <1>2, <2>1, <2>2, <2>3, BuilderKept
<1>3. CASE EnableCompression
  BY <1>3, CompressionKept
<1>4. ASSUME NEW s \in MsgSections, StartSection(s) PROVE BuilderInv'
  <2>1. /\ stage = "build" /\ bld.section < s /\ bld' = [bld EXCEPT !.section = s]
        /\ added' = added /\ tainted' = tainted /\ stage' = stage /\ ops' = ops
    BY <1>4 DEF StartSection
  <2>2. bld'.section = s /\ s \in 1 .. 4 /\ bld' = [bld EXCEPT !.section = bld'.section]
    BY <1>1, <2>1 DEF MsgSections
  <2>3. bld'.section \in 0 .. 5 /\ bld'.section >= bld.section /\ bld'.section \in 0 .. 4
    BY <1>1, <2>1, <2>2
  <2> QED
    BY <1>1, <2>1, <2>2, <2>3, BuilderKept
<1>5. CASE (\E name \in MsgQuestions : AddQuestion(name)) \/ (\E r \in MsgRecords : AddResource(r))
  <2>1. MessageNext
    BY <1>5 DEF MessageNext
  <2>2. PICK s, x : Adding(s, x)
    BY <1>5, <2>1, AddingIs
  <2> QED
    BY <2>2, AddingKept
<1>6. CASE Finish
  <2>1. /\ stage = "build" /\ stage' = "finished" /\ bld' = [bld EXCEPT !.section = 5]
        /\ added' = added /\ tainted' = tainted /\ ops' = ops
    BY <1>6 DEF Finish
  <2>2. bld'.section = 5 /\ bld' = [bld EXCEPT !.section = bld'.section] /\ bld'.section \in 0 .. 5
    BY <1>1, <2>1
  <2>3. stage' \in {"build", "finished", "read", "queried"} /\ stage' # "build"
    BY <2>1
  <2> QED
    BY <2>1, <2>2, <2>3, BuilderKept
<1>7. CASE Reading
  BY <1>2, <1>7, ReadingKeeps
<1>8. CASE UNCHANGED mvars
  BY <1>2, <1>8 DEF mvars
<1> QED
  BY <1>3, <1>4, <1>5, <1>6, <1>7, <1>8 DEF MessageNext, Reading

(* It holds in every reachable state.                                         *)
LEMMA BuilderHolds == MessageSpec => []BuilderInv
  BY BuilderInit, BuilderNext, PTL DEF MessageSpec

(* It implies that both ways of packing agree.                                *)
LEMMA PackAgreesHolds == BuilderInv => PackAgrees
<1> SUFFICES ASSUME BuilderInv, bld.on, ~tainted PROVE AppendPack(added).ok /\ AppendPack(added).msg = bld.msg
  BY DEF PackAgrees
<1>1. PICK f : PackSteps(added, f) /\ f[Len(ItemsOf(added))] = PackOf(bld)
  BY DEF BuilderInv, PackedWhole, PackedAs
<1>2. PICK m : m = added
  OBVIOUS
<1>3. IsAdded(m) /\ PackSteps(m, f)
  BY <1>1, <1>2 DEF BuilderInv
<1>4. AppendPack(m) = f[Len(ItemsOf(m))]
  BY <1>3, PackUnique
<1> QED
  BY <1>1, <1>2, <1>4 DEF PackOf

(* Packing whole agrees with packing by calls: the cells AppendPack writes    *)
(* are those of a builder that compresses, whatever records are added and in  *)
(* any number, as long as no call failed after it had changed the compression *)
(* table (Message.AppendPack, Builder).                                       *)
THEOREM WholeAgrees == MessageSpec => []PackAgrees
  BY BuilderHolds, PackAgreesHolds, PTL

------------------------------------------------------------------------------
(* Reading what stands in a message. A copy of it may have lost its end, and  *)
(* the values of the kinds of cells in loose may have changed.                *)
Copy(w, msg, loose) ==
    /\ IsSeq(w) /\ Len(w) \in Nat /\ Len(w) > 0 /\ Len(msg) \in Nat /\ MsgPrefix + Len(w) <= Len(msg)
    /\ \A o \in 0 .. Len(w) - 1 :
           /\ At(w, o)[1] = Cell(msg, o)[1]
           /\ Cell(msg, o)[1] \notin loose => At(w, o) = Cell(msg, o)

(* The kinds of cells updateTTL and nutterECSOption rewrite.                  *)
Loose == {"ttl", "options"}

(* A name is skipped to its end, or to where the message was cut.             *)
LEMMA NameSkipped ==
  ASSUME NEW msg, NEW table, NEW sound, NEW o, NEW name, NEW end, NameIn(msg, table, sound, o, name, end),
         NEW w, NEW loose, Copy(w, msg, loose)
  PROVE  /\ o \in Nat /\ end \in Nat /\ o < end
         /\ SkipName(w, o) = IF end <= Len(w) THEN end ELSE -1
<1>1. PICK k \in Nat : Labelled(msg, table, sound, o, name, k) /\ end = o + k + 1
  BY DEF NameIn
<1>2. o \in Nat /\ end \in Nat /\ o < end
  BY <1>1 DEF Labelled
<1> DEFINE ends == {p \in o .. (Len(w) - 1) : At(w, p)[1] \in {"end", "ptr"}}
<1>3. \A p \in ends : p >= o + k
  <2>1. TAKE p \in ends
  <2>2. ASSUME p < o + k PROVE FALSE
    <3>1. p - o + 1 \in 1 .. k /\ o + (p - o + 1) - 1 = p /\ p \in 0 .. Len(w) - 1
      BY <1>1, <1>2, <2>2 DEF Copy
    <3>2. Cell(msg, o + (p - o + 1) - 1) = <<"label", name[p - o + 1]>>
      BY <1>1, <3>1 DEF Labelled
    <3>3. Cell(msg, p)[1] = "label"
      BY <3>1, <3>2
    <3> QED
      BY <2>1, <3>1, <3>3 DEF Copy
  <2> QED
    BY <1>1, <1>2, <2>2 DEF Copy
<1>4. CASE end <= Len(w)
  <2>1. o + k \in 0 .. Len(w) - 1 /\ o + k \in o .. (Len(w) - 1)
    BY <1>1, <1>2, <1>4 DEF Copy
  <2>2. Cell(msg, o + k)[1] \in {"end", "ptr"}
    BY <1>1 DEF Labelled
  <2>3. At(w, o + k)[1] = Cell(msg, o + k)[1]
    BY <2>1 DEF Copy
  <2>4. o + k \in ends
    BY <2>1, <2>2, <2>3
  <2>5. ends \in SUBSET Nat
    BY <1>2 DEF Copy
  <2>6. SkipName(w, o) = IF ends = {} THEN -1 ELSE Min(ends) + 1
    BY DEF SkipName
  <2> HIDE DEF ends
  <2>7. Min(ends) = o + k
    <3>1. Min(ends) \in ends /\ \A p \in ends : Min(ends) <= p
      BY <2>4, <2>5, MinIs
    <3>2. Min(ends) \in Nat /\ o + k \in Nat /\ Min(ends) >= o + k /\ Min(ends) <= o + k
      BY <1>1, <1>2, <1>3, <2>4, <2>5, <3>1
    <3> QED
      BY <3>2
  <2> QED
    BY <1>1, <1>2, <1>4, <2>4, <2>6, <2>7
<1>5. CASE ~ (end <= Len(w))
  <2>1. ASSUME NEW p \in ends PROVE FALSE
    <3>1. p >= o + k
      BY <1>3
    <3> QED
      BY <1>1, <1>2, <1>5, <3>1 DEF Copy
  <2> QED
    BY <1>2, <1>5, <2>1 DEF SkipName
<1> QED
  BY <1>2, <1>4, <1>5

(* Where the labels at o stop, when k of them stand there.                    *)
StopOf(w, o, k, stop) ==
    IF o + k < Len(w) THEN stop = o + k ELSE stop \in Nat /\ stop >= Len(w)

(* LabelsStop finds it.                                                       *)
LEMMA LabelsStopIs ==
  ASSUME NEW msg, NEW table, NEW sound, NEW o, NEW name, NEW k, Labelled(msg, table, sound, o, name, k),
         NEW w, NEW loose, Copy(w, msg, loose)
  PROVE  StopOf(w, o, k, LabelsStop(w, o))
<1>1. o \in Nat /\ k \in Nat /\ Len(w) \in Nat /\ Len(w) > 0
  <2>1. Len(name) \in Nat
    BY SeqHas DEF Labelled
  <2> QED
    BY <2>1 DEF Labelled, Copy
<1> DEFINE others == {p \in o .. (Len(w) - 1) : At(w, p)[1] # "label"}
<1>2. \A p \in others : p >= o + k
  <2>1. TAKE p \in others
  <2>2. ASSUME p < o + k PROVE FALSE
    <3>1. p - o + 1 \in 1 .. k /\ o + (p - o + 1) - 1 = p /\ p \in 0 .. Len(w) - 1
      BY <1>1, <2>2
    <3>2. Cell(msg, o + (p - o + 1) - 1) = <<"label", name[p - o + 1]>>
      BY <3>1 DEF Labelled
    <3>3. Cell(msg, p)[1] = "label"
      BY <3>1, <3>2
    <3> QED
      BY <2>1, <3>1, <3>3 DEF Copy
  <2> QED
    BY <1>1, <2>2
<1>3. PICK top : top = Max({o, Len(w)})
  OBVIOUS
<1>4. top \in {o, Len(w)} /\ top >= o /\ top >= Len(w)
  <2>1. \E x \in {o, Len(w)} : \A y \in {o, Len(w)} : x >= y
    <3>1. CASE o >= Len(w)
      BY <1>1, <3>1
    <3>2. CASE ~ (o >= Len(w))
      BY <1>1, <3>2
    <3> QED
      BY <3>1, <3>2
  <2> QED
    BY <1>3, <2>1 DEF Max
<1> DEFINE all == others \cup {top}
<1>5. all \in SUBSET Nat /\ all # {} /\ top \in all
  BY <1>1, <1>4
<1>6. LabelsStop(w, o) = Min(all)
  BY <1>3 DEF LabelsStop
<1>7. Min(all) \in all /\ \A p \in all : Min(all) <= p
  <2> HIDE DEF all
  <2> QED
    BY <1>5, MinIs
<1>8. Min(all) \in others \/ Min(all) = top
  BY <1>7
<1>9. CASE o + k < Len(w)
  <2>1. o + k \in 0 .. Len(w) - 1 /\ o + k \in o .. (Len(w) - 1)
    BY <1>1, <1>9
  <2>2. Cell(msg, o + k)[1] # "label"
    BY DEF Labelled
  <2>3. At(w, o + k)[1] = Cell(msg, o + k)[1]
    BY <2>1 DEF Copy
  <2>4. o + k \in others
    BY <2>1, <2>2, <2>3
  <2>5. Min(all) <= o + k /\ Min(all) \in Nat
    BY <1>5, <1>7, <2>4
  <2>6. Min(all) \in others
    BY <1>1, <1>4, <1>8, <1>9, <2>5
  <2>7. Min(all) >= o + k
    BY <1>2, <2>6
  <2>8. Min(all) = o + k
    BY <1>1, <2>5, <2>7
  <2> QED
    BY <1>6, <1>9, <2>8 DEF StopOf
<1>10. CASE ~ (o + k < Len(w))
  <2>1. ASSUME NEW p \in others PROVE FALSE
    <3>1. p >= o + k
      BY <1>2
    <3> QED
      BY <1>1, <1>10, <3>1
  <2>2. Min(all) = top
    BY <1>8, <2>1
  <2> QED
    BY <1>1, <1>4, <1>6, <1>10, <2>2 DEF StopOf
<1> QED
  BY <1>9, <1>10

------------------------------------------------------------------------------
(* Reading a name.                                                            *)

(* The labels at o stop at a cell of that kind.                               *)
StopsAt(w, o, kind) == LabelsStop(w, o) < Len(w) /\ At(w, LabelsStop(w, o))[1] = kind

(* The labels at o.                                                           *)
LabelsAt(w, o) == [i \in 1 .. (LabelsStop(w, o) - o) |-> w[o + i][2]]

(* Following one pointer.                                                     *)
Hop(w, x) ==
    IF x.ok /\ StopsAt(w, x.off, "ptr")
    THEN [ok |-> TRUE, off |-> At(w, LabelsStop(w, x.off))[2], name |-> x.name \o LabelsAt(w, x.off)]
    ELSE [ok |-> FALSE, off |-> 0, name |-> <<>>]

(* Where a name begins to be read.                                            *)
FirstHop(o) == [ok |-> TRUE, off |-> o, name |-> <<>>]

(* The pointers followed from o.                                              *)
HopSteps(w, o, f) == f[0] = FirstHop(o) /\ \A n \in 1 .. MaxHops : f[n] = Hop(w, f[n - 1])

(* The numbers of pointers after which the end of the name is found.          *)
Ended(w, f) == {h \in 0 .. MaxHops : f[h].ok /\ StopsAt(w, f[h].off, "end")}

(* The name those pointers give.                                              *)
NameRead(w, o, f) ==
    [ok |-> Ended(w, f) # {},
     name |-> IF Ended(w, f) = {} THEN <<>> ELSE f[Min(Ended(w, f))].name \o LabelsAt(w, f[Min(Ended(w, f))].off),
     end |-> SkipName(w, o)]

(* UnpackName follows them.                                                   *)
LEMMA UnpackNameUnfolds ==
  ASSUME NEW w, NEW o
  PROVE  \E f : HopSteps(w, o, f) /\ UnpackName(w, o) = NameRead(w, o, f)
<1> DEFINE Step(x, n) == IF x.ok /\ StopsAt(w, x.off, "ptr") THEN [ok |-> TRUE, off |-> At(w, LabelsStop(w, x.off))[2], name |-> x.name \o LabelsAt(w, x.off)] ELSE [ok |-> FALSE, off |-> 0, name |-> <<>>]
           IsDone(d, m) == d = [n \in 0 .. m |-> IF n = 0 THEN FirstHop(o) ELSE Step(d[n - 1], n)]
           Bad == {m \in Nat : ~ \E d : IsDone(d, m)}
<1> HIDE DEF Step
<1>0. MaxHops \in Nat
  BY MessageBounds
<1>1. \A m \in Nat : \E d : IsDone(d, m)
  <2> SUFFICES ASSUME Bad # {} PROVE FALSE
    OBVIOUS
  <2>1. PICK m \in Bad : \A k \in Bad : m <= k
    <3> HIDE DEF Bad
    <3>1. Bad \in SUBSET Nat
      BY DEF Bad
    <3> QED
      BY <3>1, LeastNatural
  <2>2. CASE m = 0
    <3>1. IsDone([n \in 0 .. 0 |-> FirstHop(o)], 0)
      OBVIOUS
    <3> QED
      BY <3>1, <2>2, <2>1
  <2>3. CASE m # 0
    <3>1. m - 1 \in Nat /\ m - 1 \notin Bad
      <4>1. m \in Nat
        BY <2>1
      <4> HIDE DEF Bad
      <4> QED
        BY <2>1, <2>3, <4>1
    <3>2. PICK d : IsDone(d, m - 1)
      BY <3>1
    <3> DEFINE e == [n \in 0 .. m |-> IF n = m THEN Step(d[m - 1], m) ELSE d[n]]
    <3>3. \A n \in 0 .. m : e[n] = IF n = 0 THEN FirstHop(o) ELSE Step(e[n - 1], n)
      <4> TAKE n \in 0 .. m
      <4>1. CASE n = 0
        BY <4>1, <3>1, <3>2
      <4>2. CASE n # 0 /\ n # m
        BY <4>2, <3>1, <3>2
      <4>3. CASE n # 0 /\ n = m
        BY <4>3, <3>1, <3>2
      <4> QED
        BY <4>1, <4>2, <4>3
    <3>4. IsDone(e, m)
      BY <3>3
    <3> QED
      BY <3>4, <2>1
  <2> QED
    BY <2>2, <2>3
<1>2. PICK d : IsDone(d, MaxHops)
  BY <1>0, <1>1
<1> DEFINE f == CHOOSE x : IsDone(x, MaxHops)
<1>3. IsDone(f, MaxHops)
  BY <1>2
<1>4. UnpackName(w, o) = NameRead(w, o, f)
  BY DEF UnpackName, NameRead, Ended, StopsAt, LabelsAt, FirstHop, Step
<1> HIDE DEF f
<1>5. f[0] = FirstHop(o) /\ \A n \in 1 .. MaxHops : f[n] = Step(f[n - 1], n)
  BY <1>0, <1>3
<1> QED
  BY <1>4, <1>5 DEF Step, HopSteps, Hop

(* Reading a name ends where skipping it does.                                *)
LEMMA NameEnd == ASSUME NEW w, NEW o PROVE UnpackName(w, o).end = SkipName(w, o) /\ UnpackName(w, o).ok \in BOOLEAN
<1>1. PICK f : UnpackName(w, o) = NameRead(w, o, f)
  BY UnpackNameUnfolds
<1>2. PICK n, e, s, k : n = NameRead(w, o, f) /\ n = [ok |-> k, name |-> s, end |-> e] /\ e = SkipName(w, o) /\ k = (Ended(w, f) # {})
  BY DEF NameRead
<1> QED
  BY <1>1, <1>2

(* No further pointer is followed once one could not be.                      *)
LEMMA HopsFirst ==
  ASSUME NEW w, NEW o, NEW f, HopSteps(w, o, f), NEW h \in 0 .. MaxHops, f[h].ok, NEW i \in 0 .. h
  PROVE  f[i].ok
<1> DEFINE Bad == {j \in 0 .. MaxHops : j >= i /\ f[j].ok}
<1>1. MaxHops \in Nat
  BY MessageBounds
<1>2. h \in Bad /\ Bad \in SUBSET Nat
  BY <1>1
<1>3. PICK m \in Bad : \A j \in Bad : m <= j
  <2> HIDE DEF Bad
  <2> QED
    BY <1>2, LeastNatural
<1>4. CASE m = i
  BY <1>3, <1>4
<1>5. CASE m # i
  <2>1. m \in 1 .. MaxHops /\ m - 1 \in 0 .. MaxHops /\ m - 1 >= i /\ m - 1 < m
    BY <1>1, <1>3, <1>5
  <2>2. f[m] = Hop(w, f[m - 1]) /\ f[m].ok
    BY <1>3, <2>1 DEF HopSteps
  <2>3. f[m - 1].ok
    BY <2>2 DEF Hop
  <2>4. m - 1 \in Bad
    BY <2>1, <2>3
  <2>5. m <= m - 1
    BY <1>3, <2>4
  <2> QED
    BY <2>1, <2>5
<1> QED
  BY <1>4, <1>5

(* A name that is read ends where it stands.                                  *)
LEMMA NameReadEnds ==
  ASSUME NEW msg, NEW table, NEW sound, NEW o, NEW name, NEW end, NameIn(msg, table, sound, o, name, end),
         NEW w, NEW loose, Copy(w, msg, loose), UnpackName(w, o).ok
  PROVE  end <= Len(w) /\ UnpackName(w, o).end = end
<1>1. PICK f : HopSteps(w, o, f) /\ UnpackName(w, o) = NameRead(w, o, f)
  BY UnpackNameUnfolds
<1>2. PICK k \in Nat : Labelled(msg, table, sound, o, name, k) /\ end = o + k + 1
  BY DEF NameIn
<1>3. PICK h : h \in Ended(w, f)
  <2>1. Ended(w, f) # {}
    <3> SUFFICES ASSUME Ended(w, f) = {} PROVE FALSE
      OBVIOUS
    <3>1. (Ended(w, f) # {}) = FALSE
      OBVIOUS
    <3>2. NameRead(w, o, f).ok = FALSE
      BY <3>1 DEF NameRead
    <3> QED
      BY <1>1, <3>2
  <2> QED
    BY <2>1
<1>4. h \in 0 .. MaxHops /\ f[h].ok /\ StopsAt(w, f[h].off, "end") /\ MaxHops \in Nat
  BY <1>3, MessageBounds DEF Ended
<1>5. f[0] = FirstHop(o)
  BY <1>1 DEF HopSteps
<1>6. f[0].off = o
  BY <1>5 DEF FirstHop
<1>7. LabelsStop(w, o) < Len(w)
  <2>1. CASE h = 0
    BY <1>4, <1>6, <2>1 DEF StopsAt
  <2>2. CASE h # 0
    <3>1. 1 \in 0 .. h /\ 1 \in 1 .. MaxHops
      BY <1>4, <2>2
    <3>2. f[1].ok
      BY <1>1, <1>4, <3>1, HopsFirst
    <3>3. f[1] = Hop(w, f[1 - 1]) /\ 1 - 1 = 0
      BY <1>1, <3>1 DEF HopSteps
    <3>4. StopsAt(w, f[0].off, "ptr")
      BY <3>2, <3>3 DEF Hop
    <3> QED
      BY <1>6, <3>4 DEF StopsAt
  <2> QED
    BY <2>1, <2>2
<1>8. PICK stop : stop = LabelsStop(w, o)
  OBVIOUS
<1>9. StopOf(w, o, k, stop)
  BY <1>2, <1>8, LabelsStopIs
<1>10. o \in Nat /\ Len(w) \in Nat
  BY <1>2 DEF Labelled, Copy
<1>11. o + k < Len(w)
  BY <1>7, <1>8, <1>9, <1>10 DEF StopOf
<1>12. end <= Len(w)
  BY <1>2, <1>10, <1>11
<1>13. SkipName(w, o) = end
  BY <1>12, NameSkipped
<1> QED
  BY <1>12, <1>13, NameEnd

(* The first k labels of a name.                                              *)
LabelsGiven(s, k, labels) == IsSeq(labels) /\ Len(labels) = k /\ \A i \in 1 .. k : labels[i] = s[i]

(* The labels at o are the first k of the name.                               *)
ReadTo(msg, w, o, name, k) ==
    /\ LabelsStop(w, o) = o + k /\ o + k < Len(w) /\ At(w, o + k) = Cell(msg, o + k)
    /\ LabelsGiven(name, k, LabelsAt(w, o))

(* The labels that stand at o are those that are read.                        *)
LEMMA LabelsRead ==
  ASSUME NEW msg, NEW table, NEW sound, NEW o, NEW name, NEW k, Labelled(msg, table, sound, o, name, k),
         NEW w, NEW loose \in SUBSET Loose, Copy(w, msg, loose), LabelsStop(w, o) < Len(w)
  PROVE  ReadTo(msg, w, o, name, k)
<1>1. o \in Nat /\ k \in Nat /\ Len(w) \in Nat /\ Len(name) \in Nat /\ k <= Len(name)
  <2>1. Len(name) \in Nat
    BY SeqHas DEF Labelled
  <2> QED
    BY <2>1 DEF Labelled, Copy
<1>2. PICK stop : stop = LabelsStop(w, o)
  OBVIOUS
<1>3. StopOf(w, o, k, stop)
  BY <1>2, LabelsStopIs
<1>4. stop = o + k /\ o + k < Len(w)
  BY <1>1, <1>2, <1>3 DEF StopOf
<1>5. At(w, o + k) = Cell(msg, o + k)
  <2>1. o + k \in 0 .. Len(w) - 1
    BY <1>1, <1>4
  <2>2. Cell(msg, o + k)[1] \in {"end", "ptr"}
    BY DEF Labelled
  <2>3. Cell(msg, o + k)[1] \notin loose
    BY <2>2 DEF Loose
  <2> QED
    BY <2>1, <2>3 DEF Copy
<1>6. PICK labels : labels = LabelsAt(w, o)
  OBVIOUS
<1>7. labels = [i \in 1 .. k |-> w[o + i][2]]
  <2>1. (o + k) - o = k
    BY <1>1
  <2> QED
    BY <1>2, <1>4, <1>6, <2>1 DEF LabelsAt
<1>8. IsSeq(labels) /\ Len(labels) = k
  <2>1. labels = [i \in 1 .. k |-> labels[i]]
    BY <1>7
  <2> QED
    BY <1>1, <2>1, SeqMade
<1>9. ASSUME NEW i \in 1 .. k PROVE labels[i] = name[i]
  <2>1. o + i - 1 \in 0 .. Len(w) - 1 /\ (o + i - 1) + 1 = o + i
    BY <1>1, <1>4
  <2>2. Cell(msg, o + i - 1) = <<"label", name[i]>>
    BY DEF Labelled
  <2>3. Cell(msg, o + i - 1)[1] \notin loose
    BY <2>2 DEF Loose
  <2>4. At(w, o + i - 1) = <<"label", name[i]>>
    BY <2>1, <2>2, <2>3 DEF Copy
  <2>5. w[o + i] = <<"label", name[i]>>
    BY <2>1, <2>4 DEF At
  <2> QED
    BY <1>7, <2>5
<1>10. LabelsGiven(name, k, labels)
  BY <1>8, <1>9 DEF LabelsGiven
<1> QED
  BY <1>2, <1>4, <1>5, <1>6, <1>10 DEF ReadTo

(* A name read so far: its labels before the i-th one, and where the rest     *)
(* stands, after h pointers.                                                  *)
Way(msg, table, name, x, h, i, k) ==
    /\ i \in 1 .. Len(name) + 1 /\ k \in Nat
    /\ Labelled(msg, table, TRUE, x.off, Suffix(name, i), k)
    /\ x.name = SubSeq(name, 1, i - 1)
    /\ h >= 1 => k > 0 /\ i >= h

(* The elements of a suffix.                                                  *)
LEMMA RestOf ==
  ASSUME NEW name, IsSeq(name), NEW i \in 1 .. Len(name) + 1, NEW s, s = Suffix(name, i)
  PROVE  IsSeq(s) /\ Len(s) = Len(name) - i + 1 /\ \A n \in 1 .. Len(name) - i + 1 : s[n] = name[i + n - 1]
<1>1. PartOf(name, i, Len(name), s)
  BY SuffixIs
<1> QED
  BY <1>1 DEF PartOf

(* The labels before the i-th and the next k are the labels before the (i +   *)
(* k)-th.                                                                     *)
LEMMA LabelsJoin ==
  ASSUME NEW name, IsSeq(name), NEW i \in 1 .. Len(name) + 1, NEW k \in 0 .. Len(name) - i + 1, NEW labels,
         LabelsGiven(Suffix(name, i), k, labels)
  PROVE  SubSeq(name, 1, i - 1) \o labels = SubSeq(name, 1, i + k - 1)
<1>1. Len(name) \in Nat
  BY SeqHas
<1>2. PICK s : s = Suffix(name, i)
  OBVIOUS
<1>3. \A n \in 1 .. Len(name) - i + 1 : s[n] = name[i + n - 1]
  BY <1>2, RestOf
<1>4. IsSeq(labels) /\ Len(labels) = k /\ \A n \in 1 .. k : labels[n] = s[n]
  BY <1>2 DEF LabelsGiven
<1>5. PICK a, b, one, e : a = SubSeq(name, one, i - 1) /\ b = SubSeq(name, one, e) /\ e = i + k - 1 /\ one = 1
  OBVIOUS
<1>6. one \in 1 .. Len(name) + 1 /\ i - 1 \in one - 1 .. Len(name) /\ e \in one - 1 .. Len(name)
  BY <1>1, <1>5
<1>7. PartOf(name, one, i - 1, a)
  BY <1>5, <1>6, PartIs
<1>8. PartOf(name, one, e, b)
  BY <1>5, <1>6, PartIs
<1>9. IsSeq(a) /\ Len(a) = i - 1 /\ \A n \in 1 .. i - 1 : a[n] = name[n]
  <2>1. (i - 1) - one + 1 = i - 1 /\ \A n \in 1 .. i - 1 : one + n - 1 = n
    BY <1>1, <1>5
  <2> QED
    BY <1>7, <2>1 DEF PartOf
<1>10. IsSeq(b) /\ Len(b) = e /\ \A n \in 1 .. e : b[n] = name[n]
  <2>1. e - one + 1 = e /\ \A n \in 1 .. e : one + n - 1 = n
    BY <1>1, <1>5
  <2> QED
    BY <1>8, <2>1 DEF PartOf
<1>11. PICK c : c = a \o labels
  OBVIOUS
<1>12. Joined(a, labels, c)
  BY <1>4, <1>9, <1>11, ConcatIs
<1>13. IsSeq(c) /\ Len(c) = (i - 1) + k
  BY <1>4, <1>9, <1>12 DEF Joined
<1>14. ASSUME NEW n \in 1 .. e PROVE c[n] = b[n]
  <2>1. CASE n <= i - 1
    <3>1. n \in 1 .. i - 1
      BY <1>1, <1>5, <2>1
    <3> QED
      BY <1>9, <1>10, <1>12, <3>1 DEF Joined
  <2>2. CASE ~ (n <= i - 1)
    <3>1. PICK j : j = n - (i - 1)
      OBVIOUS
    <3>2. j \in 1 .. k /\ j \in 1 .. Len(name) - i + 1 /\ (i - 1) + j = n /\ i + j - 1 = n
      BY <1>1, <1>5, <2>2, <3>1
    <3>3. c[(i - 1) + j] = labels[j]
      BY <1>4, <1>9, <1>12, <3>2 DEF Joined
    <3>4. labels[j] = name[i + j - 1]
      BY <1>3, <1>4, <3>2
    <3> QED
      BY <1>10, <3>2, <3>3, <3>4
  <2> QED
    BY <2>1, <2>2
<1>15. Len(c) = Len(b)
  BY <1>1, <1>5, <1>10, <1>13
<1>16. c = b
  BY <1>10, <1>13, <1>14, <1>15, SameSeq
<1> QED
  BY <1>5, <1>11, <1>16

(* All the labels are the name.                                               *)
LEMMA WholePart == ASSUME NEW name, IsSeq(name) PROVE SubSeq(name, 1, Len(name)) = name
<1>1. Len(name) \in Nat
  BY SeqHas
<1>2. PICK one, b : one = 1 /\ b = SubSeq(name, one, Len(name))
  OBVIOUS
<1>3. PartOf(name, one, Len(name), b)
  BY <1>1, <1>2, PartIs
<1>4. IsSeq(b) /\ Len(b) = Len(name) /\ \A n \in 1 .. Len(name) : b[n] = name[n]
  <2>1. Len(name) - one + 1 = Len(name) /\ \A n \in 1 .. Len(name) : one + n - 1 = n
    BY <1>1, <1>2
  <2> QED
    BY <1>3, <2>1 DEF PartOf
<1>5. b = name
  BY <1>4, SameSeq
<1> QED
  BY <1>2, <1>5

(* A pointer leads to where the rest of the name stands with its first label: *)
(* every pointer read takes a label at least, which bounds their number by    *)
(* that of the labels (Name.unpack).                                          *)
LEMMA HopLeads ==
  ASSUME NEW msg, NEW table, TableIn(msg, table), NEW name, IsSeq(name), NEW w, NEW loose \in SUBSET Loose, Copy(w, msg, loose),
         NEW x, NEW h \in Nat, NEW i, NEW k, Way(msg, table, name, x, h, i, k), NEW y, y = Hop(w, x), y.ok
  PROVE  \E j, n : Way(msg, table, name, y, h + 1, j, n) /\ h + 1 <= Len(name)
<1>1. Len(name) \in Nat /\ i \in 1 .. Len(name) + 1 /\ k \in Nat
  BY SeqHas DEF Way
<1>2. PICK s, o, labels : s = Suffix(name, i) /\ o = x.off /\ labels = LabelsAt(w, o)
  OBVIOUS
<1>3. Labelled(msg, table, TRUE, o, s, k)
  BY <1>2 DEF Way
<1>4. StopsAt(w, o, "ptr")
  BY <1>2 DEF Hop
<1>5. y = [ok |-> TRUE, off |-> At(w, LabelsStop(w, o))[2], name |-> x.name \o labels]
  BY <1>2 DEF Hop
<1>6. /\ LabelsStop(w, o) = o + k /\ o + k < Len(w) /\ At(w, o + k) = Cell(msg, o + k)
      /\ LabelsGiven(s, k, labels)
  <2>1. LabelsStop(w, o) < Len(w)
    BY <1>4 DEF StopsAt
  <2>2. ReadTo(msg, w, o, s, k)
    BY <1>3, <2>1, LabelsRead
  <2> QED
    BY <1>2, <2>2 DEF ReadTo
<1>7. Cell(msg, o + k)[1] = "ptr"
  BY <1>4, <1>6 DEF StopsAt
<1>8. IsSeq(s) /\ Len(s) = Len(name) - i + 1
  BY <1>1, <1>2, RestOf
<1>9. k \in 0 .. Len(s) /\ k # Len(s)
  BY <1>3, <1>7 DEF Labelled
<1>10. k < Len(s) /\ k \in 0 .. Len(name) - i + 1 /\ i + k \in 1 .. Len(name)
  BY <1>1, <1>8, <1>9
<1>11. PICK t : t = Suffix(s, k + 1)
  OBVIOUS
<1>12. t \in DOMAIN table /\ Cell(msg, o + k)[2] = table[t]
  BY <1>3, <1>10, <1>11 DEF Labelled
<1>13. t = Suffix(name, i + k)
  <2>1. i \in 1 .. Len(name)
    BY <1>1, <1>10
  <2>2. PICK j : j = k + 1
    OBVIOUS
  <2>3. j \in 1 .. Len(name) - i + 2 /\ i + j - 1 = i + k
    BY <1>1, <1>10, <2>2
  <2>4. Suffix(Suffix(name, i), j) = Suffix(name, i + j - 1)
    BY <2>1, <2>3, SuffixOf
  <2> QED
    BY <1>2, <1>11, <2>2, <2>3, <2>4
<1>14. PICK n \in Nat : n > 0 /\ Labelled(msg, table, TRUE, table[t], t, n)
  BY <1>12 DEF TableIn
<1>15. y.off = table[t] /\ y.name = x.name \o labels
  BY <1>5, <1>6, <1>12
<1>16. y.name = SubSeq(name, 1, (i + k) - 1)
  <2>1. SubSeq(name, 1, i - 1) \o labels = SubSeq(name, 1, i + k - 1)
    BY <1>1, <1>2, <1>6, <1>10, LabelsJoin
  <2>2. x.name = SubSeq(name, 1, i - 1)
    BY DEF Way
  <2>3. PICK p, q : p = SubSeq(name, 1, i - 1) /\ q = SubSeq(name, 1, i + k - 1)
    OBVIOUS
  <2>4. y.name = p \o labels
    BY <1>15, <2>2, <2>3
  <2>5. p \o labels = q
    BY <2>1, <2>3
  <2>6. y.name = q
    BY <2>4, <2>5
  <2>7. (i + k) - 1 = i + k - 1
    BY <1>1
  <2> QED
    BY ONLY <2>3, <2>6, <2>7, Zenon
<1>17. i + k >= h + 1
  <2>1. CASE h = 0
    BY <1>1, <2>1
  <2>2. CASE h # 0
    <3>1. k > 0 /\ i >= h
      BY <2>2 DEF Way
    <3> QED
      BY <1>1, <3>1
  <2> QED
    BY <2>1, <2>2
<1>18. PICK j : j = i + k
  OBVIOUS
<1>19. j \in 1 .. Len(name) + 1 /\ j >= h + 1 /\ h + 1 <= Len(name)
  BY <1>1, <1>10, <1>17, <1>18
<1>20. Way(msg, table, name, y, h + 1, j, n)
  BY <1>13, <1>14, <1>15, <1>16, <1>18, <1>19 DEF Way
<1> QED
  BY <1>19, <1>20

(* Each pointer that is followed leads on the way.                            *)
Ways1(msg, table, name, f) == \A h \in 0 .. MaxHops : f[h].ok => \E i, k : Way(msg, table, name, f[h], h, i, k)

(* They all do.                                                               *)
LEMMA HopsLead ==
  ASSUME NEW msg, NEW table, TableIn(msg, table), NEW name, IsSeq(name), NEW w, NEW loose \in SUBSET Loose, Copy(w, msg, loose),
         NEW o, NEW end, NameIn(msg, table, TRUE, o, name, end), NEW f, HopSteps(w, o, f)
  PROVE  Ways1(msg, table, name, f)
<1>1. MaxHops \in Nat /\ Len(name) \in Nat
  BY MessageBounds, SeqHas
<1> DEFINE Fine(h) == f[h].ok => \E i, k : Way(msg, table, name, f[h], h, i, k)
           Bad == {h \in 0 .. MaxHops : ~ Fine(h)}
<1>2. ASSUME Bad # {} PROVE FALSE
  <2> HIDE DEF Fine
  <2>1. PICK m \in Bad : \A h \in Bad : m <= h
    <3> HIDE DEF Bad
    <3>1. Bad \in SUBSET Nat
      BY <1>1 DEF Bad
    <3> QED
      BY <1>2, <3>1, LeastNatural
  <2>2. CASE m = 0
    <3>1. PICK x, zero, one : x = f[0] /\ zero = 0 /\ one = 1
      OBVIOUS
    <3>2. x.off = o /\ x.name = <<>> /\ x = FirstHop(o)
      BY <3>1 DEF HopSteps, FirstHop
    <3>3. PICK k \in Nat : Labelled(msg, table, TRUE, o, name, k)
      BY DEF NameIn
    <3>4. Suffix(name, one) = name
      BY <3>1, WholePart DEF Suffix
    <3>5. SubSeq(name, 1, one - 1) = <<>>
      <4>1. PICK p : p = SubSeq(name, one, zero)
        OBVIOUS
      <4>2. one \in 1 .. Len(name) + 1 /\ zero \in one - 1 .. Len(name)
        BY <1>1, <3>1
      <4>3. PartOf(name, one, zero, p)
        BY <4>1, <4>2, PartIs
      <4>4. IsSeq(p) /\ Len(p) = 0
        BY <3>1, <4>3 DEF PartOf
      <4>5. p = <<>>
        BY <4>4 DEF IsSeq
      <4>6. one - 1 = zero
        BY <3>1
      <4> QED
        BY ONLY <3>1, <4>1, <4>5, <4>6, Zenon
    <3>6. Way(msg, table, name, x, zero, one, k)
      <4>1. one \in 1 .. Len(name) + 1 /\ k \in Nat /\ ~ (zero >= 1)
        BY <1>1, <3>1, <3>3
      <4>2. Labelled(msg, table, TRUE, x.off, Suffix(name, one), k)
        BY <3>2, <3>3, <3>4
      <4>3. x.name = SubSeq(name, 1, one - 1)
        BY ONLY <3>2, <3>5, Zenon
      <4> QED
        BY ONLY <4>1, <4>2, <4>3, Zenon DEF Way
    <3>7. Fine(0)
      BY <3>1, <3>6 DEF Fine
    <3> QED
      BY <2>1, <2>2, <3>7
  <2>3. CASE m # 0
    <3>1. m \in 1 .. MaxHops /\ m - 1 \in 0 .. MaxHops /\ m - 1 \in Nat /\ m - 1 < m /\ (m - 1) + 1 = m
      BY <1>1, <2>1, <2>3
    <3>2. Fine(m - 1)
      BY <2>1, <3>1
    <3>3. PICK h \in Nat, x \in {f[m - 1]}, y \in {f[m]} : h = m - 1 /\ x = f[m - 1] /\ y = f[m]
      BY <3>1
    <3>4. y = Hop(w, x)
      BY <3>1, <3>3 DEF HopSteps
    <3>5. y.ok
      BY <2>1, <3>3 DEF Fine
    <3>6. x.ok
      BY <3>4, <3>5 DEF Hop
    <3>7. PICK i, k : Way(msg, table, name, x, h, i, k)
      BY <3>2, <3>3, <3>6 DEF Fine
    <3>8. \E j, n : Way(msg, table, name, y, h + 1, j, n) /\ h + 1 <= Len(name)
      BY <3>4, <3>5, <3>7, HopLeads
    <3>9. Fine(m)
      BY <3>1, <3>3, <3>8 DEF Fine
    <3> QED
      BY <2>1, <3>9
  <2> QED
    BY <2>2, <2>3
<1> QED
  BY <1>2 DEF Ways1

(* A name that is read is the one that was packed.                            *)
LEMMA NameReadRight ==
  ASSUME NEW msg, NEW table, TableIn(msg, table), NEW name, IsSeq(name), NEW w, NEW loose \in SUBSET Loose, Copy(w, msg, loose),
         NEW o, NEW end, NameIn(msg, table, TRUE, o, name, end), UnpackName(w, o).ok
  PROVE  UnpackName(w, o).name = name
<1>1. PICK f : HopSteps(w, o, f) /\ UnpackName(w, o) = NameRead(w, o, f)
  BY UnpackNameUnfolds
<1>2. Ended(w, f) # {}
  <2> SUFFICES ASSUME Ended(w, f) = {} PROVE FALSE
    OBVIOUS
  <2>1. (Ended(w, f) # {}) = FALSE
    OBVIOUS
  <2>2. NameRead(w, o, f).ok = FALSE
    BY <2>1 DEF NameRead
  <2> QED
    BY <1>1, <2>2
<1>3. PICK h : h = Min(Ended(w, f))
  OBVIOUS
<1>4. h \in Ended(w, f)
  <2>1. Ended(w, f) \in SUBSET Nat
    BY MessageBounds DEF Ended
  <2> QED
    BY <1>2, <1>3, <2>1, MinIs
<1>5. h \in 0 .. MaxHops /\ f[h].ok /\ StopsAt(w, f[h].off, "end")
  BY <1>4 DEF Ended
<1>6. Ways1(msg, table, name, f)
  BY <1>1, HopsLead
<1>7. PICK i, k : Way(msg, table, name, f[h], h, i, k)
  BY <1>5, <1>6 DEF Ways1
<1>8. PICK x, s, p, labels : x = f[h] /\ s = Suffix(name, i) /\ p = x.off /\ labels = LabelsAt(w, p)
  OBVIOUS
<1>9. Labelled(msg, table, TRUE, p, s, k) /\ i \in 1 .. Len(name) + 1 /\ k \in Nat /\ x.name = SubSeq(name, 1, i - 1) /\ Len(name) \in Nat
  BY <1>7, <1>8, SeqHas DEF Way
<1>10. ReadTo(msg, w, p, s, k)
  <2>1. LabelsStop(w, p) < Len(w)
    BY <1>5, <1>8 DEF StopsAt
  <2> QED
    BY <1>9, <2>1, LabelsRead
<1>11. Cell(msg, p + k)[1] = "end"
  BY <1>5, <1>8, <1>10 DEF ReadTo, StopsAt
<1>12. k = Len(s) /\ k = Len(name) - i + 1
  <2>1. Len(s) = Len(name) - i + 1
    BY <1>8, <1>9, RestOf
  <2>2. k = Len(s)
    BY <1>9, <1>11 DEF Labelled
  <2> QED
    BY <2>1, <2>2
<1>13. x.name \o labels = name
  <2>1. k \in 0 .. Len(name) - i + 1 /\ i + k - 1 = Len(name)
    BY <1>9, <1>12
  <2>2. LabelsGiven(Suffix(name, i), k, labels)
    BY <1>8, <1>10 DEF ReadTo
  <2>3. SubSeq(name, 1, i - 1) \o labels = SubSeq(name, 1, i + k - 1)
    BY <1>9, <2>1, <2>2, LabelsJoin
  <2>4. SubSeq(name, 1, Len(name)) = name
    BY WholePart
  <2>5. SubSeq(name, 1, i - 1) \o labels = name
    BY ONLY <2>1, <2>3, <2>4, Zenon
  <2> QED
    BY ONLY <1>9, <2>5, Zenon
<1>14. NameRead(w, o, f).name = f[h].name \o LabelsAt(w, f[h].off)
  BY <1>2, <1>3 DEF NameRead
<1> QED
  BY ONLY <1>1, <1>8, <1>13, <1>14, Zenon

(* A name that is short enough is read in a message that was not cut.         *)
LEMMA NameReads ==
  ASSUME NEW msg, NEW table, TableIn(msg, table), NEW name, IsSeq(name), NEW w, NEW loose \in SUBSET Loose, Copy(w, msg, loose),
         NEW o, NEW end, NameIn(msg, table, TRUE, o, name, end), MsgPrefix + Len(w) = Len(msg), Len(name) < MaxHops
  PROVE  UnpackName(w, o).ok
<1>1. PICK f : HopSteps(w, o, f) /\ UnpackName(w, o) = NameRead(w, o, f)
  BY UnpackNameUnfolds
<1>2. Ways1(msg, table, name, f)
  BY <1>1, HopsLead
<1>3. MaxHops \in Nat /\ Len(name) \in Nat /\ MsgPrefix \in Nat
  BY MessageBounds, SeqHas
<1> DEFINE Lost == {h \in 0 .. MaxHops : ~f[h].ok}
<1>4. Lost # {}
  <2> SUFFICES ASSUME f[MaxHops].ok PROVE FALSE
    BY <1>3
  <2>1. PICK i, k : Way(msg, table, name, f[MaxHops], MaxHops, i, k)
    BY <1>2, <1>3 DEF Ways1
  <2>2. MaxHops >= 1
    BY <1>3
  <2>3. k > 0 /\ i >= MaxHops /\ i \in 1 .. Len(name) + 1 /\ k \in Nat
    BY <2>1, <2>2 DEF Way
  <2>4. PICK s, p : s = Suffix(name, i) /\ p = f[MaxHops].off
    OBVIOUS
  <2>5. Labelled(msg, table, TRUE, p, s, k)
    BY <2>1, <2>4 DEF Way
  <2>6. IsSeq(s) /\ Len(s) = Len(name) - i + 1
    BY <2>3, <2>4, RestOf
  <2>7. k <= Len(s)
    BY <2>5 DEF Labelled
  <2> QED
    BY <1>3, <2>3, <2>6, <2>7
<1>5. PICK m \in Lost : \A h \in Lost : m <= h
  <2> HIDE DEF Lost
  <2>1. Lost \in SUBSET Nat
    BY <1>3 DEF Lost
  <2> QED
    BY <1>4, <2>1, LeastNatural
<1>6. f[0].ok
  <2>1. FirstHop(o).ok = TRUE
    BY DEF FirstHop
  <2> QED
    BY <1>1, <2>1 DEF HopSteps
<1>7. m \in 1 .. MaxHops /\ m - 1 \in 0 .. MaxHops /\ f[m - 1].ok /\ ~f[m].ok
  <2>1. m # 0
    BY <1>5, <1>6
  <2>2. m \in 1 .. MaxHops /\ m - 1 \in 0 .. MaxHops /\ m - 1 < m
    BY <1>3, <1>5, <2>1
  <2> QED
    BY <1>5, <2>2
<1>8. PICK h, x : h = m - 1 /\ x = f[m - 1] /\ h \in 0 .. MaxHops
  BY <1>7
<1>9. ~StopsAt(w, x.off, "ptr")
  <2> SUFFICES ASSUME StopsAt(w, x.off, "ptr") PROVE FALSE
    OBVIOUS
  <2>1. f[m] = Hop(w, x) /\ x.ok
    BY <1>1, <1>7, <1>8 DEF HopSteps
  <2>2. Hop(w, x).ok = TRUE
    BY <2>1 DEF Hop
  <2> QED
    BY <1>7, <2>1, <2>2
<1>10. PICK i, k : Way(msg, table, name, x, h, i, k)
  BY <1>2, <1>7, <1>8 DEF Ways1
<1>11. PICK s, p : s = Suffix(name, i) /\ p = x.off
  OBVIOUS
<1>12. Labelled(msg, table, TRUE, p, s, k)
  BY <1>10, <1>11 DEF Way
<1>13. p \in Nat /\ k \in Nat /\ Len(w) \in Nat /\ MsgPrefix + p + k + 1 <= Len(msg) /\ Cell(msg, p + k)[1] \in {"end", "ptr"}
  BY <1>10, <1>12 DEF Labelled, Copy, Way
<1>14. p + k < Len(w)
  BY <1>3, <1>13
<1>15. PICK stop : stop = LabelsStop(w, p)
  OBVIOUS
<1>16. stop = p + k
  <2>1. StopOf(w, p, k, stop)
    BY <1>12, <1>15, LabelsStopIs
  <2> QED
    BY <1>14, <2>1 DEF StopOf
<1>17. At(w, stop)[1] = Cell(msg, p + k)[1]
  <2>1. p + k \in 0 .. Len(w) - 1
    BY <1>13, <1>14
  <2> QED
    BY <1>16, <2>1 DEF Copy
<1>18. StopsAt(w, p, "end")
  BY <1>9, <1>11, <1>13, <1>14, <1>15, <1>16, <1>17 DEF StopsAt
<1>19. h \in Ended(w, f)
  BY <1>7, <1>8, <1>11, <1>18 DEF Ended
<1>20. NameRead(w, o, f).ok = TRUE
  <2>1. (Ended(w, f) # {}) = TRUE
    BY <1>19
  <2> QED
    BY <2>1 DEF NameRead
<1> QED
  BY <1>1, <1>20

------------------------------------------------------------------------------
(* Reading a record's fixed fields.                                           *)

(* An end, or -1 when it was cut off.                                         *)
Until(w, end) == IF end <= Len(w) THEN end ELSE -1

(* Skipping a question comes to its end.                                      *)
LEMMA QuestionSkipped ==
  ASSUME NEW msg, NEW table, NEW sound, NEW o, NEW name, NEW end, QuestionIn(msg, table, sound, o, name, end),
         NEW w, NEW loose, Copy(w, msg, loose)
  PROVE  SkipQuestion(w, o) = Until(w, end)
<1>1. PICK l \in Nat : NameIn(msg, table, sound, o, name, l) /\ end = l + 1
  BY DEF QuestionIn
<1>2. SkipName(w, o) = IF l <= Len(w) THEN l ELSE -1
  BY <1>1, NameSkipped
<1>3. Len(w) \in Nat /\ Len(w) > 0
  BY DEF Copy
<1>4. PICK s : s = SkipName(w, o)
  OBVIOUS
<1>5. SkipQuestion(w, o) = IF s = -1 \/ s + 1 > Len(w) THEN -1 ELSE s + 1
  BY <1>4 DEF SkipQuestion
<1>6. CASE l <= Len(w)
  BY <1>1, <1>2, <1>3, <1>4, <1>5, <1>6 DEF Until
<1>7. CASE ~ (l <= Len(w))
  BY <1>1, <1>2, <1>3, <1>4, <1>5, <1>7 DEF Until
<1> QED
  BY <1>6, <1>7

(* What stands before the data of a record, with its name's end at l.         *)
RecordRead(w, msg, o, r, l, end) ==
    /\ o \in Nat /\ l \in Nat /\ end \in Nat /\ Len(w) \in Nat /\ o < l /\ l + 3 <= end
    /\ SkipName(w, o) = Until(w, l) /\ FieldsEnd(w, o) = Until(w, l + 3) /\ SkipResource(w, o) = Until(w, end)
    /\ l + 3 <= Len(w) =>
           /\ At(w, l)[2] = r.type /\ At(w, l + 2)[2] = end - (l + 3) /\ At(w, l + 1)[1] = "ttl"

(* A record stands from o to end, its name to l.                              *)
RecordHere(msg, table, sound, o, r, l, end) ==
    /\ NameIn(msg, table, sound, o, r.name, l)
    /\ Fixed(msg, l, r, end)
    /\ BodyIn(msg, table, sound, l + 3, r, end)

(* The fields of a record are read where they were packed, and it is skipped  *)
(* to its end.                                                                *)
LEMMA RecordReads ==
  ASSUME NEW msg, NEW table, NEW sound, NEW o, NEW r, NEW l \in Nat, NEW end, RecordHere(msg, table, sound, o, r, l, end),
         NEW w, NEW loose \in SUBSET Loose, Copy(w, msg, loose)
  PROVE  RecordRead(w, msg, o, r, l, end)
<1>1. /\ l + 3 <= end /\ end \in Nat /\ MsgPrefix + end <= Len(msg)
      /\ Cell(msg, l) = <<"type", r.type>> /\ Cell(msg, l + 1) = <<"ttl", r.ttl>>
      /\ Cell(msg, l + 2) = <<"len", end - (l + 3)>>
  BY DEF RecordHere, Fixed
<1>2. PICK name : name = r.name
  OBVIOUS
<1>3. NameIn(msg, table, sound, o, name, l)
  BY <1>2 DEF RecordHere
<1>4. o \in Nat /\ o < l /\ SkipName(w, o) = IF l <= Len(w) THEN l ELSE -1
  BY <1>3, NameSkipped
<1>5. Len(w) \in Nat /\ Len(w) > 0
  BY DEF Copy
<1>6. SkipName(w, o) = Until(w, l)
  BY <1>4 DEF Until
<1>7. PICK s : s = SkipName(w, o)
  OBVIOUS
<1>8. FieldsEnd(w, o) = Until(w, l + 3)
  <2>1. FieldsEnd(w, o) = IF s = -1 \/ s + 3 > Len(w) THEN -1 ELSE s + 3
    BY <1>7 DEF FieldsEnd
  <2>2. CASE l <= Len(w)
    BY <1>4, <1>5, <1>7, <2>1, <2>2 DEF Until
  <2>3. CASE ~ (l <= Len(w))
    BY <1>4, <1>5, <1>7, <2>1, <2>3 DEF Until
  <2> QED
    BY <2>2, <2>3
<1>9. ASSUME l + 3 <= Len(w)
      PROVE  At(w, l)[2] = r.type /\ At(w, l + 2)[2] = end - (l + 3) /\ At(w, l + 1)[1] = "ttl"
  <2>1. l \in 0 .. Len(w) - 1 /\ l + 1 \in 0 .. Len(w) - 1 /\ l + 2 \in 0 .. Len(w) - 1
    BY <1>5, <1>9
  <2>2. Cell(msg, l)[1] \notin loose /\ Cell(msg, l + 2)[1] \notin loose
    BY <1>1 DEF Loose
  <2>3. At(w, l) = Cell(msg, l) /\ At(w, l + 2) = Cell(msg, l + 2)
    BY <2>1, <2>2 DEF Copy
  <2>4. At(w, l + 1)[1] = Cell(msg, l + 1)[1]
    BY <2>1 DEF Copy
  <2> QED
    BY <1>1, <2>3, <2>4
<1>10. SkipResource(w, o) = Until(w, end)
  <2>1. PICK f : f = FieldsEnd(w, o)
    OBVIOUS
  <2>2. SkipResource(w, o) = IF f = -1 \/ f + At(w, f - 1)[2] > Len(w) THEN -1 ELSE f + At(w, f - 1)[2]
    BY <2>1 DEF SkipResource
  <2>3. CASE l + 3 <= Len(w)
    <3>1. f = l + 3 /\ f # -1 /\ f - 1 = l + 2
      BY <1>5, <1>8, <2>1, <2>3 DEF Until
    <3>2. At(w, f - 1)[2] = end - (l + 3)
      BY <1>9, <2>3, <3>1
    <3>3. f + At(w, f - 1)[2] = end
      BY <1>1, <3>1, <3>2
    <3> QED
      BY <1>1, <1>5, <2>2, <3>1, <3>3 DEF Until
  <2>4. CASE ~ (l + 3 <= Len(w))
    <3>1. f = -1
      BY <1>8, <2>1, <2>4 DEF Until
    <3>2. ~ (end <= Len(w))
      BY <1>1, <1>5, <2>4
    <3> QED
      BY <2>2, <3>1, <3>2 DEF Until
  <2> QED
    BY <2>3, <2>4
<1> QED
  BY <1>1, <1>4, <1>5, <1>6, <1>8, <1>9, <1>10 DEF RecordRead

(* The header of a record as it is read.                                      *)
HeaderGives(w, o, l, h) ==
    [ok |-> TRUE, name |-> UnpackName(w, o).name, type |-> At(w, l)[2],
     ttl |-> At(w, l + 1)[2], length |-> At(w, l + 2)[2], end |-> l + 3]

(* A header is read when its name is and its fields were not cut off.         *)
LEMMA HeaderReads ==
  ASSUME NEW msg, NEW table, NEW sound, NEW o, NEW r, NEW l \in Nat, NEW end, RecordHere(msg, table, sound, o, r, l, end),
         NEW w, NEW loose \in SUBSET Loose, Copy(w, msg, loose), NEW h, h = UnpackHeader(w, o)
  PROVE  IF UnpackName(w, o).ok /\ l + 3 <= Len(w) THEN h = HeaderGives(w, o, l, h) ELSE h = [ok |-> FALSE]
<1>1. RecordRead(w, msg, o, r, l, end)
  BY RecordReads
<1>2. PICK n : n = UnpackName(w, o)
  OBVIOUS
<1>3. h = IF ~n.ok \/ FieldsEnd(w, o) = -1 THEN [ok |-> FALSE]
          ELSE [ok |-> TRUE, name |-> n.name, type |-> At(w, n.end)[2],
                ttl |-> At(w, n.end + 1)[2], length |-> At(w, n.end + 2)[2], end |-> n.end + 3]
  BY <1>2 DEF UnpackHeader
<1>4. FieldsEnd(w, o) = Until(w, l + 3) /\ Len(w) \in Nat
  BY <1>1 DEF RecordRead
<1>5. CASE n.ok /\ l + 3 <= Len(w)
  <2>1. FieldsEnd(w, o) # -1
    BY <1>4, <1>5 DEF Until
  <2>2. n.end = l
    <3>1. n.end = SkipName(w, o)
      BY <1>2, NameEnd
    <3>2. SkipName(w, o) = Until(w, l) /\ l <= Len(w)
      BY <1>1, <1>4, <1>5 DEF RecordRead
    <3> QED
      BY <3>1, <3>2 DEF Until
  <2> QED
    BY <1>2, <1>3, <1>5, <2>1, <2>2 DEF HeaderGives
<1>6. CASE ~n.ok
  BY <1>2, <1>3, <1>6
<1>7. CASE ~ (l + 3 <= Len(w))
  <2>1. FieldsEnd(w, o) = -1
    BY <1>4, <1>7 DEF Until
  <2> QED
    BY <1>3, <1>7, <2>1
<1> QED
  BY <1>2, <1>5, <1>6, <1>7

------------------------------------------------------------------------------
(* The data of a record.                                                      *)

(* One step of UnpackBody.                                                    *)
FieldRead(w, end, st, kind) ==
    CASE kind = "num" -> IF st.off >= Len(w) THEN [st EXCEPT !.ok = FALSE]
                         ELSE [ok |-> TRUE, off |-> st.off + 1, vals |-> Append(st.vals, At(w, st.off)[2])]
      [] kind \in {"name", "plain"} ->
             LET n == UnpackName(w, st.off) IN
             [ok |-> n.ok, off |-> n.end, vals |-> Append(st.vals, n.name)]
      [] IsList(kind) ->
             IF end > Len(w) THEN [st EXCEPT !.ok = FALSE]
             ELSE [ok |-> TRUE, off |-> end,
                   vals |-> Append(st.vals, [i \in 1 .. (end - st.off) |-> w[st.off + i][2]])]

(* The type of a reading of data.                                             *)
IsReading(st) == st = [ok |-> st.ok, off |-> st.off, vals |-> st.vals] /\ IsSeq(st.vals)

(* The values that are read are those that were packed: the table was right,  *)
(* and no option was blanked.                                                 *)
Valued(msg, table, sound, loose) == sound /\ TableIn(msg, table) /\ "options" \notin loose

(* What reading a field comes to.                                             *)
Reads(w, valued, st, kind, v, e, y) ==
    /\ IsReading(y) /\ y.off = e /\ e <= Len(w)
    /\ \E x : Appended(st.vals, x, y.vals) /\ (valued => x = Listed(kind, v))

(* A field that was read.                                                     *)
LEMMA ReadMade ==
  ASSUME NEW w, NEW valued, NEW st, IsReading(st), NEW kind, NEW v, NEW e, NEW y, NEW x, e <= Len(w),
         y = [ok |-> TRUE, off |-> e, vals |-> Append(st.vals, x)], valued => x = Listed(kind, v)
  PROVE  Reads(w, valued, st, kind, v, e, y)
<1>1. y.off = e /\ y.vals = Append(st.vals, x) /\ y = [ok |-> y.ok, off |-> y.off, vals |-> y.vals]
  OBVIOUS
<1>2. Appended(st.vals, x, y.vals)
  BY <1>1, AppendedIs DEF IsReading
<1>3. IsSeq(y.vals)
  BY <1>2 DEF Appended
<1> QED
  BY <1>1, <1>2, <1>3 DEF Reads, IsReading

(* Reading a name in a record's data.                                         *)
LEMMA NameFieldReads ==
  ASSUME NEW msg, NEW table, NEW sound, NEW o, NEW kind \in {"name", "plain"}, NEW v, IsSeq(v), NEW e,
         FieldIn(msg, table, sound, o, kind, v, e), NEW w, NEW loose \in SUBSET Loose, Copy(w, msg, loose),
         NEW st, IsReading(st), st.off = o, NEW end, NEW y, y = FieldRead(w, end, st, kind), y.ok,
         NEW valued, valued => Valued(msg, table, sound, loose)
  PROVE  Reads(w, valued, st, kind, v, e, y)
<1>1. NameIn(msg, table, sound, o, v, e)
  BY DEF FieldIn
<1>2. PICK n : n = UnpackName(w, o)
  OBVIOUS
<1>3. y = [ok |-> n.ok, off |-> n.end, vals |-> Append(st.vals, n.name)]
  <2>1. kind # "num"
    OBVIOUS
  <2>2. FieldRead(w, end, st, kind) = [ok |-> UnpackName(w, st.off).ok, off |-> UnpackName(w, st.off).end,
                                       vals |-> Append(st.vals, UnpackName(w, st.off).name)]
    BY <2>1 DEF FieldRead, IsList
  <2> QED
    BY <1>2, <2>2, Zenon
<1>4. y.ok = n.ok
  <2>1. PICK b \in BOOLEAN : b = n.ok
    BY <1>2, NameEnd
  <2>2. y = [ok |-> b, off |-> n.end, vals |-> Append(st.vals, n.name)]
    BY <1>3, <2>1, Zenon
  <2>3. y.ok = b
    BY <2>2
  <2> QED
    BY <2>1, <2>3, Zenon
<1>5. e <= Len(w) /\ n.end = e
  BY <1>1, <1>2, <1>4, NameReadEnds
<1>6. valued => n.name = v
  <2> SUFFICES ASSUME valued PROVE n.name = v
    OBVIOUS
  <2>2. NameIn(msg, table, TRUE, o, v, e)
    BY <1>1 DEF Valued, NameIn, Labelled
  <2>3. TableIn(msg, table)
    BY DEF Valued
  <2> QED
    BY <1>2, <1>4, <2>2, <2>3, NameReadRight
<1>7. n.ok = TRUE
  BY <1>2, <1>4, NameEnd
<1>8. y = [ok |-> TRUE, off |-> e, vals |-> Append(st.vals, n.name)]
  BY <1>3, <1>5, <1>7
<1>9. valued => n.name = Listed(kind, v)
  <2>1. Listed(kind, v) = v
    BY DEF Listed
  <2> QED
    BY <1>6, <2>1
<1>10. PICK x : x = n.name
  OBVIOUS
<1> QED
  BY <1>5, <1>8, <1>9, <1>10, ReadMade

(* Reading a number.                                                          *)
LEMMA NumFieldReads ==
  ASSUME NEW msg, NEW table, NEW sound, NEW o, NEW v, NEW e,
         FieldIn(msg, table, sound, o, "num", v, e), NEW w, NEW loose \in SUBSET Loose, Copy(w, msg, loose),
         NEW st, IsReading(st), st.off = o, NEW end, NEW y, y = FieldRead(w, end, st, "num"), y.ok,
         NEW valued
  PROVE  Reads(w, valued, st, "num", v, e, y)
<1>1. o \in Nat /\ e = o + 1 /\ Cell(msg, o) = <<"num", v>> /\ Len(w) \in Nat
  BY DEF FieldIn, Copy
<1>2. y = IF o >= Len(w) THEN [st EXCEPT !.ok = FALSE]
          ELSE [ok |-> TRUE, off |-> o + 1, vals |-> Append(st.vals, At(w, o)[2])]
  <2>1. PICK kind : kind = "num"
    OBVIOUS
  <2>2. FieldRead(w, end, st, kind) =
            IF st.off >= Len(w) THEN [st EXCEPT !.ok = FALSE]
            ELSE [ok |-> TRUE, off |-> st.off + 1, vals |-> Append(st.vals, At(w, st.off)[2])]
    BY <2>1 DEF FieldRead, IsList
  <2> QED
    BY <2>1, <2>2
<1>3. ~ (o >= Len(w))
  <2> SUFFICES ASSUME o >= Len(w) PROVE FALSE
    OBVIOUS
  <2>1. y.ok = FALSE
    BY <1>2 DEF IsReading
  <2> QED
    BY <2>1
<1>4. At(w, o) = <<"num", v>>
  <2>1. o \in 0 .. Len(w) - 1
    BY <1>1, <1>3
  <2>2. Cell(msg, o)[1] \notin loose
    BY <1>1 DEF Loose
  <2> QED
    BY <1>1, <2>1, <2>2 DEF Copy
<1>5. y = [ok |-> TRUE, off |-> e, vals |-> Append(st.vals, v)]
  BY <1>1, <1>2, <1>3, <1>4
<1>6. e <= Len(w)
  BY <1>1, <1>3
<1>7. PICK kind : kind = "num"
  OBVIOUS
<1>8. v = Listed(kind, v)
  BY <1>7 DEF Listed
<1>9. Reads(w, valued, st, kind, v, e, y)
  BY ONLY IsReading(st), <1>5, <1>6, <1>8, ReadMade
<1> QED
  BY <1>7, <1>9

(* Reading a list, which ends where the data do.                              *)
LEMMA ListFieldReads ==
  ASSUME NEW msg, NEW table, NEW sound, NEW o, NEW kind, IsList(kind), NEW v, IsSeq(v), NEW e,
         FieldIn(msg, table, sound, o, kind, v, e), NEW w, NEW loose \in SUBSET Loose, Copy(w, msg, loose),
         NEW st, IsReading(st), st.off = o, NEW y, y = FieldRead(w, e, st, kind), y.ok,
         NEW valued, valued => Valued(msg, table, sound, loose)
  PROVE  Reads(w, valued, st, kind, v, e, y)
<1>1. o \in Nat /\ e \in Nat /\ Len(w) \in Nat /\ ListIn(msg, o, kind, Listed(kind, v), e)
  BY DEF FieldIn, Copy
<1>2. PICK x : x = [i \in 1 .. (e - o) |-> w[o + i][2]]
  OBVIOUS
<1>3. y = IF e > Len(w) THEN [st EXCEPT !.ok = FALSE] ELSE [ok |-> TRUE, off |-> e, vals |-> Append(st.vals, x)]
  <2>1. kind # "num" /\ kind \notin {"name", "plain"}
    BY DEF IsList
  <2> QED
    BY <1>2, <2>1 DEF FieldRead
<1>4. e <= Len(w)
  <2> SUFFICES ASSUME e > Len(w) PROVE FALSE
    BY <1>1
  <2>1. y.ok = FALSE
    BY <1>3 DEF IsReading
  <2> QED
    BY <2>1
<1>5. y = [ok |-> TRUE, off |-> e, vals |-> Append(st.vals, x)]
  BY <1>1, <1>3, <1>4
<1>6. ASSUME valued PROVE x = Listed(kind, v)
  <2>1. PICK items : items = Listed(kind, v)
    OBVIOUS
  <2>2. IsSeq(items) /\ Len(items) \in Nat /\ e = o + Len(items) /\ \A i \in 1 .. Len(items) : Cell(msg, o + i - 1) = <<kind, items[i]>>
    BY <1>1, <2>1, ListedIs DEF ListIn
  <2>3. kind \notin loose
    BY <1>6 DEF Valued, Loose, IsList
  <2>4. ASSUME NEW i \in 1 .. Len(items) PROVE w[o + i][2] = items[i]
    <3>1. o + i - 1 \in 0 .. Len(w) - 1 /\ (o + i - 1) + 1 = o + i
      BY <1>1, <1>4, <2>2
    <3>2. Cell(msg, o + i - 1) = <<kind, items[i]>>
      BY <2>2
    <3>3. Cell(msg, o + i - 1)[1] \notin loose
      BY <2>3, <3>2
    <3>4. At(w, o + i - 1) = <<kind, items[i]>>
      BY <3>1, <3>2, <3>3 DEF Copy
    <3>5. w[o + i] = <<kind, items[i]>>
      BY <3>1, <3>4 DEF At
    <3> QED
      BY <3>5
  <2>5. e - o = Len(items)
    BY <1>1, <2>2
  <2>6. x = [i \in 1 .. Len(items) |-> x[i]] /\ \A i \in 1 .. Len(items) : x[i] = items[i]
    BY <1>2, <2>4, <2>5
  <2>7. IsSeq(x) /\ Len(x) = Len(items)
    BY <2>2, <2>6, SeqMade
  <2>8. x = items
    BY <2>2, <2>6, <2>7, SameSeq
  <2> QED
    BY <2>1, <2>8
<1> QED
  BY <1>4, <1>5, <1>6, ReadMade

(* Where data begin to be read.                                               *)
ReadFirst(o) == [ok |-> TRUE, off |-> o, vals |-> <<>>]

(* The steps of UnpackBody.                                                   *)
ReadSteps(w, o, type, end, f) ==
    /\ f[0] = ReadFirst(o)
    /\ \A n \in 1 .. Len(Data(type)) : f[n] = IF f[n - 1].ok THEN FieldRead(w, end, f[n - 1], Data(type)[n]) ELSE f[n - 1]

(* UnpackBody is the last of them.                                            *)
LEMMA UnpackBodyUnfolds ==
  ASSUME NEW w, NEW o, NEW type, NEW length
  PROVE  \E f : ReadSteps(w, o, type, o + length, f) /\ UnpackBody(w, o, type, length) = f[Len(Data(type))]
<1> DEFINE Step(x, n) == IF x.ok THEN FieldRead(w, o + length, x, Data(type)[n]) ELSE x
           IsDone(d, m) == d = [n \in 0 .. m |-> IF n = 0 THEN ReadFirst(o) ELSE Step(d[n - 1], n)]
           Bad == {m \in Nat : ~ \E d : IsDone(d, m)}
<1> HIDE DEF Step
<1>0. Len(Data(type)) \in Nat
  BY DataIs
<1>1. \A m \in Nat : \E d : IsDone(d, m)
  <2> SUFFICES ASSUME Bad # {} PROVE FALSE
    OBVIOUS
  <2>1. PICK m \in Bad : \A k \in Bad : m <= k
    <3> HIDE DEF Bad
    <3>1. Bad \in SUBSET Nat
      BY DEF Bad
    <3> QED
      BY <3>1, LeastNatural
  <2>2. CASE m = 0
    <3>1. IsDone([n \in 0 .. 0 |-> ReadFirst(o)], 0)
      OBVIOUS
    <3> QED
      BY <3>1, <2>2, <2>1
  <2>3. CASE m # 0
    <3>1. m - 1 \in Nat /\ m - 1 \notin Bad
      <4>1. m \in Nat
        BY <2>1
      <4> HIDE DEF Bad
      <4> QED
        BY <2>1, <2>3, <4>1
    <3>2. PICK d : IsDone(d, m - 1)
      BY <3>1
    <3> DEFINE e == [n \in 0 .. m |-> IF n = m THEN Step(d[m - 1], m) ELSE d[n]]
    <3>3. \A n \in 0 .. m : e[n] = IF n = 0 THEN ReadFirst(o) ELSE Step(e[n - 1], n)
      <4> TAKE n \in 0 .. m
      <4>1. CASE n = 0
        BY <4>1, <3>1, <3>2
      <4>2. CASE n # 0 /\ n # m
        BY <4>2, <3>1, <3>2
      <4>3. CASE n # 0 /\ n = m
        BY <4>3, <3>1, <3>2
      <4> QED
        BY <4>1, <4>2, <4>3
    <3>4. IsDone(e, m)
      BY <3>3
    <3> QED
      BY <3>4, <2>1
  <2> QED
    BY <2>2, <2>3
<1>2. PICK d : IsDone(d, Len(Data(type)))
  BY <1>0, <1>1
<1> DEFINE f == CHOOSE x : IsDone(x, Len(Data(type)))
<1>3. IsDone(f, Len(Data(type)))
  BY <1>2
<1>4. UnpackBody(w, o, type, length) = f[Len(Data(type))]
  BY DEF UnpackBody, ReadFirst, FieldRead, Step
<1> HIDE DEF f
<1>5. f[0] = ReadFirst(o) /\ \A n \in 1 .. Len(Data(type)) : f[n] = Step(f[n - 1], n)
  BY <1>0, <1>3
<1> QED
  BY <1>4, <1>5 DEF Step, ReadSteps

(* What a reading of the first n fields has come to.                          *)
ReadSo(w, valued, r, at, n, x) ==
    x.ok =>
        /\ IsReading(x) /\ x.off = at[n] /\ (n > 0 => at[n] <= Len(w))
        /\ Len(x.vals) = n
        /\ valued => \A i \in 1 .. n : x.vals[i] = Listed(Data(r.type)[i], r.body[i])

(* Nothing was read yet.                                                      *)
LEMMA FirstReadSo ==
  ASSUME NEW w, NEW valued, NEW r, NEW o, NEW at, at[0] = o
  PROVE  ReadSo(w, valued, r, at, 0, ReadFirst(o))
<1>1. PICK x : x = ReadFirst(o)
  OBVIOUS
<1>2. x = [ok |-> TRUE, off |-> o, vals |-> <<>>]
  BY <1>1 DEF ReadFirst
<1>3. x.off = o /\ x.vals = <<>> /\ x = [ok |-> x.ok, off |-> x.off, vals |-> x.vals]
  BY <1>2
<1>4. IsSeq(x.vals) /\ Len(x.vals) = 0
  <2>1. <<>> \in Seq({})
    OBVIOUS
  <2> QED
    BY <1>3, <2>1, SeqIs
<1>5. ReadSo(w, valued, r, at, 0, x)
  BY <1>3, <1>4 DEF ReadSo, IsReading
<1> QED
  BY <1>1, <1>5

(* One field more.                                                            *)
LEMMA NextReadSo ==
  ASSUME NEW msg, NEW table, NEW sound, NEW r, Record(r), NEW at, NEW n \in 1 .. Len(Data(r.type)),
         FieldIn(msg, table, sound, at[n - 1], Data(r.type)[n], r.body[n], at[n]),
         NEW end, end = at[Len(Data(r.type))],
         NEW w, NEW loose \in SUBSET Loose, Copy(w, msg, loose), NEW valued, valued => Valued(msg, table, sound, loose),
         NEW x, ReadSo(w, valued, r, at, n - 1, x),
         NEW y, y = IF x.ok THEN FieldRead(w, end, x, Data(r.type)[n]) ELSE x
  PROVE  ReadSo(w, valued, r, at, n, y)
<1> SUFFICES ASSUME y.ok PROVE ReadSo(w, valued, r, at, n, y)
  BY DEF ReadSo
<1>1. x.ok /\ y = FieldRead(w, end, x, Data(r.type)[n])
  <2>1. CASE x.ok
    BY <2>1
  <2>2. CASE ~x.ok
    BY <2>2
  <2> QED
    BY <2>1, <2>2
<1>2. IsReading(x) /\ x.off = at[n - 1] /\ Len(x.vals) = n - 1
  BY <1>1 DEF ReadSo
<1>3. PICK kind, v, o, e : kind = Data(r.type)[n] /\ v = r.body[n] /\ o = at[n - 1] /\ e = at[n]
  OBVIOUS
<1>4. kind \in Kinds /\ (IsList(kind) => n = Len(Data(r.type))) /\ Field(kind, v)
  BY <1>3, DataIs DEF Record
<1>5. FieldIn(msg, table, sound, o, kind, v, e) /\ y = FieldRead(w, end, x, kind) /\ x.off = o
  BY <1>1, <1>2, <1>3
<1>6. Reads(w, valued, x, kind, v, e, y)
  <2>1. CASE kind \in {"name", "plain"}
    <3>1. IsSeq(v)
      BY <1>4, <2>1 DEF Field
    <3> QED
      BY <1>2, <1>5, <2>1, <3>1, NameFieldReads
  <2>2. CASE kind = "num"
    BY <1>2, <1>5, <2>2, NumFieldReads
  <2>3. CASE IsList(kind)
    <3>1. IsSeq(v) /\ e = end
      BY <1>3, <1>4, <2>3 DEF Field, IsList
    <3>2. y = FieldRead(w, e, x, kind)
      BY <1>5, <3>1
    <3> QED
      BY <1>2, <1>5, <2>3, <3>1, <3>2, ListFieldReads
  <2> QED
    BY <1>4, <2>1, <2>2, <2>3 DEF Kinds, IsList
<1>7. PICK z : IsReading(y) /\ y.off = e /\ e <= Len(w) /\ Appended(x.vals, z, y.vals) /\ (valued => z = Listed(kind, v))
  BY <1>6 DEF Reads
<1>8. Len(y.vals) = n /\ y.vals[n] = z /\ \A i \in 1 .. n - 1 : y.vals[i] = x.vals[i]
  BY <1>2, <1>7 DEF Appended
<1>9. ASSUME valued, NEW i \in 1 .. n PROVE y.vals[i] = Listed(Data(r.type)[i], r.body[i])
  <2>1. CASE i = n
    BY <1>3, <1>7, <1>8, <1>9, <2>1
  <2>2. CASE i # n
    <3>1. i \in 1 .. n - 1
      BY <2>2
    <3>2. x.vals[i] = Listed(Data(r.type)[i], r.body[i])
      BY <1>1, <1>9, <3>1 DEF ReadSo
    <3> QED
      BY <1>8, <3>1, <3>2
  <2> QED
    BY <2>1, <2>2
<1> QED
  BY <1>3, <1>7, <1>8, <1>9 DEF ReadSo

(* Data that were read.                                                       *)
BodyRead(w, valued, r, end, y) == y.ok => end <= Len(w) /\ (valued => y.vals = Read(r))

(* All the fields, one by one.                                                *)
LEMMA BodyStepsRead ==
  ASSUME NEW msg, NEW table, NEW sound, NEW r, Record(r), NEW at,
         \A i \in 1 .. Len(Data(r.type)) : FieldIn(msg, table, sound, at[i - 1], Data(r.type)[i], r.body[i], at[i]),
         NEW end, end = at[Len(Data(r.type))],
         NEW w, NEW loose \in SUBSET Loose, Copy(w, msg, loose), NEW valued, valued => Valued(msg, table, sound, loose),
         NEW f, ReadSteps(w, at[0], r.type, end, f)
  PROVE  \A n \in 0 .. Len(Data(r.type)) : ReadSo(w, valued, r, at, n, f[n])
<1> DEFINE Bad == {n \in 0 .. Len(Data(r.type)) : ~ ReadSo(w, valued, r, at, n, f[n])}
<1>0. Len(Data(r.type)) \in Nat
  BY DataIs
<1> SUFFICES ASSUME Bad # {} PROVE FALSE
  OBVIOUS
<1>1. Bad \in SUBSET Nat
  BY <1>0
<1>2. PICK n \in Bad : \A k \in Bad : n <= k
  <2> HIDE DEF Bad
  <2> QED
    BY <1>1, LeastNatural
<1>3. n \in 0 .. Len(Data(r.type)) /\ ~ ReadSo(w, valued, r, at, n, f[n])
  OBVIOUS
<1>4. n # 0
  <2> SUFFICES ASSUME n = 0 PROVE FALSE
    OBVIOUS
  <2>1. PICK o : o = at[0]
    OBVIOUS
  <2>2. ReadSo(w, valued, r, at, 0, ReadFirst(o))
    BY ONLY <2>1, FirstReadSo
  <2>3. f[0] = ReadFirst(o)
    BY <2>1 DEF ReadSteps
  <2> QED
    BY <1>3, <2>2, <2>3
<1>5. n \in 1 .. Len(Data(r.type)) /\ n - 1 \in 0 .. Len(Data(r.type))
  BY <1>0, <1>3, <1>4
<1>6. n - 1 \notin Bad
  <2> HIDE DEF Bad
  <2>1. n \in Nat /\ ~ (n <= n - 1)
    BY <1>0, <1>5
  <2> QED
    BY <1>2, <2>1
<1>7. ReadSo(w, valued, r, at, n - 1, f[n - 1])
  BY <1>5, <1>6
<1>8. FieldIn(msg, table, sound, at[n - 1], Data(r.type)[n], r.body[n], at[n])
  BY <1>5
<1>9. PICK x, y : x = f[n - 1] /\ y = f[n]
  OBVIOUS
<1>10. y = IF x.ok THEN FieldRead(w, end, x, Data(r.type)[n]) ELSE x
  BY <1>5, <1>9 DEF ReadSteps
<1>11. ReadSo(w, valued, r, at, n - 1, x)
  BY <1>7, <1>9
<1> HIDE DEF Bad
<1>12. ReadSo(w, valued, r, at, n, y)
  BY <1>5, <1>8, <1>10, <1>11, NextReadSo
<1> QED
  BY <1>3, <1>9, <1>12

(* The values of all fields are what a reader is to get.                      *)
LEMMA ReadIs ==
  ASSUME NEW r \in MsgRecords, NEW vals, IsSeq(vals), Len(vals) = Len(Data(r.type)),
         \A i \in 1 .. Len(Data(r.type)) : vals[i] = Listed(Data(r.type)[i], r.body[i])
  PROVE  vals = Read(r)
<1>1. PICK size \in Nat : size = Len(Data(r.type))
  BY DataIs
<1>2. Len(r.body) = size
  BY <1>1, MessageAssumption
<1>3. PICK read : read = Read(r)
  OBVIOUS
<1>4. read = [i \in 1 .. size |-> Listed(Data(r.type)[i], r.body[i])]
  BY <1>2, <1>3 DEF Read, Listed
<1>5. vals = [i \in 1 .. size |-> vals[i]]
  BY <1>1, SeqHas
<1> QED
  BY <1>1, <1>3, <1>4, <1>5

(* Data that are read are those that were packed.                             *)
LEMMA BodyReads ==
  ASSUME NEW msg, NEW table, NEW sound, NEW r \in MsgRecords, NEW o, NEW end, BodyIn(msg, table, sound, o, r, end),
         NEW w, NEW loose \in SUBSET Loose, Copy(w, msg, loose), NEW valued, valued => Valued(msg, table, sound, loose),
         NEW length, o + length = end, NEW y, y = UnpackBody(w, o, r.type, length)
  PROVE  BodyRead(w, valued, r, end, y)
<1>1. PICK at : /\ at[0] = o /\ at[Len(Data(r.type))] = end
                /\ \A i \in 1 .. Len(Data(r.type)) : FieldIn(msg, table, sound, at[i - 1], Data(r.type)[i], r.body[i], at[i])
  BY DEF BodyIn
<1>2. PICK type : type = r.type
  OBVIOUS
<1>3. PICK f : ReadSteps(w, o, type, o + length, f) /\ UnpackBody(w, o, type, length) = f[Len(Data(type))]
  BY UnpackBodyUnfolds
<1>4. ReadSteps(w, at[0], r.type, end, f) /\ y = f[Len(Data(r.type))]
  BY <1>1, <1>2, <1>3
<1>5. Record(r)
  BY RecordOk
<1>6. \A n \in 0 .. Len(Data(r.type)) : ReadSo(w, valued, r, at, n, f[n])
  BY <1>1, <1>4, <1>5, BodyStepsRead
<1>7. PICK size \in 1 .. 3 : size = Len(Data(r.type))
  BY <1>2, DataIs
<1>8. ReadSo(w, valued, r, at, size, y)
  BY <1>4, <1>6, <1>7
<1> SUFFICES ASSUME y.ok PROVE end <= Len(w) /\ (valued => y.vals = Read(r))
  BY DEF BodyRead
<1>13. size > 0
  BY <1>7
<1>9. IsReading(y) /\ at[size] <= Len(w) /\ Len(y.vals) = size
      /\ (valued => \A i \in 1 .. size : y.vals[i] = Listed(Data(r.type)[i], r.body[i]))
  BY <1>8, <1>13 DEF ReadSo
<1>10. PICK vals : vals = y.vals
  OBVIOUS
<1>11. IsSeq(vals)
  BY <1>9, <1>10 DEF IsReading
<1>12. ASSUME valued PROVE vals = Read(r)
  BY <1>7, <1>9, <1>10, <1>11, <1>12, ReadIs
<1> QED
  BY <1>1, <1>7, <1>9, <1>10, <1>12

(* Nothing was lost, and no name needs too many pointers.                     *)
Whole(w, msg) == MsgPrefix + Len(w) = Len(msg)

(* No name in a record's data needs more pointers than are followed.          *)
ShortNames(r) == \A i \in 1 .. Len(Data(r.type)) : Data(r.type)[i] \in {"name", "plain"} => Len(r.body[i]) < MaxHops

(* In a message that was not cut, such a field is read.                       *)
LEMMA NextReadsWhole ==
  ASSUME NEW msg, NEW table, TableIn(msg, table), NEW r, Record(r), ShortNames(r), NEW at, NEW n \in 1 .. Len(Data(r.type)),
         FieldIn(msg, table, TRUE, at[n - 1], Data(r.type)[n], r.body[n], at[n]),
         NEW end, end = at[Len(Data(r.type))],
         NEW w, NEW loose \in SUBSET Loose, Copy(w, msg, loose), Whole(w, msg),
         NEW x, ReadSo(w, FALSE, r, at, n - 1, x), x.ok,
         NEW y, y = FieldRead(w, end, x, Data(r.type)[n])
  PROVE  y.ok
<1>2. IsReading(x) /\ x.off = at[n - 1]
  BY DEF ReadSo
<1>3. PICK kind, v, o, e : kind = Data(r.type)[n] /\ v = r.body[n] /\ o = at[n - 1] /\ e = at[n]
  OBVIOUS
<1>4. kind \in Kinds /\ (IsList(kind) => n = Len(Data(r.type))) /\ Field(kind, v)
  BY <1>3, DataIs DEF Record
<1>5. FieldIn(msg, table, TRUE, o, kind, v, e) /\ y = FieldRead(w, end, x, kind) /\ x.off = o
  BY <1>2, <1>3
<1>6. Len(w) \in Nat /\ MsgPrefix \in Nat /\ MsgPrefix + Len(w) = Len(msg) /\ o \in Nat /\ e \in Nat
  BY <1>5, MessageBounds DEF Copy, Whole, FieldIn
<1>7. CASE kind \in {"name", "plain"}
  <2>1. IsSeq(v) /\ NameIn(msg, table, TRUE, o, v, e)
    BY <1>4, <1>5, <1>7 DEF Field, FieldIn
  <2>2. Len(v) < MaxHops
    BY <1>3, <1>7 DEF ShortNames
  <2>3. UnpackName(w, o).ok
    BY <1>6, <2>1, <2>2, NameReads
  <2>4. PICK m : m = UnpackName(w, o)
    OBVIOUS
  <2>5. y = [ok |-> m.ok, off |-> m.end, vals |-> Append(x.vals, m.name)]
    <3>1. kind # "num"
      BY <1>7
    <3>2. FieldRead(w, end, x, kind) = [ok |-> UnpackName(w, x.off).ok, off |-> UnpackName(w, x.off).end,
                                       vals |-> Append(x.vals, UnpackName(w, x.off).name)]
      BY <1>7, <3>1 DEF FieldRead, IsList
    <3> QED
      BY <1>5, <2>4, <3>2, Zenon
  <2>6. PICK b \in BOOLEAN : b = m.ok
    BY <2>4, NameEnd
  <2>7. y = [ok |-> b, off |-> m.end, vals |-> Append(x.vals, m.name)]
    BY <2>5, <2>6, Zenon
  <2>8. y.ok = b
    BY <2>7
  <2>9. b
    BY <2>3, <2>4, <2>6, Zenon
  <2> QED
    BY <2>8, <2>9
<1>8. CASE kind = "num"
  <2>1. FieldRead(w, end, x, kind) =
            IF x.off >= Len(w) THEN [x EXCEPT !.ok = FALSE]
            ELSE [ok |-> TRUE, off |-> x.off + 1, vals |-> Append(x.vals, At(w, x.off)[2])]
    BY <1>8 DEF FieldRead, IsList
  <2>2. e = o + 1 /\ MsgPrefix + e <= Len(msg)
    BY <1>5, <1>8 DEF FieldIn
  <2>3. ~ (o >= Len(w))
    BY <1>6, <2>2
  <2>4. y = [ok |-> TRUE, off |-> o + 1, vals |-> Append(x.vals, At(w, o)[2])]
    BY <1>5, <2>1, <2>3
  <2> QED
    BY <2>4
<1>9. CASE IsList(kind)
  <2>1. kind # "num" /\ kind \notin {"name", "plain"}
    BY <1>9 DEF IsList
  <2>2. ListIn(msg, o, kind, Listed(kind, v), e) /\ e = end
    BY <1>3, <1>4, <1>5, <1>9 DEF FieldIn
  <2>3. MsgPrefix + end <= Len(msg)
    BY <2>2 DEF ListIn
  <2>4. ~ (end > Len(w))
    BY <1>6, <2>2, <2>3
  <2>5. y = [ok |-> TRUE, off |-> end, vals |-> Append(x.vals, [i \in 1 .. (end - x.off) |-> w[x.off + i][2]])]
    BY <1>5, <1>9, <2>1, <2>4 DEF FieldRead
  <2> QED
    BY <2>5
<1> QED
  BY <1>4, <1>7, <1>8, <1>9 DEF Kinds, IsList

(* So are the data.                                                           *)
LEMMA BodyReadsWhole ==
  ASSUME NEW msg, NEW table, TableIn(msg, table), NEW r \in MsgRecords, ShortNames(r), NEW o, NEW end,
         BodyIn(msg, table, TRUE, o, r, end),
         NEW w, NEW loose \in SUBSET Loose, Copy(w, msg, loose), Whole(w, msg),
         NEW length, o + length = end, NEW y, y = UnpackBody(w, o, r.type, length)
  PROVE  y.ok
<1>1. PICK at : /\ at[0] = o /\ at[Len(Data(r.type))] = end
                /\ \A i \in 1 .. Len(Data(r.type)) : FieldIn(msg, table, TRUE, at[i - 1], Data(r.type)[i], r.body[i], at[i])
  BY DEF BodyIn
<1>2. PICK type : type = r.type
  OBVIOUS
<1>3. PICK f : ReadSteps(w, o, type, o + length, f) /\ UnpackBody(w, o, type, length) = f[Len(Data(type))]
  BY UnpackBodyUnfolds
<1>4. ReadSteps(w, at[0], r.type, end, f) /\ y = f[Len(Data(r.type))]
  BY <1>1, <1>2, <1>3
<1>5. Record(r)
  BY RecordOk
<1>6. PICK valued : valued = FALSE
  OBVIOUS
<1>7. valued => Valued(msg, table, TRUE, loose)
  BY <1>6
<1>8. PICK sound : sound = TRUE
  OBVIOUS
<1>9. \A i \in 1 .. Len(Data(r.type)) : FieldIn(msg, table, sound, at[i - 1], Data(r.type)[i], r.body[i], at[i])
  BY <1>1, <1>8
<1>10. valued => Valued(msg, table, sound, loose)
  BY <1>6
<1>11. \A n \in 0 .. Len(Data(r.type)) : ReadSo(w, valued, r, at, n, f[n])
  BY <1>1, <1>4, <1>5, <1>9, <1>10, BodyStepsRead
<1>12. PICK size \in Nat : size = Len(Data(r.type))
  BY DataIs
<1> DEFINE Bad == {n \in 0 .. size : ~ f[n].ok}
<1>13. Bad = {}
  <2> SUFFICES ASSUME Bad # {} PROVE FALSE
    OBVIOUS
  <2>1. Bad \in SUBSET Nat
    OBVIOUS
  <2>2. PICK n \in Bad : \A k \in Bad : n <= k
    <3> HIDE DEF Bad
    <3> QED
      BY <2>1, LeastNatural
  <2>3. n \in 0 .. size /\ ~ f[n].ok
    OBVIOUS
  <2>4. n # 0
    <3> SUFFICES ASSUME n = 0 PROVE FALSE
      OBVIOUS
    <3>1. f[0].ok
      BY <1>4 DEF ReadSteps, ReadFirst
    <3> QED
      BY <2>3, <3>1
  <2>5. n \in 1 .. size /\ n - 1 \in 0 .. size
    BY <2>3, <2>4
  <2>6. n - 1 \notin Bad
    <3> HIDE DEF Bad
    <3>1. n \in Nat /\ ~ (n <= n - 1)
      BY <2>5
    <3> QED
      BY <2>2, <3>1
  <2>7. PICK x, y1 : x = f[n - 1] /\ y1 = f[n]
    OBVIOUS
  <2>8. x.ok
    BY <2>5, <2>6, <2>7
  <2>9. y1 = FieldRead(w, end, x, Data(r.type)[n])
    BY <1>4, <1>12, <2>5, <2>7, <2>8 DEF ReadSteps
  <2>10. ReadSo(w, FALSE, r, at, n - 1, x)
    BY <1>6, <1>11, <1>12, <2>5, <2>7
  <2>11. FieldIn(msg, table, TRUE, at[n - 1], Data(r.type)[n], r.body[n], at[n]) /\ n \in 1 .. Len(Data(r.type))
    BY <1>1, <1>12, <2>5
  <2> HIDE DEF Bad
  <2>12. y1.ok
    BY <1>1, <1>5, <2>8, <2>9, <2>10, <2>11, NextReadsWhole
  <2> QED
    BY <2>3, <2>7, <2>12
<1> QED
  BY <1>4, <1>12, <1>13

(* The steps of Questions.                                                    *)
QuestionSteps(w, f) ==
    /\ f[0] = 1
    /\ \A n \in 1 .. MaxCount : f[n] = IF f[n - 1] = -1 THEN -1 ELSE SkipQuestion(w, f[n - 1])

(* Questions is one of them.                                                  *)
LEMMA QuestionsUnfolds ==
  ASSUME NEW w
  PROVE  \E f : QuestionSteps(w, f) /\ Questions(w) = f[bld.counts[1]]
<1> DEFINE Step(x, n) == IF x = -1 THEN -1 ELSE SkipQuestion(w, x)
           IsDone(d, m) == d = [n \in 0 .. m |-> IF n = 0 THEN 1 ELSE Step(d[n - 1], n)]
           Bad == {m \in Nat : ~ \E d : IsDone(d, m)}
<1> HIDE DEF Step
<1>0. MaxCount \in Nat
  BY MessageBounds
<1>1. \A m \in Nat : \E d : IsDone(d, m)
  <2> SUFFICES ASSUME Bad # {} PROVE FALSE
    OBVIOUS
  <2>1. PICK m \in Bad : \A k \in Bad : m <= k
    <3> HIDE DEF Bad
    <3>1. Bad \in SUBSET Nat
      BY DEF Bad
    <3> QED
      BY <3>1, LeastNatural
  <2>2. CASE m = 0
    <3>1. IsDone([n \in 0 .. 0 |-> 1], 0)
      OBVIOUS
    <3> QED
      BY <3>1, <2>2, <2>1
  <2>3. CASE m # 0
    <3>1. m - 1 \in Nat /\ m - 1 \notin Bad
      <4>1. m \in Nat
        BY <2>1
      <4> HIDE DEF Bad
      <4> QED
        BY <2>1, <2>3, <4>1
    <3>2. PICK d : IsDone(d, m - 1)
      BY <3>1
    <3> DEFINE e == [n \in 0 .. m |-> IF n = m THEN Step(d[m - 1], m) ELSE d[n]]
    <3>3. \A n \in 0 .. m : e[n] = IF n = 0 THEN 1 ELSE Step(e[n - 1], n)
      <4> TAKE n \in 0 .. m
      <4>1. CASE n = 0
        BY <4>1, <3>1, <3>2
      <4>2. CASE n # 0 /\ n # m
        BY <4>2, <3>1, <3>2
      <4>3. CASE n # 0 /\ n = m
        BY <4>3, <3>1, <3>2
      <4> QED
        BY <4>1, <4>2, <4>3
    <3>4. IsDone(e, m)
      BY <3>3
    <3> QED
      BY <3>4, <2>1
  <2> QED
    BY <2>2, <2>3
<1>2. PICK d : IsDone(d, MaxCount)
  BY <1>0, <1>1
<1> DEFINE f == CHOOSE x : IsDone(x, MaxCount)
<1>3. IsDone(f, MaxCount)
  BY <1>2
<1>4. Questions(w) = f[bld.counts[1]]
  BY DEF Questions, Step
<1> HIDE DEF f
<1>5. f[0] = 1 /\ \A n \in 1 .. MaxCount : f[n] = Step(f[n - 1], n)
  BY <1>0, <1>3
<1> QED
  BY <1>4, <1>5 DEF Step, QuestionSteps

(* The steps of SkipSections.                                                 *)
SkipSteps(w, from, f) ==
    /\ f[0] = from
    /\ \A n \in 1 .. (2 * MaxCount) : f[n] = IF f[n - 1] = -1 THEN -1 ELSE SkipResource(w, f[n - 1])

(* SkipSections is one of them.                                               *)
LEMMA SkipSectionsUnfolds ==
  ASSUME NEW w, NEW from
  PROVE  \E f : SkipSteps(w, from, f) /\ SkipSections(w, from) = f[bld.counts[2] + bld.counts[3]]
<1> DEFINE Step(x, n) == IF x = -1 THEN -1 ELSE SkipResource(w, x)
           IsDone(d, m) == d = [n \in 0 .. m |-> IF n = 0 THEN from ELSE Step(d[n - 1], n)]
           Bad == {m \in Nat : ~ \E d : IsDone(d, m)}
<1> HIDE DEF Step
<1>0. (2 * MaxCount) \in Nat
  BY MessageBounds
<1>1. \A m \in Nat : \E d : IsDone(d, m)
  <2> SUFFICES ASSUME Bad # {} PROVE FALSE
    OBVIOUS
  <2>1. PICK m \in Bad : \A k \in Bad : m <= k
    <3> HIDE DEF Bad
    <3>1. Bad \in SUBSET Nat
      BY DEF Bad
    <3> QED
      BY <3>1, LeastNatural
  <2>2. CASE m = 0
    <3>1. IsDone([n \in 0 .. 0 |-> from], 0)
      OBVIOUS
    <3> QED
      BY <3>1, <2>2, <2>1
  <2>3. CASE m # 0
    <3>1. m - 1 \in Nat /\ m - 1 \notin Bad
      <4>1. m \in Nat
        BY <2>1
      <4> HIDE DEF Bad
      <4> QED
        BY <2>1, <2>3, <4>1
    <3>2. PICK d : IsDone(d, m - 1)
      BY <3>1
    <3> DEFINE e == [n \in 0 .. m |-> IF n = m THEN Step(d[m - 1], m) ELSE d[n]]
    <3>3. \A n \in 0 .. m : e[n] = IF n = 0 THEN from ELSE Step(e[n - 1], n)
      <4> TAKE n \in 0 .. m
      <4>1. CASE n = 0
        BY <4>1, <3>1, <3>2
      <4>2. CASE n # 0 /\ n # m
        BY <4>2, <3>1, <3>2
      <4>3. CASE n # 0 /\ n = m
        BY <4>3, <3>1, <3>2
      <4> QED
        BY <4>1, <4>2, <4>3
    <3>4. IsDone(e, m)
      BY <3>3
    <3> QED
      BY <3>4, <2>1
  <2> QED
    BY <2>2, <2>3
<1>2. PICK d : IsDone(d, (2 * MaxCount))
  BY <1>0, <1>1
<1> DEFINE f == CHOOSE x : IsDone(x, (2 * MaxCount))
<1>3. IsDone(f, (2 * MaxCount))
  BY <1>2
<1>4. SkipSections(w, from) = f[bld.counts[2] + bld.counts[3]]
  BY DEF SkipSections, Step
<1> HIDE DEF f
<1>5. f[0] = from /\ \A n \in 1 .. (2 * MaxCount) : f[n] = Step(f[n - 1], n)
  BY <1>0, <1>3
<1> QED
  BY <1>4, <1>5 DEF Step, SkipSteps

(* What skips the items that end at at[q + 1], at[q + 2]... stops where the   *)
(* message was cut.                                                           *)
Skipping(w, f, at, q, size) ==
    /\ f[0] = Until(w, at[q])
    /\ \A i \in 0 .. size : at[q + i] \in Nat
    /\ \A i \in 1 .. size :
           /\ at[q + (i - 1)] <= at[q + i]
           /\ f[i - 1] = -1 => f[i] = -1
           /\ f[i - 1] = at[q + (i - 1)] => f[i] = Until(w, at[q + i])

(* Skipping item by item comes to the end of each, or to where the message    *)
(* was cut.                                                                   *)
LEMMA SkipsAlong ==
  ASSUME NEW w, Len(w) \in Nat, NEW f, NEW at, NEW q \in Nat, NEW size \in Nat, Skipping(w, f, at, q, size)
  PROVE  \A i \in 0 .. size : f[i] = Until(w, at[q + i])
<1> DEFINE Bad == {i \in 0 .. size : f[i] # Until(w, at[q + i])}
<1> SUFFICES ASSUME Bad # {} PROVE FALSE
  OBVIOUS
<1>1. Bad \in SUBSET Nat
  OBVIOUS
<1>2. PICK n \in Bad : \A k \in Bad : n <= k
  <2> HIDE DEF Bad
  <2> QED
    BY <1>1, LeastNatural
<1>3. n \in 0 .. size /\ f[n] # Until(w, at[q + n])
  OBVIOUS
<1>0. /\ f[0] = Until(w, at[q])
      /\ \A i \in 0 .. size : at[q + i] \in Nat
      /\ \A i \in 1 .. size :
             /\ at[q + (i - 1)] <= at[q + i]
             /\ f[i - 1] = -1 => f[i] = -1
             /\ f[i - 1] = at[q + (i - 1)] => f[i] = Until(w, at[q + i])
  BY DEF Skipping
<1>4. n # 0
  <2> SUFFICES ASSUME n = 0 PROVE FALSE
    OBVIOUS
  <2>1. q + n = q
    OBVIOUS
  <2> QED
    BY <1>0, <1>3, <2>1
<1>5. n \in 1 .. size /\ n - 1 \in 0 .. size
  BY <1>3, <1>4
<1>6. n - 1 \notin Bad
  <2> HIDE DEF Bad
  <2>1. n \in Nat /\ ~ (n <= n - 1)
    BY <1>5
  <2> QED
    BY <1>2, <2>1
<1>7. f[n - 1] = Until(w, at[q + (n - 1)])
  BY <1>5, <1>6
<1>8. PICK a, b \in Nat : a = at[q + (n - 1)] /\ b = at[q + n] /\ a <= b
  BY <1>0, <1>5
<1>9. CASE a <= Len(w)
  BY <1>0, <1>3, <1>5, <1>7, <1>8, <1>9 DEF Until
<1>10. CASE ~ (a <= Len(w))
  <2>1. f[n] = -1
    BY <1>0, <1>5, <1>7, <1>8, <1>10 DEF Until
  <2>2. Until(w, b) = -1
    BY <1>8, <1>10 DEF Until
  <2> QED
    BY <1>3, <1>8, <2>1, <2>2
<1> QED
  BY <1>9, <1>10

(* The i-th item of section s, where it stands.                               *)
ItemAt(msg, table, sound, m, at, s, i, n) ==
    /\ n \in 1 .. Len(ItemsOf(m)) /\ at[n - 1] \in Nat /\ at[n] \in Nat /\ at[n - 1] <= at[n]
    /\ s = 1 => QuestionIn(msg, table, sound, at[n - 1], m[1][i], at[n])
    /\ s # 1 => RecordIn(msg, table, sound, at[n - 1], m[s][i], at[n])

(* Laid gives each item of each section its place.                            *)
LEMMA ItemIsAt ==
  ASSUME NEW m, IsAdded(m), NEW msg, NEW table, NEW sound, NEW at, Laid(msg, table, sound, m, at),
         NEW s \in 1 .. 4, NEW i \in 1 .. Len(m[s]), NEW n, n = ItemsBefore(m, s) + i
  PROVE  ItemAt(msg, table, sound, m, at, s, i, n)
<1>1. PICK a, b, c, d \in Nat : a = Len(m[1]) /\ b = Len(m[2]) /\ c = Len(m[3]) /\ d = Len(m[4])
  BY LensAre
<1>2. PICK size \in Nat : size = Len(ItemsOf(m)) /\ size = ItemsBefore(m, 5) /\ InSection(m, s, ItemsOf(m))
  <2>1. Len(ItemsOf(m)) = ItemsBefore(m, 5) /\ InSection(m, s, ItemsOf(m))
    BY ItemsAre DEF ItemsGive
  <2>2. ItemsBefore(m, 5) \in Nat
    <3>1. ItemsBefore(m, 5) = Len(m[1]) + Len(m[2]) + Len(m[3]) + Len(m[4])
      BY BeforeIs
    <3>2. ItemsBefore(m, 5) = a + b + c + d
      BY <1>1, <3>1
    <3> QED
      BY <3>2
  <2> QED
    BY <2>1, <2>2
<1>3. ItemsBefore(m, 1) = 0 /\ ItemsBefore(m, 2) = a /\ ItemsBefore(m, 3) = a + b /\ ItemsBefore(m, 4) = a + b + c /\ size = a + b + c + d
  BY <1>1, <1>2, BeforeIs
<1>4. n \in 1 .. size /\ (s = 1 <=> n <= a)
  <2>1. CASE s = 1
    <3>1. i \in 1 .. a /\ n = 0 + i
      BY <1>1, <1>3, <2>1
    <3> QED
      BY <1>3, <2>1, <3>1
  <2>2. CASE s = 2
    <3>1. i \in 1 .. b /\ n = a + i
      BY <1>1, <1>3, <2>2
    <3> QED
      BY <1>3, <2>2, <3>1
  <2>3. CASE s = 3
    <3>1. i \in 1 .. c /\ n = a + b + i
      BY <1>1, <1>3, <2>3
    <3> QED
      BY <1>3, <2>3, <3>1
  <2>4. CASE s = 4
    <3>1. i \in 1 .. d /\ n = a + b + c + i
      BY <1>1, <1>3, <2>4
    <3> QED
      BY <1>3, <2>4, <3>1
  <2> QED
    BY <2>1, <2>2, <2>3, <2>4
<1>5. ItemsOf(m)[n] = m[s][i]
  BY <1>2 DEF InSection
<1>6. n - 1 \in 0 .. size /\ n \in 0 .. size /\ n - 1 \in 0 .. n
  BY <1>4
<1>7. at[n - 1] \in Nat /\ at[n] \in Nat /\ at[n - 1] <= at[n]
  BY <1>2, <1>6 DEF Laid
<1>8. ItemIn(msg, table, sound, n <= Len(m[1]), at[n - 1], ItemsOf(m)[n], at[n])
  BY <1>2, <1>4 DEF Laid
<1>9. CASE s = 1
  <2>1. (n <= Len(m[1])) = TRUE
    BY <1>1, <1>4, <1>9
  <2>2. ItemIn(msg, table, sound, TRUE, at[n - 1], m[1][i], at[n])
    BY <1>5, <1>8, <1>9, <2>1
  <2>3. QuestionIn(msg, table, sound, at[n - 1], m[1][i], at[n])
    BY <2>2 DEF ItemIn
  <2> QED
    BY <1>2, <1>4, <1>7, <1>9, <2>3 DEF ItemAt
<1>10. CASE s # 1
  <2>1. (n <= Len(m[1])) = FALSE
    BY <1>1, <1>4, <1>10
  <2>2. ItemIn(msg, table, sound, FALSE, at[n - 1], m[s][i], at[n])
    BY <1>5, <1>8, <1>10, <2>1
  <2>3. RecordIn(msg, table, sound, at[n - 1], m[s][i], at[n])
    BY <2>2 DEF ItemIn
  <2> QED
    BY <1>2, <1>4, <1>7, <1>10, <2>3 DEF ItemAt
<1> QED
  BY <1>9, <1>10

(* A section is skipped item by item.                                         *)
Counted == \A s \in 1 .. 4 : bld.counts[s] = Len(added[s]) /\ bld.counts[s] \in 0 .. MaxCount

(* The counts are the lengths of the sections.                                *)
LEMMA CountsAre == ASSUME BuilderInv PROVE Counted
<1>1. IsAdded(added) /\ bld.counts = [s \in MsgSections |-> Len(added[s])] /\ \A s \in MsgSections : Len(added[s]) <= MaxCount
  BY DEF BuilderInv, IsBuilder
<1>2. \A s \in 1 .. 4 : Len(added[s]) \in Nat
  <2>1. Len(added[1]) \in Nat /\ Len(added[2]) \in Nat /\ Len(added[3]) \in Nat /\ Len(added[4]) \in Nat
    BY <1>1, LensAre
  <2> QED
    BY <2>1
<1>3. MaxCount \in Nat
  BY MessageBounds
<1>4. ASSUME NEW s \in 1 .. 4 PROVE bld.counts[s] = Len(added[s]) /\ bld.counts[s] \in 0 .. MaxCount
  BY <1>1, <1>2, <1>3 DEF MsgSections
<1> QED
  BY <1>4 DEF Counted

(* Skipping the questions comes to the first record.                          *)
LEMMA QuestionsSkipped ==
  ASSUME Counted, IsAdded(added), NEW msg, NEW table, NEW sound, NEW at, Laid(msg, table, sound, added, at),
         NEW w, NEW loose \in SUBSET Loose, Copy(w, msg, loose)
  PROVE  Questions(w) = Until(w, at[ItemsBefore(added, 2)])
<1>1. PICK f : QuestionSteps(w, f) /\ Questions(w) = f[bld.counts[1]]
  BY QuestionsUnfolds
<1>2. PICK size \in Nat : size = Len(added[1]) /\ size <= MaxCount /\ bld.counts[1] = size
  <2>1. bld.counts[1] = Len(added[1]) /\ bld.counts[1] \in 0 .. MaxCount
    BY DEF Counted
  <2> QED
    BY <2>1, MessageBounds
<1>3. ItemsBefore(added, 2) = size /\ ItemsBefore(added, 1) = 0
  BY <1>2, BeforeIs
<1>4. at[0] = 1 /\ Len(w) \in Nat /\ Len(w) > 0
  BY DEF Laid, Copy
<1>5. f[0] = Until(w, at[0])
  BY <1>1, <1>4 DEF Until, QuestionSteps
<1>6. ASSUME NEW i \in 1 .. size
      PROVE  /\ at[i - 1] \in Nat /\ at[i] \in Nat /\ at[i - 1] <= at[i]
             /\ f[i - 1] = -1 => f[i] = -1
             /\ f[i - 1] = at[i - 1] => f[i] = Until(w, at[i])
  <2>1. ItemAt(msg, table, sound, added, at, 1, i, i)
    <3>1. PICK s \in 1 .. 4 : s = 1
      OBVIOUS
    <3>2. i \in 1 .. Len(added[s]) /\ i = ItemsBefore(added, s) + i
      BY <1>2, <1>3, <3>1
    <3>3. ItemAt(msg, table, sound, added, at, s, i, i)
      BY <3>2, ItemIsAt
    <3> QED
      BY <3>1, <3>3
  <2>2. PICK name, o, e : name = added[1][i] /\ o = at[i - 1] /\ e = at[i]
    OBVIOUS
  <2>3. QuestionIn(msg, table, sound, o, name, e) /\ o \in Nat /\ e \in Nat /\ o <= e
    BY <2>1, <2>2 DEF ItemAt
  <2>4. SkipQuestion(w, o) = Until(w, e)
    BY <2>3, QuestionSkipped
  <2>5. f[i] = IF f[i - 1] = -1 THEN -1 ELSE SkipQuestion(w, f[i - 1])
    <3>1. i \in 1 .. MaxCount
      BY <1>2, MessageBounds
    <3> QED
      BY <1>1, <3>1 DEF QuestionSteps
  <2> QED
    BY <2>2, <2>3, <2>4, <2>5
<1>7. PICK q \in Nat : q = 0
  OBVIOUS
<1>8. \A i \in 0 .. size : q + i = i
  BY <1>7
<1>9. ASSUME NEW i \in 0 .. size PROVE at[q + i] \in Nat
  <2>1. CASE i = 0
    BY <1>4, <1>8, <2>1
  <2>2. CASE i # 0
    <3>1. i \in 1 .. size
      BY <2>2
    <3> QED
      BY <1>6, <1>8, <3>1
  <2> QED
    BY <2>1, <2>2
<1>10. ASSUME NEW i \in 1 .. size
       PROVE  /\ at[q + (i - 1)] <= at[q + i]
              /\ f[i - 1] = -1 => f[i] = -1
              /\ f[i - 1] = at[q + (i - 1)] => f[i] = Until(w, at[q + i])
  <2>1. q + (i - 1) = i - 1 /\ q + i = i
    BY <1>7
  <2> QED
    BY <1>6, <2>1
<1>11. f[0] = Until(w, at[q])
  BY <1>5, <1>7
<1>12. \A i \in 0 .. size : f[i] = Until(w, at[q + i])
  <2>1. \A i \in 1 .. size :
                              /\ at[q + (i - 1)] <= at[q + i]
                              /\ f[i - 1] = -1 => f[i] = -1
                              /\ f[i - 1] = at[q + (i - 1)] => f[i] = Until(w, at[q + i])
    BY <1>10
  <2>2. \A i \in 0 .. size : at[q + i] \in Nat
    BY <1>9
  <2>3. Len(w) \in Nat
    BY <1>4
  <2> QED
    <3>1. Skipping(w, f, at, q, size)
      BY <1>11, <2>1, <2>2 DEF Skipping
    <3> QED
      BY <2>3, <3>1, SkipsAlong
<1>13. f[size] = Until(w, at[q + size]) /\ q + size = size
  BY <1>7, <1>12
<1> QED
  BY <1>1, <1>2, <1>3, <1>13

(* Skipping the answers and authorities comes to the first additional.        *)
LEMMA RecordsSkipped ==
  ASSUME Counted, IsAdded(added), NEW msg, NEW table, NEW sound, NEW at, Laid(msg, table, sound, added, at),
         NEW w, NEW loose \in SUBSET Loose, Copy(w, msg, loose),
         NEW from, from = Until(w, at[ItemsBefore(added, 2)])
  PROVE  SkipSections(w, from) = Until(w, at[ItemsBefore(added, 4)])
<1>1. PICK f : SkipSteps(w, from, f) /\ SkipSections(w, from) = f[bld.counts[2] + bld.counts[3]]
  BY SkipSectionsUnfolds
<1>2. PICK q, b, c \in Nat : q = Len(added[1]) /\ b = Len(added[2]) /\ c = Len(added[3])
  BY LensAre
<1>3. bld.counts[2] = b /\ bld.counts[3] = c /\ b <= MaxCount /\ c <= MaxCount
  BY <1>2, MessageBounds DEF Counted
<1>4. ItemsBefore(added, 2) = q /\ ItemsBefore(added, 3) = q + b /\ ItemsBefore(added, 4) = q + b + c
  BY <1>2, BeforeIs
<1>5. PICK size \in Nat : size = b + c /\ size <= 2 * MaxCount /\ bld.counts[2] + bld.counts[3] = size /\ ItemsBefore(added, 4) = q + size
  BY <1>3, <1>4, MessageBounds
<1>6. Len(w) \in Nat
  BY DEF Copy
<1>7. ASSUME NEW i \in 1 .. size
      PROVE  /\ at[q + (i - 1)] \in Nat /\ at[q + i] \in Nat
             /\ at[q + (i - 1)] <= at[q + i]
             /\ f[i - 1] = -1 => f[i] = -1
             /\ f[i - 1] = at[q + (i - 1)] => f[i] = Until(w, at[q + i])
  <2>1. PICK s \in 2 .. 3, k \in Nat : k \in 1 .. Len(added[s]) /\ q + i = ItemsBefore(added, s) + k
    <3>1. CASE i <= b
      <4>1. i \in 1 .. Len(added[2]) /\ q + i = ItemsBefore(added, 2) + i
        <5>1. i \in Nat /\ i \in 1 .. b /\ q + i = q + i
          BY <1>5, <3>1
        <5> QED
          BY <1>2, <1>4, <5>1
      <4>2. i \in Nat /\ 2 \in 2 .. 3
        OBVIOUS
      <4> QED
        BY <4>1, <4>2
    <3>2. CASE ~ (i <= b)
      <4>1. PICK k : k = i - b
        OBVIOUS
      <4>2. k \in Nat /\ k \in 1 .. c /\ q + i = (q + b) + k
        BY <1>5, <3>2, <4>1
      <4>3. k \in 1 .. Len(added[3]) /\ q + i = ItemsBefore(added, 3) + k
        BY <1>2, <1>4, <4>2
      <4>4. 3 \in 2 .. 3
        OBVIOUS
      <4> QED
        BY <4>2, <4>3, <4>4
    <3> QED
      BY <3>1, <3>2
  <2>2. PICK n \in Nat : n = q + i
    OBVIOUS
  <2>3. ItemAt(msg, table, sound, added, at, s, k, n)
    BY <2>1, <2>2, ItemIsAt
  <2>4. PICK r, o, e : r = added[s][k] /\ o = at[n - 1] /\ e = at[n]
    OBVIOUS
  <2>5. RecordIn(msg, table, sound, o, r, e) /\ o \in Nat /\ e \in Nat /\ o <= e
    BY <2>1, <2>3, <2>4 DEF ItemAt
  <2>6. PICK l \in Nat : RecordHere(msg, table, sound, o, r, l, e)
    BY <2>5 DEF RecordIn, RecordHere
  <2>7. SkipResource(w, o) = Until(w, e)
    BY <2>6, RecordReads DEF RecordRead
  <2>8. f[i] = IF f[i - 1] = -1 THEN -1 ELSE SkipResource(w, f[i - 1])
    <3>1. i \in 1 .. (2 * MaxCount)
      BY <1>5, MessageBounds
    <3> QED
      BY <1>1, <3>1 DEF SkipSteps
  <2>9. q + (i - 1) = n - 1
    BY <2>2
  <2>10. at[q + (i - 1)] = o /\ at[q + i] = e
    BY <2>2, <2>4, <2>9
  <2> QED
    BY <2>5, <2>7, <2>8, <2>10
<1>8. ASSUME NEW i \in 0 .. size PROVE at[q + i] \in Nat
  <2>1. q + i \in 0 .. Len(ItemsOf(added))
    <3>1. PICK d \in Nat : d = Len(added[4])
      BY LensAre
    <3>2. Len(ItemsOf(added)) = q + b + c + d
      BY <1>2, <3>1, ItemsAre, BeforeIs DEF ItemsGive
    <3> QED
      BY <1>5, <3>2
  <2> QED
    BY <2>1 DEF Laid
<1>9. f[0] = Until(w, at[q])
  BY <1>1, <1>4 DEF SkipSteps
<1>10. \A i \in 0 .. size : f[i] = Until(w, at[q + i])
  <2>1. \A i \in 1 .. size :
                              /\ at[q + (i - 1)] <= at[q + i]
                              /\ f[i - 1] = -1 => f[i] = -1
                              /\ f[i - 1] = at[q + (i - 1)] => f[i] = Until(w, at[q + i])
    BY <1>7
  <2>2. \A i \in 0 .. size : at[q + i] \in Nat
    BY <1>8
  <2> QED
    <3>1. Skipping(w, f, at, q, size)
      BY <1>9, <2>1, <2>2 DEF Skipping
    <3> QED
      BY <1>6, <3>1, SkipsAlong
<1>11. f[size] = Until(w, at[q + size])
  BY <1>10
<1> QED
  BY <1>1, <1>5, <1>11

------------------------------------------------------------------------------
(* The parser, call by call.                                                  *)

(* A message that was received, and perhaps aged, and what its parser         *)
(* stands at.                                                                 *)
Received(at) ==
    /\ Laid(bld.msg, bld.table, ~tainted, added, at) /\ IsAdded(added) /\ Counted
    /\ tainted \in BOOLEAN /\ (~tainted => TableIn(bld.msg, bld.table))
    /\ Copy(wire, bld.msg, {"ttl"})

(* The number of an item of a section among all.                              *)
Item(s, i) == ItemsBefore(added, s) + i

(* The i-th record of section s stands where Laid says.                       *)
RecordOf(at, s, i, l) == RecordHere(bld.msg, bld.table, ~tainted, at[Item(s, i) - 1], added[s][i], l, at[Item(s, i)])

(* The type of a parser.                                                      *)
IsParser(p) ==
    /\ p = [sec |-> p.sec, index |-> p.index, off |-> p.off, valid |-> p.valid, hoff |-> p.hoff,
            htype |-> p.htype, hlen |-> p.hlen]
    /\ p.sec \in 1 .. 5 /\ p.index \in 0 .. MaxCount /\ p.valid \in BOOLEAN /\ p.off \in 1 .. Len(wire)

(* A parser that has read a header: it stands at the data.                    *)
Pending(at, p) ==
    /\ p.sec \in 2 .. 4 /\ p.index < Len(added[p.sec])
    /\ p.hoff = at[Item(p.sec, p.index + 1) - 1]
    /\ \E l \in Nat :
          /\ RecordOf(at, p.sec, p.index + 1, l) /\ p.off = l + 3
          /\ p.htype = added[p.sec][p.index + 1].type /\ p.off + p.hlen = at[Item(p.sec, p.index + 1)]

(* A parser between two records, or with a header pending.                    *)
Standing(at, p) ==
    /\ IsParser(p)
    /\ p.index <= IF p.sec = 5 THEN 0 ELSE Len(added[p.sec])
    /\ IF p.valid THEN Pending(at, p) ELSE p.off = at[Item(p.sec, p.index)]

(* The items of the message that was received.                                *)
LEMMA ItemIs ==
  ASSUME NEW at, Received(at), NEW s \in 1 .. 4, NEW i \in 1 .. Len(added[s])
  PROVE  ItemAt(bld.msg, bld.table, ~tainted, added, at, s, i, Item(s, i))
BY ItemIsAt DEF Received, Item

(* Where they stand is within the message that was built.                     *)
LEMMA ItemPlaces ==
  ASSUME NEW at, Received(at), NEW s \in 1 .. 5, NEW i \in Nat, i <= IF s = 5 THEN 0 ELSE Len(added[s])
  PROVE  /\ Item(s, i) \in Nat /\ Item(s, i + 1) - 1 = Item(s, i) /\ at[Item(s, i)] \in Nat /\ at[Item(s, i)] >= 1
         /\ MsgPrefix + at[Item(s, i)] <= Len(bld.msg)
<1>1. PICK a, b, c, d \in Nat : a = Len(added[1]) /\ b = Len(added[2]) /\ c = Len(added[3]) /\ d = Len(added[4])
  BY LensAre DEF Received
<1>2. PICK size \in Nat : size = a + b + c + d
  OBVIOUS
<1>3. ItemsBefore(added, 1) = 0 /\ ItemsBefore(added, 2) = a /\ ItemsBefore(added, 3) = a + b /\ ItemsBefore(added, 4) = a + b + c
      /\ ItemsBefore(added, 5) = size
  BY <1>1, <1>2, BeforeIs
<1>4. ItemsBefore(added, s) \in Nat /\ ItemsBefore(added, s) + i \in 0 .. size
  <2>1. CASE s = 1
    <3>0. s # 5 /\ added[s] = added[1]
      BY <2>1
    <3>1. i <= a /\ ItemsBefore(added, s) = 0
      BY <1>1, <1>3, <2>1, <3>0
    <3> QED
      BY <1>2, <3>1
  <2>2. CASE s = 2
    <3>0. s # 5 /\ added[s] = added[2]
      BY <2>2
    <3>1. i <= b /\ ItemsBefore(added, s) = a
      BY <1>1, <1>3, <2>2, <3>0
    <3> QED
      BY <1>2, <3>1
  <2>3. CASE s = 3
    <3>0. s # 5 /\ added[s] = added[3]
      BY <2>3
    <3>1. i <= c /\ ItemsBefore(added, s) = a + b
      BY <1>1, <1>3, <2>3, <3>0
    <3> QED
      BY <1>2, <3>1
  <2>4. CASE s = 4
    <3>0. s # 5 /\ added[s] = added[4]
      BY <2>4
    <3>1. i <= d /\ ItemsBefore(added, s) = a + b + c
      BY <1>1, <1>3, <2>4, <3>0
    <3> QED
      BY <1>2, <3>1
  <2>5. CASE s = 5
    <3>1. i <= 0 /\ ItemsBefore(added, s) = size
      BY <1>1, <1>3, <2>5
    <3> QED
      BY <1>2, <3>1
  <2> QED
    BY <2>1, <2>2, <2>3, <2>4, <2>5
<1>5. Len(ItemsOf(added)) = size
  BY <1>3, ItemsAre DEF ItemsGive, Received
<1>6. PICK n \in Nat : n = Item(s, i) /\ n \in 0 .. size /\ Item(s, i + 1) = n + 1
  BY <1>4 DEF Item
<1>7. /\ at[0] = 1 /\ MsgPrefix + at[size] = Len(bld.msg)
      /\ \A k \in 0 .. size : at[k] \in Nat /\ \A j \in 0 .. k : at[j] <= at[k]
  BY <1>5 DEF Received, Laid
<1>8. at[n] \in Nat /\ at[size] \in Nat /\ at[0] <= at[n] /\ at[n] <= at[size]
  BY <1>6, <1>7
<1>9. MsgPrefix + at[n] <= Len(bld.msg) /\ at[n] >= 1
  BY <1>7, <1>8, MessageBounds
<1>10. (n + 1) - 1 = n
  BY <1>6
<1> QED
  BY <1>6, <1>8, <1>9, <1>10

(* The item the parser comes to when it has read one.                         *)
LEMMA NextStands ==
  ASSUME NEW at, Received(at), NEW p, IsParser(p), p.sec \in 1 .. 4, p.index < Len(added[p.sec]),
         NEW e, e = at[Item(p.sec, p.index + 1)], e <= Len(wire)
  PROVE  Standing(at, Next1(p, e))
<1>1. PICK s \in 1 .. 4, i \in Nat : s = p.sec /\ i = p.index
  BY DEF IsParser
<1>2. Len(added[s]) \in 0 .. MaxCount /\ MaxCount \in Nat /\ i < Len(added[s]) /\ s \in 1 .. 5
  <2>1. bld.counts[s] = Len(added[s]) /\ bld.counts[s] \in 0 .. MaxCount
    BY <1>1 DEF Received, Counted
  <2> QED
    BY <1>1, <2>1, MessageBounds
<1>3. i + 1 \in Nat /\ i + 1 <= IF s = 5 THEN 0 ELSE Len(added[s])
  BY <1>2
<1>4. e \in Nat /\ e >= 1
  <2>1. PICK k \in Nat : k = i + 1
    OBVIOUS
  <2>2. e = at[Item(s, k)]
    BY <1>1, <2>1
  <2> QED
    BY <1>2, <1>3, <2>1, <2>2, ItemPlaces
<1>5. Len(wire) \in Nat
  BY DEF Received, Copy
<1>6. PICK q : q = Next1(p, e)
  OBVIOUS
<1>7. q = [sec |-> s, index |-> i + 1, off |-> e, valid |-> FALSE, hoff |-> p.hoff, htype |-> p.htype, hlen |-> p.hlen]
  BY <1>1, <1>6 DEF Next1, IsParser
<1>8. IsParser(q)
  <2>1. e \in 1 .. Len(wire) /\ i + 1 \in 0 .. MaxCount /\ s \in 1 .. 5
    BY <1>2, <1>4, <1>5
  <2> QED
    BY <1>7, <2>1 DEF IsParser
<1>9. q.sec = s /\ q.index = i + 1 /\ q.valid = FALSE /\ q.off = e
  BY <1>7
<1>10. e = at[Item(q.sec, q.index)] /\ q.index <= IF q.sec = 5 THEN 0 ELSE Len(added[q.sec])
  BY <1>1, <1>3, <1>9
<1>11. Standing(at, q)
  BY <1>8, <1>9, <1>10 DEF Standing
<1> QED
  BY <1>6, <1>11

(* A parser without a pending header comes to the next section, or stays.     *)
Advanced(at, p, c) ==
    \/ p.index = Len(added[p.sec]) /\ c.err = "done" /\ Standing(at, c.p) /\ c = [err |-> c.err, p |-> c.p]
    \/ p.index < Len(added[p.sec]) /\ c.err = "none" /\ c.p = p

(* checkAdvance does that.                                                    *)
LEMMA Advances ==
  ASSUME NEW at, Received(at), NEW p, Standing(at, p), ~p.valid, p.sec \in 1 .. 4, NEW c, c = CheckAdvance(p, p.sec)
  PROVE  Advanced(at, p, c)
<1>1. PICK s \in 1 .. 4, i \in Nat, o \in {p.off} : s = p.sec /\ i = p.index /\ o = p.off
  BY DEF IsParser, Standing
<1>2. Len(added[s]) \in 0 .. MaxCount /\ MaxCount \in Nat /\ bld.counts[s] = Len(added[s])
  BY <1>1, MessageBounds DEF Received, Counted
<1>3. i <= Len(added[s]) /\ o = at[Item(s, i)] /\ o \in 1 .. Len(wire) /\ i \in 0 .. MaxCount
  BY <1>1 DEF Standing, IsParser
<1>4. PICK ho, ht, hl : p = [sec |-> s, index |-> i, off |-> o, valid |-> FALSE, hoff |-> ho, htype |-> ht, hlen |-> hl]
  BY <1>1 DEF IsParser, Standing
<1>5. CASE i = Len(added[s])
  <2>1. PICK q : q = [p EXCEPT !.valid = FALSE, !.index = 0, !.sec = @ + 1]
    OBVIOUS
  <2>2. c = [err |-> "done", p |-> q]
    BY <1>1, <1>2, <1>5, <2>1 DEF CheckAdvance
  <2>3. q = [sec |-> s + 1, index |-> 0, off |-> o, valid |-> FALSE, hoff |-> ho, htype |-> ht, hlen |-> hl]
    BY <1>4, <2>1
  <2>4. q.sec = s + 1 /\ q.index = 0 /\ q.off = o /\ q.valid = FALSE
    BY <2>3
  <2>5. IsParser(q)
    <3>1. s + 1 \in 1 .. 5 /\ 0 \in 0 .. MaxCount
      BY <1>2
    <3> QED
      BY <1>3, <2>3, <3>1 DEF IsParser
  <2>6. Item(s + 1, 0) = Item(s, i)
    <3>1. PICK k1, k2, k3, k4 \in Nat : k1 = Len(added[1]) /\ k2 = Len(added[2]) /\ k3 = Len(added[3]) /\ k4 = Len(added[4])
      BY LensAre DEF Received
    <3>2. ItemsBefore(added, 1) = 0 /\ ItemsBefore(added, 2) = k1 /\ ItemsBefore(added, 3) = k1 + k2 /\ ItemsBefore(added, 4) = k1 + k2 + k3
          /\ ItemsBefore(added, 5) = k1 + k2 + k3 + k4
      BY <3>1, BeforeIs
    <3>3. CASE s = 1
      <4>1. s + 1 = 2 /\ added[s] = added[1]
        BY <3>3
      <4>2. i = k1
        BY <1>5, <3>1, <4>1
      <4>3. PICK x, y : x = ItemsBefore(added, s) /\ y = ItemsBefore(added, s + 1)
        OBVIOUS
      <4>4. x = 0 /\ y = k1
        BY <3>2, <3>3, <4>1, <4>3
      <4>5. x + i = y + 0
        BY <3>1, <4>2, <4>4
      <4> QED
        BY <4>3, <4>5 DEF Item
    <3>4. CASE s = 2
      <4>1. s + 1 = 3 /\ added[s] = added[2]
        BY <3>4
      <4>2. i = k2
        BY <1>5, <3>1, <4>1
      <4>3. PICK x, y : x = ItemsBefore(added, s) /\ y = ItemsBefore(added, s + 1)
        OBVIOUS
      <4>4. x = k1 /\ y = k1 + k2
        BY <3>2, <3>4, <4>1, <4>3
      <4>5. x + i = y + 0
        BY <3>1, <4>2, <4>4
      <4> QED
        BY <4>3, <4>5 DEF Item
    <3>5. CASE s = 3
      <4>1. s + 1 = 4 /\ added[s] = added[3]
        BY <3>5
      <4>2. i = k3
        BY <1>5, <3>1, <4>1
      <4>3. PICK x, y : x = ItemsBefore(added, s) /\ y = ItemsBefore(added, s + 1)
        OBVIOUS
      <4>4. x = k1 + k2 /\ y = k1 + k2 + k3
        BY <3>2, <3>5, <4>1, <4>3
      <4>5. x + i = y + 0
        BY <3>1, <4>2, <4>4
      <4> QED
        BY <4>3, <4>5 DEF Item
    <3>6. CASE s = 4
      <4>1. s + 1 = 5 /\ added[s] = added[4]
        BY <3>6
      <4>2. i = k4
        BY <1>5, <3>1, <4>1
      <4>3. PICK x, y : x = ItemsBefore(added, s) /\ y = ItemsBefore(added, s + 1)
        OBVIOUS
      <4>4. x = k1 + k2 + k3 /\ y = k1 + k2 + k3 + k4
        BY <3>2, <3>6, <4>1, <4>3
      <4>5. x + i = y + 0
        BY <3>1, <4>2, <4>4
      <4> QED
        BY <4>3, <4>5 DEF Item
    <3> QED
      BY <3>3, <3>4, <3>5, <3>6
  <2>7. 0 <= IF s + 1 = 5 THEN 0 ELSE Len(added[s + 1])
    <3>1. s + 1 # 5 => Len(added[s + 1]) \in Nat
      <4>1. s + 1 # 5 => s + 1 \in 1 .. 4
        OBVIOUS
      <4> QED
        BY <4>1, MessageBounds DEF Received, Counted
    <3> QED
      BY <3>1
  <2>8. Standing(at, q)
    BY <1>3, <2>4, <2>5, <2>6, <2>7 DEF Standing
  <2>9. c.err = "done" /\ c.p = q /\ c = [err |-> c.err, p |-> c.p]
    BY <2>2
  <2> QED
    BY <1>1, <1>5, <2>8, <2>9 DEF Advanced
<1>6. CASE i # Len(added[s])
  <2>1. c = [err |-> "none", p |-> [p EXCEPT !.valid = FALSE]]
    BY <1>1, <1>2, <1>6 DEF CheckAdvance
  <2>2. [p EXCEPT !.valid = FALSE] = p
    <3>1. PICK q : q = [p EXCEPT !.valid = FALSE]
      OBVIOUS
    <3>2. q = [sec |-> s, index |-> i, off |-> o, valid |-> FALSE, hoff |-> ho, htype |-> ht, hlen |-> hl]
      BY <1>4, <3>1
    <3> QED
      BY <1>4, <3>1, <3>2
  <2>3. c.err = "none" /\ c.p = p
    BY <2>1, <2>2
  <2>4. i < Len(added[s])
    BY <1>2, <1>3, <1>6
  <2> QED
    BY <1>1, <2>3, <2>4 DEF Advanced
<1> QED
  BY <1>5, <1>6

(* The TTLs that stand in the message are those that are to be given.         *)
TtlsGiven(at) ==
    \A s \in 2 .. 4 : \A i \in 1 .. Len(added[s]) : \A l \in Nat :
        RecordOf(at, s, i, l) /\ l + 3 <= Len(wire) => At(wire, l + 1)[2] = Given(added[s][i])

(* A parser that goes back to the header it had read.                         *)
Rewound(p) == IF p.valid THEN [p EXCEPT !.off = p.hoff, !.valid = FALSE] ELSE p

(* It stands before the record again.                                         *)
Rewinds(at, p, q) ==
    /\ Standing(at, q) /\ q.valid = FALSE /\ q.sec = p.sec /\ q.index = p.index
    /\ p.valid => p.index < Len(added[p.sec])

(* Parser.resourceHeader goes back to the pending header, which is where it   *)
(* was read.                                                                  *)
LEMMA RewoundStands == ASSUME NEW at, Received(at), NEW p, Standing(at, p) PROVE Rewinds(at, p, Rewound(p))
<1>1. CASE ~p.valid
  <2>1. p.valid = FALSE /\ Rewound(p) = p
    BY <1>1 DEF Rewound, Standing, IsParser
  <2> QED
    BY <2>1, <1>1 DEF Rewinds
<1>2. CASE p.valid
  <2>1. PICK s \in 2 .. 4, i \in Nat, ho \in {p.hoff} : s = p.sec /\ i = p.index /\ ho = p.hoff
    BY <1>2 DEF IsParser, Standing, Pending
  <2>2. i < Len(added[s]) /\ ho = at[Item(s, i + 1) - 1]
    BY <1>2, <2>1 DEF Standing, Pending
  <2>3. PICK l \in Nat : RecordOf(at, s, i + 1, l) /\ p.off = l + 3
    BY <1>2, <2>1 DEF Standing, Pending
  <2>4. Len(added[s]) \in Nat
    BY <2>1, MessageBounds DEF Received, Counted
  <2>5. i <= IF s = 5 THEN 0 ELSE Len(added[s])
    BY <2>1, <2>2, <2>4
  <2>6. ho = at[Item(s, i)] /\ ho \in Nat /\ ho >= 1
    <3>1. s \in 1 .. 5
      OBVIOUS
    <3> QED
      BY <2>2, <2>5, <3>1, ItemPlaces
  <2>7. ho < l /\ l + 3 <= Len(wire) /\ Len(wire) \in Nat
    <3>1. PICK name, n, e : name = added[s][i + 1].name /\ n = Item(s, i + 1) /\ e = at[n]
      OBVIOUS
    <3>2. NameIn(bld.msg, bld.table, ~tainted, ho, name, l)
      BY <2>2, <2>3, <3>1 DEF RecordOf, RecordHere
    <3>3. ho < l
      BY <3>2, NameSkipped DEF Received
    <3> QED
      BY <2>3, <3>3 DEF Standing, IsParser, Received, Copy
  <2>8. PICK x, ht, hl, v : p = [sec |-> s, index |-> i, off |-> x, valid |-> v, hoff |-> ho, htype |-> ht, hlen |-> hl]
    BY <2>1 DEF IsParser, Standing
  <2>9. PICK q : q = [p EXCEPT !.off = p.hoff, !.valid = FALSE]
    OBVIOUS
  <2>10. q = [sec |-> s, index |-> i, off |-> ho, valid |-> FALSE, hoff |-> ho, htype |-> ht, hlen |-> hl]
    <3>1. q = [p EXCEPT !.off = ho, !.valid = FALSE]
      BY <2>1, <2>9
    <3> QED
      BY ONLY <2>8, <3>1
  <2>11. i \in 0 .. MaxCount /\ s \in 1 .. 5 /\ ho \in 1 .. Len(wire)
    BY <2>1, <2>6, <2>7 DEF Standing, IsParser
  <2>12. IsParser(q)
    BY <2>10, <2>11 DEF IsParser
  <2>13. q.sec = s /\ q.index = i /\ q.off = ho /\ q.valid = FALSE
    BY <2>10
  <2>14. Standing(at, q)
    BY <2>5, <2>6, <2>12, <2>13 DEF Standing
  <2>15. Rewound(p) = q
    BY <1>2, <2>9 DEF Rewound
  <2> QED
    BY <2>1, <2>2, <2>13, <2>14, <2>15 DEF Rewinds
<1> QED
  BY <1>1, <1>2

(* Reading the header of the record a parser stands at.                       *)
HeaderOf(q, h) ==
    [q EXCEPT !.valid = TRUE, !.hoff = q.off, !.off = h.end, !.htype = h.type, !.hlen = h.length]

(* What reading the header of record r tells.                                 *)
HeaderTells(at, q, r, h) ==
    /\ h.ok => /\ Standing(at, HeaderOf(q, h)) /\ h.type = r.type /\ h.ttl = Given(r)
               /\ ~tainted => h.name = r.name
    /\ ~h.ok => tainted \/ IsCut \/ Len(r.name) >= MaxHops

(* A message that is not cut is whole.                                        *)
LEMMA NotCut == ASSUME NEW at, Received(at), ~IsCut PROVE Whole(wire, bld.msg)
<1>1. PICK a, b \in Nat : a = Len(wire) /\ b = Len(bld.msg) /\ MsgPrefix + a <= b
  BY DEF Received, Copy
<1>2. ~ (a < b - MsgPrefix)
  BY <1>1 DEF IsCut
<1>3. MsgPrefix + a = b
  BY <1>1, <1>2, MessageBounds
<1> QED
  BY <1>1, <1>3 DEF Whole

(* It is the header that was packed; it fails only on a message cut or on a   *)
(* name with too many pointers.                                               *)
LEMMA HeaderHere ==
  ASSUME NEW at, Received(at), TtlsGiven(at), NEW q, Standing(at, q), q.valid = FALSE, q.sec \in 2 .. 4,
         q.index < Len(added[q.sec]), NEW r, r = added[q.sec][q.index + 1], NEW h, h = UnpackHeader(wire, q.off)
  PROVE  HeaderTells(at, q, r, h)
<1>1. PICK s \in 2 .. 4, i \in Nat, o \in Nat : s = q.sec /\ i = q.index /\ o = q.off
  BY DEF IsParser, Standing
<1>2. Len(added[s]) \in Nat /\ i < Len(added[s]) /\ i + 1 \in 1 .. Len(added[s])
  <2>1. Len(added[s]) \in Nat
    BY <1>1, MessageBounds DEF Received, Counted
  <2> QED
    BY <1>1, <2>1
<1>3. PICK n : n = Item(s, i + 1)
  OBVIOUS
<1>4. at[n - 1] = o /\ o >= 1
  <2>1. s \in 1 .. 5 /\ i <= IF s = 5 THEN 0 ELSE Len(added[s])
    BY <1>2
  <2>2. n - 1 = Item(s, i) /\ at[Item(s, i)] >= 1
    BY <1>3, <2>1, ItemPlaces
  <2> QED
    BY <1>1, <2>2 DEF Standing
<1>5. PICK e \in Nat : e = at[n] /\ RecordIn(bld.msg, bld.table, ~tainted, o, r, e)
  <2>1. s \in 1 .. 4 /\ s # 1
    OBVIOUS
  <2>2. ItemAt(bld.msg, bld.table, ~tainted, added, at, s, i + 1, n)
    BY <1>2, <1>3, <2>1, ItemIs
  <2> QED
    BY <1>1, <1>4, <2>1, <2>2 DEF ItemAt
<1>6. PICK l \in Nat : RecordHere(bld.msg, bld.table, ~tainted, o, r, l, e)
  BY <1>5 DEF RecordIn, RecordHere
<1>7. RecordOf(at, s, i + 1, l)
  BY <1>1, <1>3, <1>4, <1>5, <1>6 DEF RecordOf
<1>8. PICK loose \in SUBSET Loose : loose = {"ttl"} /\ Copy(wire, bld.msg, loose)
  BY DEF Loose, Received
<1>9. RecordRead(wire, bld.msg, o, r, l, e)
  BY <1>6, <1>8, RecordReads
<1>10. IF UnpackName(wire, o).ok /\ l + 3 <= Len(wire) THEN h = HeaderGives(wire, o, l, h) ELSE h = [ok |-> FALSE]
  <2>1. h = UnpackHeader(wire, o)
    BY <1>1
  <2> QED
    BY <1>6, <1>8, <2>1, HeaderReads
<1>11. /\ o < l /\ l + 3 <= e /\ Len(wire) \in Nat
       /\ l + 3 <= Len(wire) => At(wire, l)[2] = r.type /\ At(wire, l + 2)[2] = e - (l + 3)
  BY <1>9 DEF RecordRead
<1>12. NameIn(bld.msg, bld.table, ~tainted, o, r.name, l)
  BY <1>6 DEF RecordHere
<1>13. r \in MsgRecords
  <2>1. added[s] \in Seq(MsgRecords)
    BY DEF Received, IsAdded
  <2> QED
    BY <1>1, <1>2, <2>1
<1>14. PICK name : name = r.name /\ IsSeq(name)
  BY <1>13, MessageAssumption
<1>15. ~tainted => NameIn(bld.msg, bld.table, TRUE, o, name, l) /\ TableIn(bld.msg, bld.table)
  <2>1. ~tainted => (~tainted) = TRUE
    BY DEF Received
  <2> QED
    BY <1>12, <1>14, <2>1 DEF Received
<1>16. CASE UnpackName(wire, o).ok /\ l + 3 <= Len(wire)
  <2>1. h = HeaderGives(wire, o, l, h)
    BY <1>10, <1>16
  <2>2. PICK nm, ty, tt, ln : /\ nm = UnpackName(wire, o).name /\ ty = At(wire, l)[2] /\ tt = At(wire, l + 1)[2]
                              /\ ln = At(wire, l + 2)[2]
    OBVIOUS
  <2>3. h = [ok |-> TRUE, name |-> nm, type |-> ty, ttl |-> tt, length |-> ln, end |-> l + 3]
    BY <2>1, <2>2 DEF HeaderGives
  <2>4. h.ok = TRUE /\ h.name = nm /\ h.type = ty /\ h.ttl = tt /\ h.length = ln /\ h.end = l + 3
    BY <2>3
  <2>5. ty = r.type /\ ln = e - (l + 3)
    BY <1>11, <1>16, <2>2
  <2>6. tt = Given(r)
    BY <1>1, <1>2, <1>7, <1>16, <2>2 DEF TtlsGiven
  <2>7. ~tainted => nm = name
    BY <1>8, <1>14, <1>15, <1>16, <2>2, NameReadRight
  <2>8. Standing(at, HeaderOf(q, h))
    <3>1. PICK p : p = HeaderOf(q, h)
      OBVIOUS
    <3>2. p = [sec |-> s, index |-> i, off |-> l + 3, valid |-> TRUE, hoff |-> o, htype |-> ty, hlen |-> ln]
      <4>1. PICK ho, ht, hl : q = [sec |-> s, index |-> i, off |-> o, valid |-> FALSE, hoff |-> ho, htype |-> ht, hlen |-> hl]
        BY <1>1 DEF IsParser, Standing
      <4>2. p = [q EXCEPT !.valid = TRUE, !.hoff = o, !.off = l + 3, !.htype = ty, !.hlen = ln]
        BY <1>1, <2>4, <3>1 DEF HeaderOf
      <4> QED
        BY <4>1, <4>2
    <3>3. p.sec = s /\ p.index = i /\ p.off = l + 3 /\ p.valid = TRUE /\ p.hoff = o /\ p.htype = ty /\ p.hlen = ln
      BY <3>2
    <3>4. s \in 1 .. 5 /\ i \in 0 .. MaxCount /\ l + 3 \in 1 .. Len(wire)
      BY <1>1, <1>11, <1>16 DEF Standing, IsParser
    <3>5. IsParser(p)
      BY <3>2, <3>4 DEF IsParser
    <3>6. p.off + p.hlen = e
      BY <1>11, <2>5, <3>3
    <3>7. Pending(at, p)
      BY <1>1, <1>2, <1>3, <1>4, <1>5, <1>7, <2>5, <3>3, <3>6 DEF Pending
    <3>8. p.index <= IF p.sec = 5 THEN 0 ELSE Len(added[p.sec])
      BY <1>2, <3>3
    <3> QED
      BY <3>1, <3>3, <3>5, <3>7, <3>8 DEF Standing
  <2> QED
    BY <1>14, <2>4, <2>5, <2>6, <2>7, <2>8 DEF HeaderTells
<1>17. CASE ~(UnpackName(wire, o).ok /\ l + 3 <= Len(wire))
  <2>1. h.ok = FALSE
    BY <1>10, <1>17
  <2>2. ASSUME ~tainted, ~IsCut PROVE Len(r.name) >= MaxHops
    <3>1. Whole(wire, bld.msg)
      BY <2>2, NotCut
    <3>2. MsgPrefix + e <= Len(bld.msg) /\ MsgPrefix \in Nat
      BY <1>6, MessageBounds DEF RecordHere, Fixed
    <3>3. l + 3 <= Len(wire)
      BY <1>11, <3>1, <3>2 DEF Whole
    <3>4. ~ UnpackName(wire, o).ok
      BY <1>17, <3>3
    <3>5. ~ (Len(name) < MaxHops)
      <4> SUFFICES ASSUME Len(name) < MaxHops PROVE FALSE
        OBVIOUS
      <4>1. UnpackName(wire, o).ok
        BY <1>8, <1>14, <1>15, <2>2, <3>1, NameReads DEF Whole
      <4> QED
        BY <3>4, <4>1
    <3>6. Len(name) \in Nat /\ MaxHops \in Nat
      BY <1>14, SeqHas, MessageBounds
    <3> QED
      BY <1>14, <3>5, <3>6
  <2> QED
    BY <2>1, <2>2 DEF HeaderTells
<1> QED
  BY <1>16, <1>17

(* A record with a name that may need more pointers than are followed.        *)
LongNames(r) == \E n \in NamesOf(r) : Len(n) >= MaxHops

(* Reading the data of the record whose header is pending.                    *)
DataTells(at, p, r, b) ==
    /\ b.ok => Standing(at, Next1(p, p.off + p.hlen)) /\ (~tainted => b.vals = Read(r))
    /\ ~b.ok => tainted \/ IsCut \/ LongNames(r)

(* A record without one.                                                      *)
LEMMA NamesShort ==
  ASSUME NEW r \in MsgRecords, ~LongNames(r)
  PROVE  ShortNames(r)
<1> SUFFICES ASSUME NEW i \in 1 .. Len(Data(r.type)), Data(r.type)[i] \in {"name", "plain"}
    PROVE  Len(r.body[i]) < MaxHops
  BY DEF ShortNames
<1>1. Len(r.body) = Len(Data(r.type))
  BY MessageAssumption
<1>2. PICK n : n = r.body[i]
  OBVIOUS
<1>3. n \in NamesOf(r)
  BY <1>1, <1>2 DEF NamesOf
<1>4. ~ (Len(n) >= MaxHops)
  BY <1>3 DEF LongNames
<1>5. Len(n) \in Nat
  <2>1. Record(r)
    BY RecordOk
  <2>2. Field(Data(r.type)[i], n) /\ Data(r.type)[i] # "num"
    BY <1>2, <2>1 DEF Record
  <2>3. IsSeq(n)
    BY <2>2 DEF Field
  <2> QED
    BY <2>3, SeqHas
<1> QED
  BY <1>2, <1>4, <1>5, MessageBounds

(* The data are those that were packed; reading fails only on a message cut   *)
(* or on such a name.                                                         *)
LEMMA DataHere ==
  ASSUME NEW at, Received(at), NEW p, Standing(at, p), p.valid, NEW r, r = added[p.sec][p.index + 1],
         NEW b, b = UnpackBody(wire, p.off, p.htype, p.hlen)
  PROVE  DataTells(at, p, r, b)
<1>0. PICK length : length = p.hlen
  OBVIOUS
<1>1. PICK s \in 2 .. 4, i \in Nat, o \in Nat : s = p.sec /\ i = p.index /\ o = p.off /\ length = p.hlen
  BY <1>0 DEF IsParser, Standing, Pending
<1>2. i < Len(added[s]) /\ Len(added[s]) \in Nat /\ i + 1 \in 1 .. Len(added[s])
  <2>1. Len(added[s]) \in Nat
    BY <1>1, MessageBounds DEF Received, Counted
  <2> QED
    BY <1>1, <2>1 DEF Standing, Pending
<1>3. PICK n, e : n = Item(s, i + 1) /\ e = at[n]
  OBVIOUS
<1>4. PICK l \in Nat : RecordOf(at, s, i + 1, l) /\ o = l + 3 /\ p.htype = r.type /\ o + length = e
  BY <1>1, <1>3 DEF Standing, Pending
<1>5. BodyIn(bld.msg, bld.table, ~tainted, o, r, e)
  BY <1>1, <1>3, <1>4 DEF RecordOf, RecordHere
<1>6. r \in MsgRecords
  <2>1. added[s] \in Seq(MsgRecords)
    BY DEF Received, IsAdded
  <2> QED
    BY <1>1, <1>2, <2>1
<1>7. PICK loose \in SUBSET Loose : loose = {"ttl"} /\ Copy(wire, bld.msg, loose)
  BY DEF Loose, Received
<1>8. PICK sound \in BOOLEAN, valued \in BOOLEAN : sound = ~tainted /\ valued = ~tainted
  BY DEF Received
<1>9. valued => Valued(bld.msg, bld.table, sound, loose)
  BY <1>7, <1>8 DEF Valued, Received
<1>10. b = UnpackBody(wire, o, r.type, length)
  BY <1>1, <1>4
<1>11. BodyIn(bld.msg, bld.table, sound, o, r, e)
  BY <1>5, <1>8
<1>12. BodyRead(wire, valued, r, e, b)
  BY <1>4, <1>6, <1>7, <1>9, <1>10, <1>11, BodyReads
<1>13. ASSUME b.ok PROVE Standing(at, Next1(p, p.off + p.hlen)) /\ (~tainted => b.vals = Read(r))
  <2>1. e <= Len(wire) /\ (~tainted => b.vals = Read(r))
    BY <1>8, <1>12, <1>13 DEF BodyRead
  <2>2. e = at[Item(p.sec, p.index + 1)] /\ p.off + p.hlen = e /\ p.sec \in 1 .. 4 /\ p.index < Len(added[p.sec])
    BY <1>1, <1>2, <1>3, <1>4
  <2>3. IsParser(p)
    BY DEF Standing
  <2>4. Standing(at, Next1(p, e))
    BY <2>1, <2>2, <2>3, NextStands
  <2> QED
    BY <2>1, <2>2, <2>4
<1>14. ASSUME ~b.ok, ~tainted, ~IsCut PROVE LongNames(r)
  <2> SUFFICES ASSUME ~LongNames(r) PROVE FALSE
    OBVIOUS
  <2>1. ShortNames(r)
    BY <1>6, NamesShort
  <2>2. Whole(wire, bld.msg) /\ TableIn(bld.msg, bld.table)
    BY <1>14, NotCut DEF Received
  <2>3. BodyIn(bld.msg, bld.table, TRUE, o, r, e)
    BY <1>8, <1>11, <1>14
  <2>4. b.ok
    BY <1>4, <1>6, <1>7, <1>10, <2>1, <2>2, <2>3, BodyReadsWhole
  <2> QED
    BY <1>14, <2>4
<1> QED
  BY <1>13, <1>14 DEF DataTells

(* Skipping the record a parser stands at, its header pending or not.         *)
SkipTells(at, p, skipped, e) == IF skipped THEN Standing(at, Next1(p, e)) ELSE IsCut

(* An item that ends past the message was cut.                                *)
LEMMA EndIsCut ==
  ASSUME NEW at, Received(at), NEW s \in 1 .. 5, NEW i \in Nat, i <= IF s = 5 THEN 0 ELSE Len(added[s]),
         ~ (at[Item(s, i)] <= Len(wire))
  PROVE  IsCut
<1>1. PICK e \in Nat : e = at[Item(s, i)] /\ MsgPrefix + e <= Len(bld.msg)
  BY ItemPlaces
<1>2. PICK a, b \in Nat : a = Len(wire) /\ b = Len(bld.msg)
  BY DEF Received, Copy
<1>3. a < b - MsgPrefix
  <2>1. MsgPrefix \in Nat
    BY MessageBounds
  <2>2. MsgPrefix + e <= b /\ ~ (e <= a)
    BY <1>1, <1>2
  <2> QED
    BY ONLY <2>1, <2>2, a \in Nat, b \in Nat, e \in Nat
<1> QED
  BY <1>2, <1>3 DEF IsCut

(* Skipping the data of the pending header comes to the next record.          *)
LEMMA SkipPendingHere ==
  ASSUME NEW at, Received(at), NEW p, Standing(at, p), p.valid, NEW e, e = p.off + p.hlen
  PROVE  SkipTells(at, p, ~(e > Len(wire)), e)
<1>1. PICK s \in 2 .. 4, i \in Nat : s = p.sec /\ i = p.index
  BY DEF IsParser, Standing, Pending
<1>2. i < Len(added[s]) /\ Len(added[s]) \in Nat /\ i + 1 \in 1 .. Len(added[s])
  <2>1. Len(added[s]) \in Nat
    <3>1. bld.counts[s] = Len(added[s]) /\ bld.counts[s] \in 0 .. MaxCount
      BY DEF Received, Counted
    <3> QED
      BY <3>1, MessageBounds
  <2> QED
    BY <1>1, <2>1 DEF Standing, Pending
<1>3. e = at[Item(s, i + 1)]
  BY <1>1 DEF Standing, Pending
<1>4. PICK k \in Nat : k = i + 1
  OBVIOUS
<1>5. k <= (IF s = 5 THEN 0 ELSE Len(added[s])) /\ s \in 1 .. 5
  BY <1>2, <1>4
<1>6. e \in Nat
  BY <1>3, <1>4, <1>5, ItemPlaces
<1>7. Len(wire) \in Nat
  BY DEF Received, Copy
<1>8. CASE e <= Len(wire)
  <2>1. IsParser(p)
    BY DEF Standing
  <2>2. e = at[Item(p.sec, p.index + 1)] /\ p.sec \in 1 .. 4 /\ p.index < Len(added[p.sec])
    BY <1>1, <1>2, <1>3
  <2>3. Standing(at, Next1(p, e))
    BY <1>8, <2>1, <2>2, NextStands
  <2> QED
    BY <1>6, <1>7, <1>8, <2>3 DEF SkipTells
<1>9. CASE ~ (e <= Len(wire))
  <2>1. IsCut
    BY <1>3, <1>4, <1>5, <1>9, EndIsCut
  <2> QED
    BY <1>6, <1>7, <1>9, <2>1 DEF SkipTells
<1> QED
  BY <1>8, <1>9

(* So does skipping a whole item.                                             *)
LEMMA SkipHere ==
  ASSUME NEW at, Received(at), NEW p, Standing(at, p), p.valid = FALSE, p.sec \in 1 .. 4, p.index < Len(added[p.sec]),
         NEW e, e = IF p.sec = 1 THEN SkipQuestion(wire, p.off) ELSE SkipResource(wire, p.off)
  PROVE  SkipTells(at, p, ~(e = -1), e)
<1>1. PICK s \in 1 .. 4, i \in Nat, o \in Nat : s = p.sec /\ i = p.index /\ o = p.off
  BY DEF IsParser, Standing
<1>2. i < Len(added[s]) /\ Len(added[s]) \in Nat /\ i + 1 \in 1 .. Len(added[s])
  <2>1. Len(added[s]) \in Nat
    BY <1>1, MessageBounds DEF Received, Counted
  <2> QED
    BY <1>1, <2>1
<1>3. PICK n, to : n = Item(s, i + 1) /\ to = at[n]
  OBVIOUS
<1>4. at[n - 1] = o
  <2>1. s \in 1 .. 5 /\ i <= IF s = 5 THEN 0 ELSE Len(added[s])
    BY <1>2
  <2>2. n - 1 = Item(s, i)
    BY <1>3, <2>1, ItemPlaces
  <2> QED
    BY <1>1, <2>2 DEF Standing
<1>5. ItemAt(bld.msg, bld.table, ~tainted, added, at, s, i + 1, n)
  BY <1>2, <1>3, ItemIs
<1>6. PICK loose \in SUBSET Loose : loose = {"ttl"} /\ Copy(wire, bld.msg, loose)
  BY DEF Loose, Received
<1>7. to \in Nat
  BY <1>3, <1>5 DEF ItemAt
<1>8. e = Until(wire, to)
  <2>1. CASE s = 1
    <3>1. PICK name : name = added[1][i + 1]
      OBVIOUS
    <3>2. QuestionIn(bld.msg, bld.table, ~tainted, o, name, to)
      BY <1>3, <1>4, <1>5, <2>1, <3>1 DEF ItemAt
    <3>3. SkipQuestion(wire, o) = Until(wire, to)
      BY <1>6, <3>2, QuestionSkipped
    <3> QED
      BY <1>1, <2>1, <3>3
  <2>2. CASE s # 1
    <3>1. PICK r : r = added[s][i + 1]
      OBVIOUS
    <3>2. RecordIn(bld.msg, bld.table, ~tainted, o, r, to)
      BY <1>3, <1>4, <1>5, <2>2, <3>1 DEF ItemAt
    <3>3. PICK l \in Nat : RecordHere(bld.msg, bld.table, ~tainted, o, r, l, to)
      BY <3>2 DEF RecordIn, RecordHere
    <3>4. SkipResource(wire, o) = Until(wire, to)
      BY <1>6, <3>3, RecordReads DEF RecordRead
    <3> QED
      BY <1>1, <2>2, <3>4
  <2> QED
    BY <2>1, <2>2
<1>9. CASE to <= Len(wire)
  <2>1. e = to /\ ~(e = -1)
    BY <1>7, <1>8, <1>9 DEF Until
  <2>2. IsParser(p)
    BY DEF Standing
  <2>3. e = at[Item(p.sec, p.index + 1)]
    BY <1>1, <1>3, <2>1
  <2>4. Standing(at, Next1(p, e))
    BY <1>9, <2>1, <2>2, <2>3, NextStands
  <2> QED
    BY <2>1, <2>4 DEF SkipTells
<1>10. CASE ~ (to <= Len(wire))
  <2>1. e = -1
    BY <1>8, <1>10 DEF Until
  <2>2. PICK k \in Nat : k = i + 1
    OBVIOUS
  <2>3. k <= (IF s = 5 THEN 0 ELSE Len(added[s])) /\ s \in 1 .. 5
    BY <1>2, <2>2
  <2>4. IsCut
    BY <1>3, <1>10, <2>2, <2>3, EndIsCut
  <2> QED
    BY <2>1, <2>4 DEF SkipTells
<1> QED
  BY <1>9, <1>10

(* Reading the name of the question a parser stands at.                       *)
QuestionTells(name, n) ==
    /\ n.ok => (~tainted => n.name = name)
    /\ ~n.ok => tainted \/ IsCut \/ Len(name) >= MaxHops

(* The name is the one that was asked.                                        *)
LEMMA QuestionHere ==
  ASSUME NEW at, Received(at), NEW p, Standing(at, p), p.sec = 1, p.index < Len(added[1]),
         NEW name, name = added[1][p.index + 1], NEW n, n = UnpackName(wire, p.off)
  PROVE  QuestionTells(name, n)
<1>1. PICK s \in 1 .. 4, i \in Nat, o \in Nat : s = 1 /\ i = p.index /\ o = p.off
  BY DEF IsParser, Standing
<1>2. i < Len(added[s]) /\ Len(added[s]) \in Nat /\ i + 1 \in 1 .. Len(added[s])
  <2>1. Len(added[s]) \in Nat
    BY <1>1, MessageBounds DEF Received, Counted
  <2> QED
    BY <1>1, <2>1
<1>3. PICK j, to : j = Item(s, i + 1) /\ to = at[j]
  OBVIOUS
<1>4. at[j - 1] = o
  <2>1. s \in 1 .. 5 /\ i <= IF s = 5 THEN 0 ELSE Len(added[s])
    BY <1>2
  <2>2. j - 1 = Item(s, i)
    BY <1>3, <2>1, ItemPlaces
  <2>3. ~p.valid
    BY DEF Standing, Pending
  <2> QED
    BY <1>1, <2>2, <2>3 DEF Standing
<1>5. ItemAt(bld.msg, bld.table, ~tainted, added, at, s, i + 1, j)
  BY <1>2, <1>3, ItemIs
<1>6. PICK loose \in SUBSET Loose : loose = {"ttl"} /\ Copy(wire, bld.msg, loose)
  BY DEF Loose, Received
<1>7. QuestionIn(bld.msg, bld.table, ~tainted, o, name, to)
  BY <1>1, <1>3, <1>4, <1>5 DEF ItemAt
<1>8. PICK l : NameIn(bld.msg, bld.table, ~tainted, o, name, l)
  BY <1>7 DEF QuestionIn
<1>9. IsSeq(name)
  <2>1. added[1] \in Seq(MsgQuestions)
    BY DEF Received, IsAdded
  <2>2. name \in MsgQuestions
    BY <1>1, <1>2, <2>1
  <2> QED
    BY <2>2, QuestionOk
<1>10. n = UnpackName(wire, o)
  BY <1>1
<1>11. ASSUME ~tainted PROVE NameIn(bld.msg, bld.table, TRUE, o, name, l) /\ TableIn(bld.msg, bld.table)
  <2>1. (~tainted) = TRUE
    BY <1>11
  <2> QED
    BY <1>8, <1>11, <2>1 DEF Received
<1>12. ASSUME n.ok, ~tainted PROVE n.name = name
  <2>1. UnpackName(wire, o).ok
    BY <1>10, <1>12
  <2>2. UnpackName(wire, o).name = name
    BY <1>6, <1>9, <1>11, <1>12, <2>1, NameReadRight
  <2> QED
    BY <1>10, <2>2
<1>13. ASSUME ~n.ok, ~tainted, ~IsCut PROVE Len(name) >= MaxHops
  <2>1. Whole(wire, bld.msg)
    BY <1>13, NotCut
  <2>2. ~ (Len(name) < MaxHops)
    <3> SUFFICES ASSUME Len(name) < MaxHops PROVE FALSE
      OBVIOUS
    <3>1. UnpackName(wire, o).ok
      BY <1>6, <1>9, <1>11, <1>13, <2>1, NameReads DEF Whole
    <3> QED
      BY <1>10, <1>13, <3>1
  <2>3. Len(name) \in Nat /\ MaxHops \in Nat
    BY <1>9, SeqHas, MessageBounds
  <2> QED
    BY <2>2, <2>3
<1> QED
  BY <1>12, <1>13 DEF QuestionTells

(* What a call on section s that gives r tells of the item it is about.       *)
Strays(op, s, p) == op = "header" /\ p.valid /\ s # p.sec

(* What the result of a call on item index of section s is to be.             *)
Told(op, s, index, r) ==
    /\ r.err = "done" => index = Len(added[s]) \/ s < r.p.sec
    /\ r.err = "bad" =>
           \/ IsCut
           \/ s = 1 /\ Len(added[s][index + 1]) >= MaxHops
           \/ s > 1 /\ LongNames(added[s][index + 1])
    /\ r.err = "none" =>
           /\ index < Len(added[s])
           /\ op = "question" => r.val = added[s][index + 1]
           /\ op = "data" => r.val = Read(added[s][index + 1])
           /\ op = "header" =>
                  /\ r.val.name = added[s][index + 1].name /\ r.val.type = added[s][index + 1].type
                  /\ r.val.ttl = Given(added[s][index + 1])

(* The same, and where the call leaves the parser.                            *)
Tells(at, op, s, p, r) ==
    /\ r.err \in {"none", "done", "notstarted", "bad"} /\ IsParser(r.p)
    /\ (r.err # "bad" /\ ~Strays(op, s, p)) => Standing(at, r.p)
    /\ (~tainted /\ ~Strays(op, s, p)) => Told(op, s, p.index, r)

(* A call at the end of a section.                                            *)
LEMMA DoneTells ==
  ASSUME NEW at, NEW op, NEW s, NEW p, NEW c, Standing(at, c.p), p.index = Len(added[s]), NEW v,
         NEW r, r = [err |-> "done", p |-> c.p, val |-> v]
  PROVE  Tells(at, op, s, p, r)
<1>1. r.err = "done" /\ r.p = c.p
  OBVIOUS
<1>2. Standing(at, r.p) /\ IsParser(r.p)
  BY <1>1 DEF Standing
<1>3. Told(op, s, p.index, r)
  BY <1>1 DEF Told
<1> QED
  BY <1>1, <1>2, <1>3 DEF Tells

(* A call that skips.                                                         *)
LEMMA SkippedTells ==
  ASSUME NEW at, NEW s, NEW p, IsParser(p), p.index < Len(added[s]), NEW skipped \in BOOLEAN, NEW e, SkipTells(at, p, skipped, e), NEW v,
         NEW r, r = IF skipped THEN [err |-> "none", p |-> Next1(p, e), val |-> v] ELSE [err |-> "bad", p |-> p, val |-> v]
  PROVE  Tells(at, "skip", s, p, r)
<1> DEFINE op == "skip"
<1>0. op = "skip" /\ ~Strays(op, s, p)
  BY DEF Strays
<1> HIDE DEF op
<1>1. CASE skipped
  <2>1. r.err = "none" /\ r.p = Next1(p, e)
    BY <1>1
  <2>2. Standing(at, r.p) /\ IsParser(r.p)
    BY <1>1, <2>1 DEF Standing, SkipTells
  <2>3. Told(op, s, p.index, r)
    BY <1>0, <2>1 DEF Told
  <2>4. Tells(at, op, s, p, r)
    BY <2>1, <2>2, <2>3 DEF Tells
  <2> QED
    BY <1>0, <2>4
<1>2. CASE ~skipped
  <2>1. r.err = "bad" /\ r.p = p
    BY <1>2
  <2>2. IsCut
    BY <1>2 DEF SkipTells
  <2>3. Told(op, s, p.index, r)
    BY <2>1, <2>2 DEF Told
  <2>4. Tells(at, op, s, p, r)
    BY <2>1, <2>3 DEF Tells
  <2> QED
    BY <1>0, <2>4
<1> QED
  BY <1>1, <1>2

(* Parser.Question.                                                           *)
LEMMA QuestionCallTells ==
  ASSUME NEW at, Received(at), NEW p, Standing(at, p), p.sec = 1, NEW r, r = QuestionCall(p)
  PROVE  Tells(at, "question", 1, p, r)
<1> DEFINE op == "question"
<1>0. op = "question" /\ ~p.valid /\ p.valid = FALSE
  BY DEF Standing, Pending, IsParser
<1> HIDE DEF op
<1>1. PICK c, n, e : c = CheckAdvance(p, 1) /\ n = UnpackName(wire, p.off) /\ e = SkipQuestion(wire, p.off)
  OBVIOUS
<1>2. r = IF c.err # "none" THEN [err |-> c.err, p |-> c.p, val |-> <<>>]
          ELSE IF ~n.ok \/ e = -1 THEN [err |-> "bad", p |-> c.p, val |-> <<>>]
          ELSE [err |-> "none", p |-> Next1(c.p, e), val |-> n.name]
  BY <1>1 DEF QuestionCall
<1>3. Advanced(at, p, c)
  <2>1. c = CheckAdvance(p, p.sec) /\ p.sec \in 1 .. 4
    BY <1>1
  <2> QED
    BY <1>0, <2>1, Advances
<1>4. CASE p.index = Len(added[1]) /\ c.err = "done" /\ Standing(at, c.p)
  <2>1. r = [err |-> "done", p |-> c.p, val |-> <<>>]
    BY <1>2, <1>4
  <2>2. PICK s : s = 1
    OBVIOUS
  <2>3. Tells(at, op, s, p, r)
    BY <1>4, <2>1, <2>2, DoneTells
  <2> QED
    BY <1>0, <2>2, <2>3
<1>5. CASE p.index < Len(added[1]) /\ c.err = "none" /\ c.p = p
  <2>1. PICK name : name = added[1][p.index + 1]
    OBVIOUS
  <2>2. QuestionTells(name, n)
    BY <1>1, <1>5, <2>1, QuestionHere
  <2>3. SkipTells(at, p, ~(e = -1), e)
    <3>1. e = IF p.sec = 1 THEN SkipQuestion(wire, p.off) ELSE SkipResource(wire, p.off)
      BY <1>1
    <3>2. p.sec \in 1 .. 4 /\ p.index < Len(added[p.sec])
      BY <1>5
    <3> QED
      BY <1>0, <3>1, <3>2, SkipHere
  <2>4. PICK s : s = 1
    OBVIOUS
  <2>5. CASE ~n.ok \/ e = -1
    <3>1. r.err = "bad" /\ r.p = p
      BY <1>2, <1>5, <2>5
    <3>2. tainted \/ IsCut \/ Len(name) >= MaxHops
      BY <2>2, <2>3, <2>5 DEF QuestionTells, SkipTells
    <3>3. ~tainted => Told(op, s, p.index, r)
      BY <2>1, <2>4, <3>1, <3>2 DEF Told
    <3>4. IsParser(r.p)
      BY <3>1 DEF Standing
    <3>5. Tells(at, op, s, p, r)
      BY <3>1, <3>3, <3>4 DEF Tells
    <3> QED
      BY <1>0, <2>4, <3>5
  <2>6. CASE ~(~n.ok \/ e = -1)
    <3>1. r.err = "none" /\ r.p = Next1(p, e) /\ r.val = n.name
      BY <1>2, <1>5, <2>6
    <3>2. Standing(at, r.p) /\ IsParser(r.p)
      BY <2>3, <2>6, <3>1 DEF SkipTells, Standing
    <3>3. ~tainted => r.val = name
      BY <2>2, <2>6, <3>1 DEF QuestionTells
    <3>4. ~tainted => Told(op, s, p.index, r)
      BY <1>0, <1>5, <2>1, <2>4, <3>1, <3>3 DEF Told
    <3>5. Tells(at, op, s, p, r)
      BY <3>1, <3>2, <3>4 DEF Tells
    <3> QED
      BY <1>0, <2>4, <3>5
  <2> QED
    BY <2>5, <2>6
<1> QED
  BY <1>3, <1>4, <1>5 DEF Advanced

(* Parser.SkipQuestion.                                                       *)
LEMMA SkipQuestionCallTells ==
  ASSUME NEW at, Received(at), NEW p, Standing(at, p), p.sec = 1, NEW r, r = SkipQuestionCall(p)
  PROVE  Tells(at, "skip", 1, p, r)
<1>0. ~p.valid /\ p.valid = FALSE
  BY DEF Standing, Pending, IsParser
<1>1. PICK c, e, s : c = CheckAdvance(p, 1) /\ e = SkipQuestion(wire, p.off) /\ s = 1
  OBVIOUS
<1>2. r = IF c.err # "none" THEN [err |-> c.err, p |-> c.p, val |-> <<>>]
          ELSE IF e = -1 THEN [err |-> "bad", p |-> c.p, val |-> <<>>]
          ELSE [err |-> "none", p |-> Next1(c.p, e), val |-> <<>>]
  BY <1>1 DEF SkipQuestionCall
<1>3. Advanced(at, p, c)
  <2>1. c = CheckAdvance(p, p.sec) /\ p.sec \in 1 .. 4
    BY <1>1
  <2> QED
    BY <1>0, <2>1, Advances
<1>4. CASE p.index = Len(added[1]) /\ c.err = "done" /\ Standing(at, c.p)
  <2>1. r = [err |-> "done", p |-> c.p, val |-> <<>>]
    BY <1>2, <1>4
  <2>2. PICK op, v : op = "skip" /\ v = <<>>
    OBVIOUS
  <2>3. r = [err |-> "done", p |-> c.p, val |-> v]
    BY <2>1, <2>2
  <2>4. Tells(at, op, s, p, r)
    BY <1>1, <1>4, <2>3, DoneTells
  <2> QED
    BY <1>1, <2>2, <2>4
<1>5. CASE p.index < Len(added[1]) /\ c.err = "none" /\ c.p = p
  <2>1. SkipTells(at, p, ~(e = -1), e)
    <3>1. e = IF p.sec = 1 THEN SkipQuestion(wire, p.off) ELSE SkipResource(wire, p.off)
      BY <1>1
    <3>2. p.sec \in 1 .. 4 /\ p.index < Len(added[p.sec])
      BY <1>5
    <3> QED
      BY <1>0, <3>1, <3>2, SkipHere
  <2>2. PICK skipped \in BOOLEAN, v \in {<<>>} : skipped = ~(e = -1) /\ v = <<>>
    OBVIOUS
  <2>3. r = IF skipped THEN [err |-> "none", p |-> Next1(p, e), val |-> v] ELSE [err |-> "bad", p |-> p, val |-> v]
    BY <1>2, <1>5, <2>2
  <2>4. Tells(at, "skip", s, p, r)
    BY <1>1, <1>5, <2>1, <2>2, <2>3, SkippedTells DEF Standing
  <2> QED
    BY <1>1, <2>4
<1> QED
  BY <1>3, <1>4, <1>5 DEF Advanced

(* Parser.skipResource.                                                       *)
LEMMA SkipCallTells ==
  ASSUME NEW at, Received(at), NEW p, Standing(at, p), NEW s \in 2 .. 4, s = p.sec, NEW r, r = SkipCall(p, s)
  PROVE  Tells(at, "skip", s, p, r)
<1>1. PICK c, e : c = CheckAdvance(p, s) /\ e = SkipResource(wire, c.p.off)
  OBVIOUS
<1>2. CASE p.valid
  <2>1. PICK to : to = p.off + p.hlen
    OBVIOUS
  <2>2. PICK skipped \in BOOLEAN, v \in {<<>>} : skipped = ~(to > Len(wire)) /\ v = <<>>
    OBVIOUS
  <2>3. r = IF skipped THEN [err |-> "none", p |-> Next1(p, to), val |-> v] ELSE [err |-> "bad", p |-> p, val |-> v]
    BY <1>2, <2>1, <2>2 DEF SkipCall
  <2>4. SkipTells(at, p, skipped, to)
    BY <1>2, <2>1, <2>2, SkipPendingHere
  <2>5. p.index < Len(added[s]) /\ IsParser(p)
    BY <1>2 DEF Standing, Pending
  <2> QED
    BY <2>3, <2>4, <2>5, SkippedTells
<1>3. CASE ~p.valid
  <2>0. p.valid = FALSE /\ p.sec \in 1 .. 4
    BY <1>3 DEF Standing, IsParser
  <2>1. r = IF c.err # "none" THEN [err |-> c.err, p |-> c.p, val |-> <<>>]
            ELSE IF e = -1 THEN [err |-> "bad", p |-> c.p, val |-> <<>>]
            ELSE [err |-> "none", p |-> Next1(c.p, e), val |-> <<>>]
    BY <1>1, <1>3 DEF SkipCall
  <2>2. Advanced(at, p, c)
    BY <1>1, <1>3, <2>0, Advances
  <2>3. CASE p.index = Len(added[s]) /\ c.err = "done" /\ Standing(at, c.p)
    <3>1. r = [err |-> "done", p |-> c.p, val |-> <<>>]
      BY <2>1, <2>3
    <3>2. PICK op, v : op = "skip" /\ v = <<>>
      OBVIOUS
    <3>3. r = [err |-> "done", p |-> c.p, val |-> v]
      BY <3>1, <3>2
    <3>4. Tells(at, op, s, p, r)
      BY <2>3, <3>3, DoneTells
    <3> QED
      BY <3>2, <3>4
  <2>4. CASE p.index < Len(added[s]) /\ c.err = "none" /\ c.p = p
    <3>1. SkipTells(at, p, ~(e = -1), e)
      <4>1. e = IF p.sec = 1 THEN SkipQuestion(wire, p.off) ELSE SkipResource(wire, p.off)
        BY <1>1, <2>4
      <4>2. p.index < Len(added[p.sec])
        BY <2>4
      <4> QED
        BY <2>0, <4>1, <4>2, SkipHere
    <3>2. PICK skipped \in BOOLEAN, v \in {<<>>} : skipped = ~(e = -1) /\ v = <<>>
      OBVIOUS
    <3>3. r = IF skipped THEN [err |-> "none", p |-> Next1(p, e), val |-> v] ELSE [err |-> "bad", p |-> p, val |-> v]
      BY <2>1, <2>4, <3>2
    <3> QED
      BY <2>4, <3>1, <3>2, <3>3, SkippedTells DEF Standing
  <2> QED
    BY <2>2, <2>3, <2>4 DEF Advanced
<1> QED
  BY <1>2, <1>3

(* What a call for the header of section s gives, with the name, the type     *)
(* and the TTL that were added, or no header.                                 *)
HeaderGiven(at, p, s, r) ==
    \/ s # p.sec /\ r.err = (IF p.sec < s THEN "notstarted" ELSE "done") /\ IsParser(r.p) /\ r.p.sec = p.sec
       /\ (p.valid \/ r.p = p)
    \/ s = p.sec /\ p.index = Len(added[s]) /\ r.err = "done" /\ Standing(at, r.p)
    \/ /\ s = p.sec /\ p.index < Len(added[s]) /\ r.err = "bad" /\ IsParser(r.p)
       /\ tainted \/ IsCut \/ Len(added[s][p.index + 1].name) >= MaxHops
    \/ /\ s = p.sec /\ p.index < Len(added[s]) /\ r.err = "none" /\ Standing(at, r.p)
       /\ r.p.valid /\ r.p.sec = p.sec /\ r.p.index = p.index
       /\ r.val.type = added[s][p.index + 1].type /\ r.val.ttl = Given(added[s][p.index + 1])
       /\ ~tainted => r.val.name = added[s][p.index + 1].name

(* The ways a call for a header may end.                                      *)
HeaderWays(p, s, q, r) ==
    \/ s # p.sec /\ r = [err |-> IF p.sec < s THEN "notstarted" ELSE "done",
                         p |-> IF p.valid THEN [p EXCEPT !.off = p.hoff] ELSE p, val |-> <<>>]
    \/ s = p.sec /\ p.index = Len(added[s]) /\ \E c : c = CheckAdvance(p, s) /\ ~p.valid
       /\ r = IF c.err # "none" THEN [err |-> c.err, p |-> c.p, val |-> <<>>] ELSE r
    \/ s = p.sec /\ p.index < Len(added[s]) /\ \E h : h = UnpackHeader(wire, q.off)
       /\ r = IF ~h.ok THEN [err |-> "bad", p |-> q, val |-> <<>>]
              ELSE [err |-> "none", val |-> h, p |-> HeaderOf(q, h)]

(* Parser.resourceHeader ends in one of them.                                 *)
LEMMA HeaderCallWays ==
  ASSUME NEW at, Received(at), NEW p, Standing(at, p), p.sec \in 2 .. 4, NEW s \in 2 .. 4,
         NEW q, q = Rewound(p), NEW r, r = HeaderCall(p, s)
  PROVE  HeaderWays(p, s, q, r)
<1>12. PICK t \in 2 .. 4, i \in Nat, v \in BOOLEAN : t = p.sec /\ i = p.index /\ v = p.valid
  BY DEF Standing, IsParser
<1>13. PICK o, ho, ht, hl : o = p.off /\ ho = p.hoff /\ ht = p.htype /\ hl = p.hlen
  OBVIOUS
<1>0. /\ p = [sec |-> t, index |-> i, off |-> o, valid |-> v, hoff |-> ho, htype |-> ht, hlen |-> hl]
      /\ t = p.sec /\ i = p.index /\ v = p.valid /\ ho = p.hoff
  BY <1>12, <1>13 DEF Standing, IsParser
<1>1. PICK p0 : p0 = IF p.valid THEN [p EXCEPT !.off = p.hoff] ELSE p
  OBVIOUS
<1>2. PICK c : c = CheckAdvance(p0, s)
  OBVIOUS
<1>3. PICK h : h = UnpackHeader(wire, c.p.off)
  OBVIOUS
<1>4. r = IF c.err # "none" THEN [err |-> c.err, p |-> c.p, val |-> <<>>]
          ELSE IF ~h.ok THEN [err |-> "bad", p |-> c.p, val |-> <<>>]
          ELSE [err |-> "none", val |-> h,
                p |-> [c.p EXCEPT !.valid = TRUE, !.hoff = c.p.off, !.off = h.end, !.htype = h.type, !.hlen = h.length]]
  BY <1>1, <1>2, <1>3 DEF HeaderCall
<1>5. PICK x : p0 = [sec |-> t, index |-> i, off |-> x, valid |-> v, hoff |-> ho, htype |-> ht, hlen |-> hl]
  <2>1. CASE v
    <3>1. p0 = [p EXCEPT !.off = ho]
      BY <1>0, <1>1, <2>1
    <3> QED
      BY <1>0, <3>1
  <2>2. CASE ~v
    BY <1>0, <1>1, <2>2
  <2> QED
    BY <2>1, <2>2
<1>6. p0.sec = t /\ p0.index = i /\ p0.valid = v
  BY <1>5
<1>7. CASE s # t
  <2>1. c = [err |-> IF t < s THEN "notstarted" ELSE "done", p |-> p0]
    BY <1>2, <1>6, <1>7 DEF CheckAdvance
  <2>2. c.err # "none" /\ c.err = (IF t < s THEN "notstarted" ELSE "done") /\ c.p = p0
    BY <2>1
  <2> QED
    BY <1>0, <1>1, <1>4, <1>7, <2>2 DEF HeaderWays
<1>8. bld.counts[s] = Len(added[s]) /\ Len(added[s]) \in Nat
  <2>1. bld.counts[s] = Len(added[s]) /\ bld.counts[s] \in 0 .. MaxCount
    BY DEF Received, Counted
  <2> QED
    BY <2>1, MessageBounds
<1>9. i <= Len(added[t]) /\ (v => i < Len(added[t]))
  <2>1. i <= Len(added[t])
    BY <1>0 DEF Standing
  <2>2. v => i < Len(added[t])
    BY <1>0 DEF Standing, Pending
  <2> QED
    BY <2>1, <2>2
<1>10. CASE s = t /\ i = Len(added[s])
  <2>1. ~p.valid /\ p0 = p
    BY <1>0, <1>1, <1>8, <1>9, <1>10
  <2>2. r = IF c.err # "none" THEN [err |-> c.err, p |-> c.p, val |-> <<>>] ELSE r
    BY <1>4
  <2> QED
    BY <1>0, <1>2, <1>10, <2>1, <2>2 DEF HeaderWays
<1>11. CASE s = t /\ i # Len(added[s])
  <2>1. c = [err |-> "none", p |-> [p0 EXCEPT !.valid = FALSE]]
    BY <1>2, <1>6, <1>8, <1>11 DEF CheckAdvance
  <2>2. c.p = [p0 EXCEPT !.valid = FALSE] /\ c.err = "none"
    BY <2>1
  <2>3. c.p = q
    <3>1. CASE v
      <4>1. p0 = [p EXCEPT !.off = ho]
        BY <1>0, <1>1, <3>1
      <4>2. p0 = [sec |-> t, index |-> i, off |-> ho, valid |-> v, hoff |-> ho, htype |-> ht, hlen |-> hl]
        BY <1>0, <4>1
      <4>3. c.p = [sec |-> t, index |-> i, off |-> ho, valid |-> FALSE, hoff |-> ho, htype |-> ht, hlen |-> hl]
        BY <2>2, <4>2
      <4>4. q = [p EXCEPT !.off = ho, !.valid = FALSE]
        BY <1>0, <3>1 DEF Rewound
      <4>5. q = [sec |-> t, index |-> i, off |-> ho, valid |-> FALSE, hoff |-> ho, htype |-> ht, hlen |-> hl]
        BY <1>0, <4>4
      <4> QED
        BY <4>3, <4>5
    <3>2. CASE ~v
      <4>1. q = p /\ p0 = p
        BY <1>0, <1>1, <3>2 DEF Rewound
      <4>2. p = [sec |-> t, index |-> i, off |-> o, valid |-> FALSE, hoff |-> ho, htype |-> ht, hlen |-> hl]
        BY <1>0, <3>2
      <4>3. c.p = [sec |-> t, index |-> i, off |-> o, valid |-> FALSE, hoff |-> ho, htype |-> ht, hlen |-> hl]
        BY <2>2, <4>1, <4>2
      <4> QED
        BY <4>1, <4>2, <4>3
    <3> QED
      BY <3>1, <3>2
  <2>4. h = UnpackHeader(wire, q.off)
    BY <1>3, <2>3
  <2>5. r = IF ~h.ok THEN [err |-> "bad", p |-> q, val |-> <<>>] ELSE [err |-> "none", val |-> h, p |-> HeaderOf(q, h)]
    BY <1>4, <2>2, <2>3 DEF HeaderOf
  <2>6. i < Len(added[s])
    BY <1>8, <1>9, <1>11
  <2> QED
    BY <1>0, <1>11, <2>4, <2>5, <2>6 DEF HeaderWays
<1> QED
  BY <1>7, <1>10, <1>11

(* And gives what HeaderGiven says.                                           *)
LEMMA HeaderCallGives ==
  ASSUME NEW at, Received(at), TtlsGiven(at), NEW p, Standing(at, p), p.sec \in 2 .. 4, NEW s \in 2 .. 4,
         NEW r, r = HeaderCall(p, s)
  PROVE  HeaderGiven(at, p, s, r)
<1>1. PICK q : q = Rewound(p) /\ Rewinds(at, p, q)
  BY RewoundStands
<1>2. HeaderWays(p, s, q, r)
  BY <1>1, HeaderCallWays
<1>3. CASE s # p.sec /\ r = [err |-> IF p.sec < s THEN "notstarted" ELSE "done",
                             p |-> IF p.valid THEN [p EXCEPT !.off = p.hoff] ELSE p, val |-> <<>>]
  <2>1. r.err = (IF p.sec < s THEN "notstarted" ELSE "done") /\ r.p = IF p.valid THEN [p EXCEPT !.off = p.hoff] ELSE p
    BY <1>3
  <2>2. IsParser(r.p) /\ r.p.sec = p.sec
    <3>1. CASE p.valid
      <4>1. PICK ho : ho = p.hoff
        OBVIOUS
      <4>2. q = [p EXCEPT !.off = ho, !.valid = FALSE] /\ r.p = [p EXCEPT !.off = ho]
        BY <1>1, <2>1, <3>1, <4>1 DEF Rewound
      <4>3. PICK t, i, o, ht, hl : p = [sec |-> t, index |-> i, off |-> o, valid |-> TRUE, hoff |-> ho, htype |-> ht, hlen |-> hl]
        BY <3>1, <4>1 DEF Standing, IsParser
      <4>4. q = [sec |-> t, index |-> i, off |-> ho, valid |-> FALSE, hoff |-> ho, htype |-> ht, hlen |-> hl]
        BY <4>2, <4>3
      <4>5. r.p = [sec |-> t, index |-> i, off |-> ho, valid |-> TRUE, hoff |-> ho, htype |-> ht, hlen |-> hl]
        BY <4>2, <4>3
      <4>6. IsParser(q)
        BY <1>1 DEF Rewinds, Standing
      <4>7. t \in 1 .. 5 /\ i \in 0 .. MaxCount /\ ho \in 1 .. Len(wire)
        BY <4>4, <4>6 DEF IsParser
      <4>8. IsParser(r.p)
        BY <4>5, <4>7 DEF IsParser
      <4> QED
        BY <4>3, <4>5, <4>8
    <3>2. CASE ~p.valid
      BY <2>1, <3>2 DEF Standing
    <3> QED
      BY <3>1, <3>2
  <2>3. p.valid \/ r.p = p
    BY <2>1
  <2> QED
    BY <1>3, <2>1, <2>2, <2>3 DEF HeaderGiven
<1>4. CASE s = p.sec /\ p.index = Len(added[s]) /\ \E c : c = CheckAdvance(p, s) /\ ~p.valid
           /\ r = IF c.err # "none" THEN [err |-> c.err, p |-> c.p, val |-> <<>>] ELSE r
  <2>1. PICK c : /\ c = CheckAdvance(p, s) /\ ~p.valid
                 /\ r = IF c.err # "none" THEN [err |-> c.err, p |-> c.p, val |-> <<>>] ELSE r
    BY <1>4
  <2>2. p.valid = FALSE /\ p.sec \in 1 .. 4 /\ c = CheckAdvance(p, p.sec)
    BY <1>4, <2>1 DEF Standing, IsParser
  <2>3. Advanced(at, p, c)
    BY <2>1, <2>2, Advances
  <2>4. Len(added[s]) \in Nat
    BY MessageBounds DEF Received, Counted
  <2>5. c.err = "done" /\ Standing(at, c.p)
    <3>1. ~ (p.index < Len(added[p.sec]))
      BY <1>4, <2>4
    <3> QED
      BY <2>3, <3>1 DEF Advanced
  <2>6. r.err = "done" /\ r.p = c.p
    <3>1. r = [err |-> c.err, p |-> c.p, val |-> <<>>]
      BY <2>1, <2>5
    <3> QED
      BY <2>5, <3>1
  <2> QED
    BY <1>4, <2>5, <2>6 DEF HeaderGiven
<1>5. CASE s = p.sec /\ p.index < Len(added[s]) /\ \E h : h = UnpackHeader(wire, q.off)
           /\ r = IF ~h.ok THEN [err |-> "bad", p |-> q, val |-> <<>>]
                  ELSE [err |-> "none", val |-> h, p |-> HeaderOf(q, h)]
  <2>1. PICK h : /\ h = UnpackHeader(wire, q.off)
                 /\ r = IF ~h.ok THEN [err |-> "bad", p |-> q, val |-> <<>>]
                        ELSE [err |-> "none", val |-> h, p |-> HeaderOf(q, h)]
    BY <1>5
  <2>2. PICK x : x = added[s][p.index + 1]
    OBVIOUS
  <2>3. Standing(at, q) /\ q.valid = FALSE /\ q.sec = s /\ q.index = p.index
    BY <1>1, <1>5 DEF Rewinds
  <2>4. HeaderTells(at, q, x, h)
    <3>1. q.sec \in 2 .. 4 /\ q.index < Len(added[q.sec]) /\ x = added[q.sec][q.index + 1]
      BY <1>5, <2>2, <2>3
    <3> QED
      BY <2>1, <2>3, <3>1, HeaderHere
  <2>5. CASE h.ok
    <3>1. r.err = "none" /\ r.val = h /\ r.p = HeaderOf(q, h)
      BY <2>1, <2>5
    <3>2. r.p.valid /\ r.p.sec = p.sec /\ r.p.index = p.index
      <4>1. PICK t, i, o, ho, ht, hl : q = [sec |-> t, index |-> i, off |-> o, valid |-> FALSE, hoff |-> ho, htype |-> ht, hlen |-> hl]
        BY <2>3 DEF Standing, IsParser
      <4>2. PICK a, b, c : a = h.end /\ b = h.type /\ c = h.length
        OBVIOUS
      <4>3. r.p = [q EXCEPT !.valid = TRUE, !.hoff = q.off, !.off = a, !.htype = b, !.hlen = c]
        BY <3>1, <4>2 DEF HeaderOf
      <4>4. r.p = [sec |-> t, index |-> i, off |-> a, valid |-> TRUE, hoff |-> o, htype |-> b, hlen |-> c]
        BY <4>1, <4>3
      <4> QED
        BY <1>5, <2>3, <4>1, <4>4
    <3>3. Standing(at, r.p) /\ h.type = x.type /\ h.ttl = Given(x) /\ (~tainted => h.name = x.name)
      BY <2>4, <2>5, <3>1 DEF HeaderTells
    <3> QED
      BY <1>5, <2>2, <3>1, <3>2, <3>3 DEF HeaderGiven
  <2>6. CASE ~h.ok
    <3>1. r.err = "bad" /\ r.p = q
      BY <2>1, <2>6
    <3>2. tainted \/ IsCut \/ Len(x.name) >= MaxHops
      BY <2>4, <2>6 DEF HeaderTells
    <3>3. IsParser(r.p)
      BY <2>3, <3>1 DEF Standing
    <3> QED
      BY <1>5, <2>2, <3>1, <3>2, <3>3 DEF HeaderGiven
  <2> QED
    BY <2>5, <2>6
<1> QED
  BY <1>2, <1>3, <1>4, <1>5 DEF HeaderWays

(* A record's own name is one of its names.                                   *)
LEMMA NameIsLong == ASSUME NEW r, Len(r.name) >= MaxHops PROVE LongNames(r)
BY DEF LongNames, NamesOf

(* Parser.resourceHeader.                                                     *)
LEMMA HeaderCallTells ==
  ASSUME NEW at, Received(at), TtlsGiven(at), NEW p, Standing(at, p), p.sec \in 2 .. 4, NEW s \in 2 .. 4,
         NEW r, r = HeaderCall(p, s)
  PROVE  Tells(at, "header", s, p, r)
<1> DEFINE op == "header"
<1>0. op = "header"
  OBVIOUS
<1> HIDE DEF op
<1>1. HeaderGiven(at, p, s, r)
  BY HeaderCallGives
<1>2. PICK x, i : i = p.index /\ x = added[s][i + 1]
  OBVIOUS
<1>3. CASE s # p.sec /\ r.err = (IF p.sec < s THEN "notstarted" ELSE "done") /\ IsParser(r.p) /\ r.p.sec = p.sec
           /\ (p.valid \/ r.p = p)
  <2>1. r.err \in {"notstarted", "done"} /\ (r.err = "done" => s < r.p.sec)
    <3>1. CASE p.sec < s
      BY <1>3, <3>1
    <3>2. CASE ~ (p.sec < s)
      <4>1. s < p.sec
        BY <1>3, <3>2
      <4> QED
        BY <1>3, <3>2, <4>1
    <3> QED
      BY <3>1, <3>2
  <2>2. ~Strays(op, s, p) => Standing(at, r.p)
    BY <1>0, <1>3 DEF Strays
  <2>3. Told(op, s, p.index, r)
    BY <2>1 DEF Told
  <2>4. Tells(at, op, s, p, r)
    BY <1>3, <2>1, <2>2, <2>3 DEF Tells
  <2> QED
    BY <1>0, <2>4
<1>4. CASE s = p.sec /\ p.index = Len(added[s]) /\ r.err = "done" /\ Standing(at, r.p)
  <2>1. IsParser(r.p)
    BY <1>4 DEF Standing
  <2>2. Told(op, s, p.index, r)
    BY <1>4 DEF Told
  <2>3. Tells(at, op, s, p, r)
    BY <1>4, <2>1, <2>2 DEF Tells
  <2> QED
    BY <1>0, <2>3
<1>5. CASE /\ s = p.sec /\ p.index < Len(added[s]) /\ r.err = "bad" /\ IsParser(r.p)
           /\ tainted \/ IsCut \/ Len(x.name) >= MaxHops
  <2>1. tainted \/ IsCut \/ LongNames(x)
    BY <1>5, NameIsLong
  <2>2. s > 1
    OBVIOUS
  <2>3. ~tainted => Told(op, s, p.index, r)
    BY <1>2, <1>5, <2>1, <2>2 DEF Told
  <2>4. Tells(at, op, s, p, r)
    BY <1>5, <2>3 DEF Tells
  <2> QED
    BY <1>0, <2>4
<1>6. CASE /\ s = p.sec /\ p.index < Len(added[s]) /\ r.err = "none" /\ Standing(at, r.p)
           /\ r.val.type = x.type /\ r.val.ttl = Given(x)
           /\ ~tainted => r.val.name = x.name
  <2>1. IsParser(r.p)
    BY <1>6 DEF Standing
  <2>2. ~tainted => Told(op, s, p.index, r)
    BY <1>0, <1>2, <1>6 DEF Told
  <2>3. Tells(at, op, s, p, r)
    BY <1>6, <2>1, <2>2 DEF Tells
  <2> QED
    BY <1>0, <2>3
<1> QED
  BY <1>1, <1>2, <1>3, <1>4, <1>5, <1>6 DEF HeaderGiven

(* Parser.CNAMEResource and the like.                                         *)
LEMMA DataCallTells ==
  ASSUME NEW at, Received(at), NEW p, Standing(at, p), NEW s \in 2 .. 4, s = p.sec, NEW r, r = DataCall(p)
  PROVE  Tells(at, "data", s, p, r)
<1> DEFINE op == "data"
<1>0. op = "data" /\ ~Strays(op, s, p)
  BY DEF Strays
<1> HIDE DEF op
<1>1. PICK b : b = UnpackBody(wire, p.off, p.htype, p.hlen)
  OBVIOUS
<1>2. r = IF ~p.valid THEN [err |-> "notstarted", p |-> p, val |-> <<>>]
          ELSE IF ~b.ok THEN [err |-> "bad", p |-> p, val |-> <<>>]
          ELSE [err |-> "none", p |-> Next1(p, p.off + p.hlen), val |-> b.vals]
  BY <1>1 DEF DataCall
<1>3. IsParser(p)
  BY DEF Standing
<1>4. PICK x : x = added[s][p.index + 1]
  OBVIOUS
<1>5. CASE ~p.valid
  <2>1. r.err = "notstarted" /\ r.p = p
    BY <1>2, <1>5
  <2>2. Told(op, s, p.index, r)
    BY <2>1 DEF Told
  <2>3. Tells(at, op, s, p, r)
    BY <1>3, <2>1, <2>2 DEF Tells
  <2> QED
    BY <1>0, <2>3
<1>6. CASE p.valid
  <2>1. DataTells(at, p, x, b)
    BY <1>1, <1>4, <1>6, DataHere
  <2>2. p.index < Len(added[s])
    BY <1>6 DEF Standing, Pending
  <2>3. CASE ~b.ok
    <3>1. r.err = "bad" /\ r.p = p
      BY <1>2, <1>6, <2>3
    <3>2. tainted \/ IsCut \/ LongNames(x)
      BY <2>1, <2>3 DEF DataTells
    <3>3. ~tainted => Told(op, s, p.index, r)
      BY <1>4, <3>1, <3>2 DEF Told
    <3>4. Tells(at, op, s, p, r)
      BY <1>3, <3>1, <3>3 DEF Tells
    <3> QED
      BY <1>0, <3>4
  <2>4. CASE b.ok
    <3>1. r.err = "none" /\ r.p = Next1(p, p.off + p.hlen) /\ r.val = b.vals
      BY <1>2, <1>6, <2>4
    <3>2. Standing(at, r.p) /\ IsParser(r.p) /\ (~tainted => r.val = Read(x))
      BY <2>1, <2>4, <3>1 DEF DataTells, Standing
    <3>3. ~tainted => Told(op, s, p.index, r)
      BY <1>0, <1>4, <2>2, <3>1, <3>2 DEF Told
    <3>4. Tells(at, op, s, p, r)
      BY <3>1, <3>2, <3>3 DEF Tells
    <3> QED
      BY <1>0, <3>4
  <2> QED
    BY <2>3, <2>4
<1> QED
  BY <1>5, <1>6

(* Parser.resource: the header, then the data.                                *)
LEMMA ResourceCallTells ==
  ASSUME NEW at, Received(at), TtlsGiven(at), NEW p, Standing(at, p), NEW s \in 2 .. 4, s = p.sec,
         NEW r, r = ResourceCall(p, s)
  PROVE  Tells(at, "data", s, p, r)
<1> DEFINE op == "data"
<1>0. op = "data" /\ ~Strays(op, s, p)
  BY DEF Strays
<1> HIDE DEF op
<1>1. PICK h : h = HeaderCall(p, s)
  OBVIOUS
<1>2. HeaderGiven(at, p, s, h)
  BY <1>1, HeaderCallGives
<1>3. PICK b, q : b = UnpackBody(wire, h.p.off, h.p.htype, h.p.hlen) /\ q = h.p
  OBVIOUS
<1>4. r = IF h.err # "none" THEN h
          ELSE IF ~b.ok THEN [err |-> "bad", p |-> [q EXCEPT !.valid = FALSE], val |-> <<>>]
          ELSE [err |-> "none", p |-> Next1(q, q.off + q.hlen), val |-> b.vals]
  BY <1>1, <1>3 DEF ResourceCall
<1>5. PICK x, i : i = p.index /\ x = added[s][i + 1]
  OBVIOUS
<1>6. CASE p.index = Len(added[s]) /\ h.err = "done" /\ Standing(at, h.p)
  <2>1. r = h
    BY <1>4, <1>6
  <2>2. IsParser(r.p) /\ Told(op, s, p.index, r)
    BY <1>6, <2>1 DEF Standing, Told
  <2>3. Tells(at, op, s, p, r)
    BY <1>6, <2>1, <2>2 DEF Tells
  <2> QED
    BY <1>0, <2>3
<1>7. CASE /\ h.err = "bad" /\ IsParser(h.p)
           /\ tainted \/ IsCut \/ Len(x.name) >= MaxHops
  <2>1. r = h
    BY <1>4, <1>7
  <2>2. tainted \/ IsCut \/ LongNames(x)
    BY <1>7, NameIsLong
  <2>3. s > 1
    OBVIOUS
  <2>4. ~tainted => Told(op, s, p.index, r)
    BY <1>5, <1>7, <2>1, <2>2, <2>3 DEF Told
  <2>5. Tells(at, op, s, p, r)
    BY <1>7, <2>1, <2>4 DEF Tells
  <2> QED
    BY <1>0, <2>5
<1>8. CASE p.index < Len(added[s]) /\ h.err = "none" /\ Standing(at, q) /\ q.valid /\ q.sec = s /\ q.index = i
  <2>1. x = added[q.sec][q.index + 1]
    BY <1>5, <1>8
  <2>2. b = UnpackBody(wire, q.off, q.htype, q.hlen)
    BY <1>3
  <2>3. DataTells(at, q, x, b)
    BY <1>8, <2>1, <2>2, DataHere
  <2>4. CASE ~b.ok
    <3>1. PICK z : z = [q EXCEPT !.valid = FALSE]
      OBVIOUS
    <3>2. r = [err |-> "bad", p |-> z, val |-> <<>>]
      BY <1>4, <1>8, <2>4, <3>1
    <3>3. IsParser(z)
      <4>1. PICK t, j, o, v, ho, ht, hl : q = [sec |-> t, index |-> j, off |-> o, valid |-> v, hoff |-> ho, htype |-> ht, hlen |-> hl]
        BY <1>8 DEF Standing, IsParser
      <4>2. t \in 1 .. 5 /\ j \in 0 .. MaxCount /\ o \in 1 .. Len(wire)
        BY <1>8, <4>1 DEF Standing, IsParser
      <4>3. z = [sec |-> t, index |-> j, off |-> o, valid |-> FALSE, hoff |-> ho, htype |-> ht, hlen |-> hl]
        BY <3>1, <4>1
      <4> QED
        BY <4>2, <4>3 DEF IsParser
    <3>4. r.err = "bad" /\ r.p = z
      BY <3>2
    <3>5. tainted \/ IsCut \/ LongNames(x)
      BY <2>3, <2>4 DEF DataTells
    <3>6. ~tainted => Told(op, s, p.index, r)
      BY <1>5, <3>4, <3>5 DEF Told
    <3>7. Tells(at, op, s, p, r)
      BY <3>3, <3>4, <3>6 DEF Tells
    <3> QED
      BY <1>0, <3>7
  <2>5. CASE b.ok
    <3>1. r.err = "none" /\ r.p = Next1(q, q.off + q.hlen) /\ r.val = b.vals
      BY <1>4, <1>8, <2>5
    <3>2. Standing(at, r.p) /\ IsParser(r.p) /\ (~tainted => r.val = Read(x))
      BY <2>3, <2>5, <3>1 DEF DataTells, Standing
    <3>3. ~tainted => Told(op, s, p.index, r)
      BY <1>0, <1>5, <1>8, <3>1, <3>2 DEF Told
    <3>4. Tells(at, op, s, p, r)
      BY <3>1, <3>2, <3>3 DEF Tells
    <3> QED
      BY <1>0, <3>4
  <2> QED
    BY <2>4, <2>5
<1> QED
  BY <1>2, <1>3, <1>5, <1>6, <1>7, <1>8 DEF HeaderGiven

------------------------------------------------------------------------------
(* updateTTL, record by record.                                               *)

(* The TTLs of a message, aged record by record.                              *)
FirstAged(w) == [over |-> FALSE, off |-> Questions(w), msg |-> w, min |-> MaxTTLValue]

(* The answer is older than the TTL it may be given.                          *)
TooOld(age, maxAge) == maxAge > 0 /\ age > maxAge

(* One step of updateTTL.                                                     *)
AgeOne(st, i, age, maxAge, maxTTL) ==
    LET end == FieldsEnd(st.msg, st.off)
        opt == At(st.msg, end - 3)[2] = "OPT"
        rest == Rest(At(st.msg, end - 2)[2], age)
        least == IF maxAge > 0 /\ age > maxAge THEN 0 ELSE Min({st.min, rest})
        given == IF maxTTL > 0 THEN Min({rest, maxTTL}) ELSE rest
        after == end + At(st.msg, end - 1)[2]
    IN IF st.off >= Len(st.msg) THEN [st EXCEPT !.over = TRUE]
       ELSE IF end = -1 THEN [st EXCEPT !.over = TRUE, !.min = 0]
       ELSE [over |-> after > Len(st.msg), off |-> after,
             msg |-> IF opt THEN st.msg ELSE [st.msg EXCEPT ![end - 1] = <<"ttl", given>>],
             min |-> IF after > Len(st.msg) THEN 0 ELSE IF opt \/ ~CountsInMin(i) THEN st.min ELSE least]

(* The steps of updateTTL.                                                    *)
UpdateSteps(w, age, maxAge, maxTTL, f) ==
    /\ f[0] = FirstAged(w)
    /\ \A n \in 1 .. (3 * MaxCount) : f[n] = IF f[n - 1].over THEN f[n - 1] ELSE AgeOne(f[n - 1], n, age, maxAge, maxTTL)

(* What it returns after the last of them.                                    *)
Updated(w, last) ==
    IF Questions(w) = -1 THEN [msg |-> w, min |-> 0]
    ELSE [msg |-> last.msg, min |-> IF last.min = MaxTTLValue THEN 0 ELSE last.min]

(* UpdateTTL is that.                                                         *)
LEMMA UpdateUnfolds ==
  ASSUME NEW w, NEW age, NEW maxAge, NEW maxTTL
  PROVE  \E f : UpdateSteps(w, age, maxAge, maxTTL, f) /\ UpdateTTL(w, age, maxAge, maxTTL) = Updated(w, f[bld.counts[2] + bld.counts[3] + bld.counts[4]])
<1> DEFINE Step(x, n) == IF x.over THEN x ELSE AgeOne(x, n, age, maxAge, maxTTL)
           IsDone(d, m) == d = [n \in 0 .. m |-> IF n = 0 THEN FirstAged(w) ELSE Step(d[n - 1], n)]
           Bad == {m \in Nat : ~ \E d : IsDone(d, m)}
<1> HIDE DEF Step
<1>0. (3 * MaxCount) \in Nat
  BY MessageBounds
<1>1. \A m \in Nat : \E d : IsDone(d, m)
  <2> SUFFICES ASSUME Bad # {} PROVE FALSE
    OBVIOUS
  <2>1. PICK m \in Bad : \A k \in Bad : m <= k
    <3> HIDE DEF Bad
    <3>1. Bad \in SUBSET Nat
      BY DEF Bad
    <3> QED
      BY <3>1, LeastNatural
  <2>2. CASE m = 0
    <3>1. IsDone([n \in 0 .. 0 |-> FirstAged(w)], 0)
      OBVIOUS
    <3> QED
      BY <3>1, <2>2, <2>1
  <2>3. CASE m # 0
    <3>1. m - 1 \in Nat /\ m - 1 \notin Bad
      <4>1. m \in Nat
        BY <2>1
      <4> HIDE DEF Bad
      <4> QED
        BY <2>1, <2>3, <4>1
    <3>2. PICK d : IsDone(d, m - 1)
      BY <3>1
    <3> DEFINE e == [n \in 0 .. m |-> IF n = m THEN Step(d[m - 1], m) ELSE d[n]]
    <3>3. \A n \in 0 .. m : e[n] = IF n = 0 THEN FirstAged(w) ELSE Step(e[n - 1], n)
      <4> TAKE n \in 0 .. m
      <4>1. CASE n = 0
        BY <4>1, <3>1, <3>2
      <4>2. CASE n # 0 /\ n # m
        BY <4>2, <3>1, <3>2
      <4>3. CASE n # 0 /\ n = m
        BY <4>3, <3>1, <3>2
      <4> QED
        BY <4>1, <4>2, <4>3
    <3>4. IsDone(e, m)
      BY <3>3
    <3> QED
      BY <3>4, <2>1
  <2> QED
    BY <2>2, <2>3
<1>2. PICK d : IsDone(d, (3 * MaxCount))
  BY <1>0, <1>1
<1> DEFINE f == CHOOSE x : IsDone(x, (3 * MaxCount))
<1>3. IsDone(f, (3 * MaxCount))
  BY <1>2
<1>4. UpdateTTL(w, age, maxAge, maxTTL) = Updated(w, f[bld.counts[2] + bld.counts[3] + bld.counts[4]])
  BY DEF UpdateTTL, AgeOne, FirstAged, Updated, Step
<1> HIDE DEF f
<1>5. f[0] = FirstAged(w) /\ \A n \in 1 .. (3 * MaxCount) : f[n] = Step(f[n - 1], n)
  BY <1>0, <1>3
<1> QED
  BY <1>4, <1>5 DEF Step, UpdateSteps

(* The type of a message being aged.                                          *)
IsAging(st) ==
    st = [over |-> st.over, off |-> st.off, msg |-> st.msg, min |-> st.min] /\ st.over \in BOOLEAN

(* The TTL a record is given.                                                 *)
GivenTo(r, age, maxTTL) ==
    LET rest == Rest(r.ttl, age) IN IF maxTTL > 0 THEN Min({rest, maxTTL}) ELSE rest

(* What a record comes to: it was cut, or its TTL is rewritten where it       *)
(* stands.                                                                    *)
RecordAged(st, i, r, l, e, age, maxAge, maxTTL, y) ==
    /\ IsAging(y)
    /\ ~ (l + 3 <= Len(st.msg)) => y.over /\ y.msg = st.msg /\ (y.min = 0 \/ y.min = st.min)
    /\ l + 3 <= Len(st.msg) =>
           /\ y.over = (~ (e <= Len(st.msg))) /\ y.off = e
           /\ y.msg = IF r.type = "OPT" THEN st.msg ELSE [st.msg EXCEPT ![l + 2] = <<"ttl", GivenTo(r, age, maxTTL)>>]
           /\ y.min = IF ~ (e <= Len(st.msg)) THEN 0
                      ELSE IF r.type = "OPT" \/ ~CountsInMin(i) THEN st.min
                      ELSE IF TooOld(age, maxAge) THEN 0 ELSE Min({st.min, Rest(r.ttl, age)})

(* One step of updateTTL does that to the record it stands at.                *)
LEMMA OneIsAged ==
  ASSUME NEW st, IsAging(st), NEW i, NEW msg, NEW r, NEW l, NEW e, NEW o,
         RecordRead(st.msg, msg, o, r, l, e), o = st.off, l + 3 <= Len(st.msg) => At(st.msg, l + 1)[2] = r.ttl,
         NEW age, NEW maxAge, NEW maxTTL, NEW y, y = AgeOne(st, i, age, maxAge, maxTTL)
  PROVE  RecordAged(st, i, r, l, e, age, maxAge, maxTTL, y)
<1>1. PICK w, ov, mn : w = st.msg /\ st = [over |-> ov, off |-> o, msg |-> w, min |-> mn] /\ ov \in BOOLEAN
  BY DEF IsAging
<1>2. st.msg = w /\ st.off = o /\ st.min = mn
  BY <1>1
<1>3. PICK size \in Nat : size = Len(w)
  BY <1>2 DEF RecordRead
<1>4. /\ o \in Nat /\ l \in Nat /\ e \in Nat /\ o < l /\ l + 3 <= e
      /\ FieldsEnd(w, o) = Until(w, l + 3)
      /\ l + 3 <= size => /\ At(w, l)[2] = r.type /\ At(w, l + 2)[2] = e - (l + 3) /\ At(w, l + 1)[2] = r.ttl
  BY <1>2, <1>3 DEF RecordRead
<1>5. PICK end : end = FieldsEnd(w, o)
  OBVIOUS
<1>6. PICK opt, ttl, after : opt = At(w, end - 3)[2] /\ ttl = At(w, end - 2)[2] /\ after = end + At(w, end - 1)[2]
  OBVIOUS
<1>12. PICK rest, given, least :
            /\ rest = Rest(ttl, age)
            /\ given = IF maxTTL > 0 THEN Min({rest, maxTTL}) ELSE rest
            /\ least = IF TooOld(age, maxAge) THEN 0 ELSE Min({mn, rest})
  OBVIOUS
<1>13. PICK more, min : /\ more = IF opt = "OPT" THEN w ELSE [w EXCEPT ![end - 1] = <<"ttl", given>>]
                        /\ min = IF after > size THEN 0 ELSE IF opt = "OPT" \/ ~CountsInMin(i) THEN mn ELSE least
  OBVIOUS
<1>14. PICK y1, y2, y3 : /\ y1 = [st EXCEPT !.over = TRUE] /\ y2 = [st EXCEPT !.over = TRUE, !.min = 0]
                         /\ y3 = [over |-> after > size, off |-> after, msg |-> more, min |-> min]
  OBVIOUS
<1>7. y = IF o >= size THEN y1 ELSE IF end = -1 THEN y2 ELSE y3
  <2>1. FieldsEnd(st.msg, st.off) = end /\ st.msg = w /\ st.off = o /\ st.min = mn /\ Len(w) = size
    BY <1>2, <1>3, <1>5
  <2> QED
    BY ONLY <2>1, <1>6, <1>12, <1>13, <1>14, y = AgeOne(st, i, age, maxAge, maxTTL) DEF AgeOne, TooOld
<1>15. y1 = [over |-> TRUE, off |-> o, msg |-> w, min |-> mn] /\ y2 = [over |-> TRUE, off |-> o, msg |-> w, min |-> 0]
  <2>1. st = [over |-> ov, off |-> o, msg |-> w, min |-> mn]
    BY <1>1
  <2>2. y1 = [over |-> TRUE, off |-> o, msg |-> w, min |-> mn]
    BY ONLY <2>1, <1>14
  <2>3. y2 = [over |-> TRUE, off |-> o, msg |-> w, min |-> 0]
    BY ONLY <2>1, <1>14
  <2> QED
    BY ONLY <2>2, <2>3
<1>8. CASE o >= size
  <2>1. y = [over |-> TRUE, off |-> o, msg |-> w, min |-> mn]
    BY ONLY <1>7, <1>8, <1>15
  <2>2. y.over = TRUE /\ y.off = o /\ y.msg = w /\ y.min = mn
    BY <2>1
  <2>3. ~ (l + 3 <= size)
    BY <1>4, <1>8
  <2>4. IsAging(y)
    BY <2>1, <2>2 DEF IsAging
  <2> QED
    BY ONLY <1>2, <1>3, <2>2, <2>3, <2>4 DEF RecordAged
<1>9. CASE ~ (o >= size) /\ ~ (l + 3 <= size)
  <2>1. end = -1
    BY <1>3, <1>4, <1>5, <1>9 DEF Until
  <2>2. y = [over |-> TRUE, off |-> o, msg |-> w, min |-> 0]
    BY ONLY <1>7, <1>9, <1>15, <2>1
  <2>3. y.over = TRUE /\ y.off = o /\ y.msg = w /\ y.min = 0
    BY <2>2
  <2>4. IsAging(y)
    BY <2>2, <2>3 DEF IsAging
  <2> QED
    BY ONLY <1>2, <1>3, <1>9, <2>3, <2>4 DEF RecordAged
<1>10. CASE ~ (o >= size) /\ l + 3 <= size
  <2>1. end = l + 3
    BY <1>3, <1>4, <1>5, <1>10 DEF Until
  <2>2. end # -1 /\ end - 3 = l /\ end - 2 = l + 1 /\ end - 1 = l + 2
    BY <1>4, <2>1
  <2>3. opt = r.type /\ ttl = r.ttl /\ after = e
    <3>1. At(w, end - 1)[2] = e - (l + 3)
      BY <1>4, <1>10, <2>2
    <3>2. after = e
      BY <1>4, <1>6, <2>1, <3>1
    <3> QED
      BY <1>4, <1>6, <1>10, <2>2, <3>2
  <2>4. (e > size) = (~ (e <= size))
    BY <1>4
  <2>5. PICK over : over = (~ (e <= size)) /\ over = (after > size)
    BY <2>3, <2>4
  <2>6. y = [over |-> over, off |-> e, msg |-> more, min |-> min]
    BY ONLY <1>7, <1>10, <1>14, <2>2, <2>3, <2>5
  <2>7. y.over = over /\ y.off = e /\ y.msg = more /\ y.min = min
    BY <2>6
  <2>8. IsAging(y)
    BY <2>5, <2>6, <2>7 DEF IsAging
  <2>9. given = GivenTo(r, age, maxTTL) /\ rest = Rest(r.ttl, age)
    <3>1. rest = Rest(r.ttl, age)
      BY ONLY <1>12, <2>3
    <3> QED
      BY ONLY <1>12, <3>1 DEF GivenTo
  <2>10. more = IF r.type = "OPT" THEN w ELSE [w EXCEPT ![l + 2] = <<"ttl", GivenTo(r, age, maxTTL)>>]
    BY ONLY <1>13, <2>2, <2>3, <2>9
  <2>11. min = IF ~ (e <= size) THEN 0
               ELSE IF r.type = "OPT" \/ ~CountsInMin(i) THEN mn
               ELSE IF TooOld(age, maxAge) THEN 0 ELSE Min({mn, Rest(r.ttl, age)})
    BY ONLY <1>12, <1>13, <2>3, <2>5, <2>9
  <2>12. /\ y.over = (~ (e <= Len(st.msg))) /\ y.off = e
         /\ y.msg = IF r.type = "OPT" THEN st.msg ELSE [st.msg EXCEPT ![l + 2] = <<"ttl", GivenTo(r, age, maxTTL)>>]
         /\ y.min = IF ~ (e <= Len(st.msg)) THEN 0
                    ELSE IF r.type = "OPT" \/ ~CountsInMin(i) THEN st.min
                    ELSE IF TooOld(age, maxAge) THEN 0 ELSE Min({st.min, Rest(r.ttl, age)})
    BY ONLY <1>2, <1>3, <2>5, <2>7, <2>10, <2>11
  <2>13. l + 3 <= Len(st.msg)
    BY ONLY <1>2, <1>3, <1>10
  <2> QED
    BY ONLY <2>8, <2>12, <2>13 DEF RecordAged
<1> QED
  BY <1>8, <1>9, <1>10

(* The i-th record of a message, its questions left aside.                    *)
Records == Len(added[2]) + Len(added[3]) + Len(added[4])

(* There are finitely many.                                                   *)
LEMMA RecordsNat == ASSUME NEW at, Received(at) PROVE Records \in Nat
<1>1. PICK b, c, d \in Nat : b = Len(added[2]) /\ c = Len(added[3]) /\ d = Len(added[4])
  BY LensAre DEF Received
<1>2. b + c + d \in Nat
  OBVIOUS
<1> QED
  BY ONLY <1>1, <1>2 DEF Records

(* The i-th of them.                                                          *)
RecordNo(i) == ItemsOf(added)[Len(added[1]) + i]

(* Where it ends.                                                             *)
PlaceOf(at, i) == at[Len(added[1]) + i]

(* It stands where Laid says, its name to l.                                  *)
RecAt(at, i, l) == RecordHere(bld.msg, bld.table, ~tainted, PlaceOf(at, i - 1), RecordNo(i), l, PlaceOf(at, i))

(* It is a record, and stands.                                                *)
RecIs(at, i) ==
    /\ PlaceOf(at, i - 1) \in Nat /\ PlaceOf(at, i) \in Nat
    /\ RecordNo(i) \in MsgRecords /\ \E l \in Nat : RecAt(at, i, l)

(* Each of them does.                                                         *)
LEMMA RecordsAre == ASSUME NEW at, Received(at), NEW i \in 1 .. Records PROVE RecIs(at, i)
<1>1. PICK q, b, c, d \in Nat : q = Len(added[1]) /\ b = Len(added[2]) /\ c = Len(added[3]) /\ d = Len(added[4])
  BY LensAre DEF Received
<1>12. Records = b + c + d /\ i \in 1 .. Records
  BY <1>1 DEF Records
<1>13. i \in 1 .. (b + c + d) /\ i \in Nat /\ q + i \in Nat
  BY ONLY <1>12, q \in Nat, b \in Nat, c \in Nat, d \in Nat
<1>2. PICK n \in Nat : n = q + i /\ i \in 1 .. (b + c + d)
  BY ONLY <1>13
<1>3. ItemsGive(added, ItemsOf(added)) /\ IsAdded(added)
  BY ItemsAre DEF Received
<1>4. Len(ItemsOf(added)) = q + b + c + d /\ ItemsBefore(added, 5) = q + b + c + d
  BY <1>1, <1>3, BeforeIs DEF ItemsGive
<1>5. n \in 1 .. Len(ItemsOf(added)) /\ n - 1 \in 0 .. Len(ItemsOf(added)) /\ n \in 0 .. Len(ItemsOf(added)) /\ ~ (n <= q)
  BY ONLY <1>2, <1>4, q \in Nat, b \in Nat, c \in Nat, d \in Nat, n \in Nat
<1>6. at[n - 1] \in Nat /\ at[n] \in Nat
  BY <1>5 DEF Received, Laid
<1>7. PICK r, o, e : r = ItemsOf(added)[n] /\ o = at[n - 1] /\ e = at[n]
  OBVIOUS
<1>8. RecordIn(bld.msg, bld.table, ~tainted, o, r, e)
  <2>1. ItemIn(bld.msg, bld.table, ~tainted, n <= q, o, r, e)
    BY <1>1, <1>5, <1>7 DEF Received, Laid
  <2> QED
    BY <1>5, <2>1 DEF ItemIn
<1>9. PICK l \in Nat : RecordHere(bld.msg, bld.table, ~tainted, o, r, l, e)
  BY <1>8 DEF RecordIn, RecordHere
<1>10. r \in MsgRecords
  <2>1. n \in 1 .. ItemsBefore(added, 5)
    BY <1>4, <1>5
  <2>2. PICK t \in 1 .. 4, k \in Nat : k \in 1 .. Len(added[t]) /\ n = ItemsBefore(added, t) + k
    BY <1>3, <2>1, PlaceIs
  <2>3. t # 1
    <3>1. t = 1 => n = k /\ k <= q
      <4>1. ItemsBefore(added, 1) = 0
        BY BeforeIs
      <4>2. t = 1 => n = 0 + k /\ k \in 1 .. q
        BY ONLY <1>1, <2>2, <4>1
      <4> QED
        BY ONLY <4>2, q \in Nat, k \in Nat
    <3> QED
      BY <1>5, <3>1
  <2>4. added[t] \in Seq(MsgRecords)
    BY <1>3, <2>3 DEF IsAdded
  <2>5. r = added[t][k]
    BY <1>3, <1>7, <2>2 DEF ItemsGive, InSection
  <2> QED
    BY <2>2, <2>4, <2>5
<1>11. Len(added[1]) + i = n /\ Len(added[1]) + (i - 1) = n - 1
  BY <1>1, <1>2
<1> QED
  BY <1>6, <1>7, <1>9, <1>10, <1>11 DEF RecIs, RecAt, RecordNo, PlaceOf

(* They stand one after the other.                                            *)
LEMMA PlacesGrow ==
  ASSUME NEW at, Received(at), NEW i \in 0 .. Records, NEW j \in 0 .. i
  PROVE  PlaceOf(at, j) \in Nat /\ PlaceOf(at, i) \in Nat /\ PlaceOf(at, j) <= PlaceOf(at, i)
<1>1. PICK q, b, c, d \in Nat : q = Len(added[1]) /\ b = Len(added[2]) /\ c = Len(added[3]) /\ d = Len(added[4])
  BY LensAre DEF Received
<1>2. Len(ItemsOf(added)) = q + b + c + d
  BY <1>1, ItemsAre, BeforeIs DEF ItemsGive, Received
<1>6. Records = b + c + d /\ i \in 0 .. Records
  BY <1>1 DEF Records
<1>3. i \in Nat /\ j \in Nat /\ q + i \in 0 .. (q + b + c + d) /\ q + j \in 0 .. (q + i)
  BY ONLY <1>6, j \in 0 .. i, q \in Nat, b \in Nat, c \in Nat, d \in Nat
<1>7. q + i \in Nat /\ q + j \in Nat
  BY ONLY <1>3, q \in Nat
<1>4. PICK n, k \in Nat : n = q + i /\ k = q + j /\ n \in 0 .. Len(ItemsOf(added)) /\ k \in 0 .. n
  BY ONLY <1>2, <1>3, <1>7
<1>5. at[n] \in Nat /\ at[k] \in Nat /\ at[k] <= at[n]
  <2>1. k \in 0 .. Len(ItemsOf(added))
    BY <1>2, <1>4
  <2> QED
    BY <1>4, <2>1 DEF Received, Laid
<1> QED
  BY <1>1, <1>4, <1>5 DEF PlaceOf

(* The TTLs of the first n records are aged.                                  *)
TtlTo(r, age, maxTTL) == IF r.type = "OPT" THEN r.ttl ELSE GivenTo(r, age, maxTTL)

(* The first n records have their new TTLs, the others those that were added. *)
TtlAged(at, n, age, maxTTL, w) ==
    \A i \in 1 .. Records : \A l \in Nat :
        RecAt(at, i, l) /\ l + 3 <= Len(wire) =>
            At(w, l + 1)[2] = IF i <= n THEN TtlTo(RecordNo(i), age, maxTTL) ELSE RecordNo(i).ttl

(* The message being aged is still a copy, of the same length.                *)
Aging(w) == Copy(w, bld.msg, {"ttl"}) /\ Len(w) = Len(wire)

(* Its records are read where they were packed.                               *)
LEMMA RecRead ==
  ASSUME NEW at, NEW w, Aging(w), NEW i, NEW l \in Nat, RecAt(at, i, l)
  PROVE  RecordRead(w, bld.msg, PlaceOf(at, i - 1), RecordNo(i), l, PlaceOf(at, i))
<1>1. PICK loose \in SUBSET Loose : loose = {"ttl"} /\ Copy(w, bld.msg, loose)
  BY DEF Aging, Loose
<1> QED
  BY <1>1, RecordReads DEF RecAt

(* Writing the n-th TTL changes no other record's.                            *)
LEMMA TtlStep ==
  ASSUME NEW at, Received(at), NEW n \in 1 .. Records, NEW age, NEW maxTTL, NEW w, Aging(w),
         TtlAged(at, n - 1, age, maxTTL, w), NEW l \in Nat, RecAt(at, n, l), l + 3 <= Len(w),
         NEW y, y = IF RecordNo(n).type = "OPT" THEN w ELSE [w EXCEPT ![l + 2] = <<"ttl", GivenTo(RecordNo(n), age, maxTTL)>>]
  PROVE  TtlAged(at, n, age, maxTTL, y)
<1> SUFFICES ASSUME NEW j \in 1 .. Records, NEW k \in Nat, RecAt(at, j, k), k + 3 <= Len(wire)
             PROVE  At(y, k + 1)[2] = IF j <= n THEN TtlTo(RecordNo(j), age, maxTTL) ELSE RecordNo(j).ttl
  BY DEF TtlAged
<1>0. Records \in Nat
  BY RecordsNat
<1>1. PICK size \in Nat : size = Len(w) /\ size = Len(wire) /\ DOMAIN w = 1 .. size
  BY SeqHas DEF Aging, Copy
<1>2. At(w, k + 1)[2] = IF j <= n - 1 THEN TtlTo(RecordNo(j), age, maxTTL) ELSE RecordNo(j).ttl
  BY DEF TtlAged
<1>3. RecordRead(w, bld.msg, PlaceOf(at, n - 1), RecordNo(n), l, PlaceOf(at, n))
  BY RecRead
<1>4. RecordRead(w, bld.msg, PlaceOf(at, j - 1), RecordNo(j), k, PlaceOf(at, j))
  BY RecRead
<1>5. PICK a, b, c, d \in Nat : /\ a = PlaceOf(at, n - 1) /\ b = PlaceOf(at, n) /\ c = PlaceOf(at, j - 1) /\ d = PlaceOf(at, j)
                                /\ a < l /\ l + 3 <= b /\ c < k /\ k + 3 <= d
  BY <1>3, <1>4 DEF RecordRead
<1>6. At(y, k + 1) = y[k + 2] /\ At(w, k + 1) = w[k + 2] /\ k + 2 \in DOMAIN w
  <2>1. (k + 1) + 1 = k + 2
    OBVIOUS
  <2> QED
    BY <1>1, <2>1 DEF At
<1>7. CASE j = n
  <2>1. k = l
    <3>1. FieldsEnd(w, a) = Until(w, l + 3) /\ FieldsEnd(w, a) = Until(w, k + 3)
      BY <1>3, <1>4, <1>5, <1>7 DEF RecordRead
    <3> QED
      BY <1>1, <3>1 DEF Until
  <2>2. CASE RecordNo(n).type = "OPT"
    <3>1. y = w /\ j <= n /\ ~ (j <= n - 1)
      BY <1>7, <2>2
    <3> QED
      BY <1>2, <1>7, <2>2, <3>1 DEF TtlTo
  <2>3. CASE RecordNo(n).type # "OPT"
    <3>1. y[k + 2] = <<"ttl", GivenTo(RecordNo(n), age, maxTTL)>>
      BY <1>6, <2>1, <2>3
    <3>2. At(y, k + 1)[2] = GivenTo(RecordNo(n), age, maxTTL) /\ j <= n
      BY <1>6, <1>7, <3>1
    <3> QED
      BY <1>7, <2>3, <3>2 DEF TtlTo
  <2> QED
    BY <2>2, <2>3
<1>8. CASE j # n
  <2>1. k # l
    <3>1. CASE j < n
      <4>1. d <= a
        <5>1. n - 1 \in 0 .. Records /\ j \in 0 .. n - 1
          BY <1>0, <3>1
        <5> QED
          BY <1>5, <5>1, PlacesGrow
      <4> QED
        BY <1>5, <4>1
    <3>2. CASE j > n
      <4>1. b <= c
        <5>1. j - 1 \in 0 .. Records /\ n \in 0 .. j - 1
          BY <1>0, <3>2
        <5> QED
          BY <1>5, <5>1, PlacesGrow
      <4> QED
        BY <1>5, <4>1
    <3> QED
      BY <1>0, <1>8, <3>1, <3>2
  <2>2. y[k + 2] = w[k + 2]
    BY <2>1
  <2>3. (j <= n) <=> (j <= n - 1)
    BY <1>0, <1>8
  <2> QED
    BY <1>2, <1>6, <2>2, <2>3
<1> QED
  BY <1>7, <1>8

(* Writing a TTL keeps a copy.                                                *)
LEMMA AgingKept ==
  ASSUME NEW w, Aging(w), NEW p \in Nat, p + 1 \in 1 .. Len(w), At(w, p)[1] = "ttl", NEW v, NEW y, y = [w EXCEPT ![p + 1] = <<"ttl", v>>]
  PROVE  Aging(y)
<1>1. PICK size \in Nat : size = Len(w) /\ DOMAIN w = 1 .. size /\ size > 0 /\ MsgPrefix + size <= Len(bld.msg) /\ Len(bld.msg) \in Nat
                          /\ IsSeq(w) /\ size = Len(wire)
  BY SeqHas DEF Aging, Copy
<1>2. IsSeq(y) /\ Len(y) = size
  BY <1>1, ExceptIs
<1>3. ASSUME NEW o \in 0 .. size - 1
      PROVE  At(y, o)[1] = Cell(bld.msg, o)[1] /\ (Cell(bld.msg, o)[1] \notin {"ttl"} => At(y, o) = Cell(bld.msg, o))
  <2>1. At(w, o)[1] = Cell(bld.msg, o)[1] /\ (Cell(bld.msg, o)[1] \notin {"ttl"} => At(w, o) = Cell(bld.msg, o))
    BY <1>1 DEF Aging, Copy
  <2>2. PICK x, z : x = At(w, o) /\ z = At(y, o) /\ x = w[o + 1] /\ z = y[o + 1]
    BY DEF At
  <2>3. CASE o = p
    <3>1. z = <<"ttl", v>>
      BY <1>1, <2>2, <2>3
    <3>2. z[1] = "ttl"
      BY ONLY <3>1
    <3>3. x[1] = "ttl"
      BY <2>2, <2>3
    <3> QED
      BY <2>1, <2>2, <3>2, <3>3
  <2>4. CASE o # p
    <3>1. z = x
      BY <1>1, <2>2, <2>4
    <3> QED
      BY <2>1, <2>2, <3>1
  <2> QED
    BY <2>3, <2>4
<1> QED
  BY <1>1, <1>2, <1>3 DEF Aging, Copy

(* What is left of a TTL is one.                                              *)
LEMMA RestIs ==
  ASSUME NEW ttl \in 0 .. MaxTTLValue, NEW age \in Nat
  PROVE  Rest(ttl, age) \in 0 .. MaxTTLValue
BY DEF Rest, MaxTTLValue

(* Min of two numbers.                                                        *)
LEMMA LessOf ==
  ASSUME NEW a \in Nat, NEW b \in Nat
  PROVE  Min({a, b}) \in {a, b} /\ Min({a, b}) <= a /\ Min({a, b}) <= b
<1>1. {a, b} \in SUBSET Nat /\ {a, b} # {}
  OBVIOUS
<1> QED
  BY <1>1, MinIs

(* The least of the TTLs of the first n records.                              *)
Weighs(i) == CountsInMin(i) /\ RecordNo(i).type # "OPT"

(* min is what is left to one of the first n.                                 *)
IsRest(n, min, age) == \E i \in 1 .. n : Weighs(i) /\ min = Rest(RecordNo(i).ttl, age)

(* min is no more than what is left to any of them.                           *)
NoMore(n, min, age) == \A i \in 1 .. n : Weighs(i) => min <= Rest(RecordNo(i).ttl, age)

(* What the least TTL kept by updateTTL is after n records.                   *)
MinSo(n, over, min, age, maxAge) ==
    /\ min \in 0 .. MaxTTLValue
    /\ min = MaxTTLValue \/ (min = 0 /\ (over \/ TooOld(age, maxAge))) \/ IsRest(n, min, age)
    /\ TooOld(age, maxAge) => min \in {0, MaxTTLValue}
    /\ ~over => NoMore(n, min, age)

(* It is kept once the message was cut.                                       *)
LEMMA MinOver ==
  ASSUME NEW n \in Nat, n > 0, NEW over, NEW min, NEW age, NEW maxAge, MinSo(n - 1, over, min, age, maxAge), NEW y, y = min \/ y = 0
  PROVE  MinSo(n, TRUE, y, age, maxAge)
<1>1. IsRest(n - 1, min, age) => IsRest(n, min, age)
  BY DEF IsRest
<1>2. 0 \in 0 .. MaxTTLValue
  BY DEF MaxTTLValue
<1>3. CASE y = min
  BY <1>1, <1>3 DEF MinSo
<1>4. CASE y = 0
  BY <1>2, <1>4 DEF MinSo
<1> QED
  BY <1>3, <1>4

(* One record more.                                                           *)
LEMMA MinStep ==
  ASSUME NEW n \in Nat, n > 0, NEW min, NEW age \in Nat, NEW maxAge, MinSo(n - 1, FALSE, min, age, maxAge),
         \A i \in 1 .. n : RecordNo(i).ttl \in 0 .. MaxTTLValue,
         NEW y, y = IF RecordNo(n).type = "OPT" \/ ~CountsInMin(n) THEN min
                    ELSE IF TooOld(age, maxAge) THEN 0 ELSE Min({min, Rest(RecordNo(n).ttl, age)})
  PROVE  MinSo(n, FALSE, y, age, maxAge)
<1>1. IsRest(n - 1, min, age) => IsRest(n, min, age)
  BY DEF IsRest
<1>2. 0 \in 0 .. MaxTTLValue /\ MaxTTLValue \in Nat
  BY DEF MaxTTLValue
<1>3. NoMore(n - 1, min, age) /\ min \in 0 .. MaxTTLValue
  BY DEF MinSo
<1>4. ASSUME NEW i \in 1 .. n PROVE Rest(RecordNo(i).ttl, age) \in 0 .. MaxTTLValue
  BY <1>4, RestIs
<1>5. PICK rest \in 0 .. MaxTTLValue : rest = Rest(RecordNo(n).ttl, age)
  <2>1. n \in 1 .. n
    OBVIOUS
  <2> QED
    BY <1>4, <2>1
<1>6. CASE ~Weighs(n)
  <2>1. y = min
    BY <1>6 DEF Weighs
  <2>2. NoMore(n, min, age)
    BY <1>3, <1>6 DEF NoMore
  <2> QED
    BY <1>1, <2>1, <2>2 DEF MinSo
<1>7. CASE Weighs(n) /\ TooOld(age, maxAge)
  <2>1. y = 0
    BY <1>7 DEF Weighs
  <2>2. NoMore(n, 0, age)
    BY <1>2, <1>4 DEF NoMore
  <2> QED
    BY <1>2, <1>7, <2>1, <2>2 DEF MinSo
<1>8. CASE Weighs(n) /\ ~TooOld(age, maxAge)
  <2>1. y = Min({min, rest})
    BY <1>5, <1>8 DEF Weighs
  <2>2. y \in {min, rest} /\ y <= min /\ y <= rest
    <3>1. min \in Nat /\ rest \in Nat
      BY <1>2, <1>3
    <3> QED
      BY <2>1, <3>1, LessOf
  <2>3. y \in 0 .. MaxTTLValue
    BY <1>3, <2>2
  <2>4. NoMore(n, y, age)
    <3> SUFFICES ASSUME NEW i \in 1 .. n, Weighs(i) PROVE y <= Rest(RecordNo(i).ttl, age)
      BY DEF NoMore
    <3>1. CASE i = n
      BY <1>5, <2>2, <3>1
    <3>2. CASE i # n
      <4>1. i \in 1 .. n - 1
        BY <3>2
      <4>2. PICK x : x = Rest(RecordNo(i).ttl, age) /\ min <= x /\ x \in 0 .. MaxTTLValue
        BY <1>3, <1>4, <4>1 DEF NoMore
      <4> QED
        BY <1>2, <1>3, <2>2, <2>3, <4>2
    <3> QED
      BY <3>1, <3>2
  <2>5. y = rest => IsRest(n, y, age)
    <3>1. n \in 1 .. n
      OBVIOUS
    <3> QED
      BY <1>5, <1>8, <3>1 DEF IsRest
  <2>6. y = min => y = MaxTTLValue \/ IsRest(n, y, age)
    BY <1>1, <1>8 DEF MinSo
  <2> QED
    BY <1>8, <2>2, <2>3, <2>4, <2>5, <2>6 DEF MinSo
<1> QED
  BY <1>6, <1>7, <1>8

------------------------------------------------------------------------------
(* What the ageing of the first n records has come to.                        *)
AgedSo(at, n, x, age, maxAge, maxTTL) ==
    /\ IsAging(x) /\ Aging(x.msg)
    /\ x.over = (~ (PlaceOf(at, n) <= Len(wire)))
    /\ ~x.over => x.off = PlaceOf(at, n)
    /\ TtlAged(at, n, age, maxTTL, x.msg)
    /\ MinSo(n, x.over, x.min, age, maxAge)

(* Nothing is aged past the place where the message was cut.                  *)
LEMMA StaysOver ==
  ASSUME NEW at, Received(at), NEW n \in 1 .. Records, NEW age, NEW maxAge, NEW maxTTL,
         NEW x, AgedSo(at, n - 1, x, age, maxAge, maxTTL), x.over
  PROVE  AgedSo(at, n, x, age, maxAge, maxTTL)
<1>0. Records \in Nat /\ n \in Nat /\ n > 0 /\ n - 1 \in 0 .. n /\ n \in 0 .. Records
  BY RecordsNat
<1>13. PICK w : w = x.msg /\ Aging(w)
  BY DEF AgedSo
<1>14. PICK size \in Nat : size = Len(w) /\ size = Len(wire)
  BY <1>13 DEF Aging, Copy
<1>1. w = x.msg /\ Aging(w) /\ size = Len(w) /\ size = Len(wire) /\ size \in Nat
  BY <1>13, <1>14
<1>2. PICK a, b \in Nat : a = PlaceOf(at, n - 1) /\ b = PlaceOf(at, n) /\ a <= b
  BY <1>0, PlacesGrow
<1>3. ~ (a <= size) /\ ~ (b <= size)
  <2>1. ~ (a <= size)
    BY <1>1, <1>2 DEF AgedSo
  <2> QED
    BY ONLY <1>2, <2>1, a \in Nat, b \in Nat, size \in Nat
<1>4. TtlAged(at, n, age, maxTTL, w)
  <2> SUFFICES ASSUME NEW j \in 1 .. Records, NEW k \in Nat, RecAt(at, j, k), k + 3 <= Len(wire)
               PROVE  At(w, k + 1)[2] = IF j <= n THEN TtlTo(RecordNo(j), age, maxTTL) ELSE RecordNo(j).ttl
    BY DEF TtlAged
  <2>1. At(w, k + 1)[2] = IF j <= n - 1 THEN TtlTo(RecordNo(j), age, maxTTL) ELSE RecordNo(j).ttl
    BY <1>1 DEF AgedSo, TtlAged
  <2>2. j # n
    <3> SUFFICES ASSUME j = n PROVE FALSE
      OBVIOUS
    <3>1. a < k
      BY <1>1, <1>2, RecRead DEF RecordRead
    <3> QED
      BY <1>1, <1>2, <1>3, <3>1
  <2>3. (j <= n) <=> (j <= n - 1)
    BY <1>0, <2>2
  <2> QED
    BY <2>1, <2>3
<1>5. MinSo(n, TRUE, x.min, age, maxAge)
  <2>1. MinSo(n - 1, x.over, x.min, age, maxAge)
    BY DEF AgedSo
  <2> QED
    BY <1>0, <2>1, MinOver
<1>6. x.over = TRUE
  BY DEF AgedSo, IsAging
<1> QED
  BY <1>1, <1>2, <1>3, <1>4, <1>5, <1>6 DEF AgedSo

(* One record more.                                                           *)
LEMMA NextAged ==
  ASSUME NEW at, Received(at), NEW n \in 1 .. Records, NEW age \in Nat, NEW maxAge, NEW maxTTL,
         NEW x, AgedSo(at, n - 1, x, age, maxAge, maxTTL), ~x.over, NEW y, y = AgeOne(x, n, age, maxAge, maxTTL)
  PROVE  AgedSo(at, n, y, age, maxAge, maxTTL)
<1>0. Records \in Nat /\ n \in Nat /\ n > 0 /\ n - 1 \in 0 .. n /\ n \in 0 .. Records /\ n \in 1 .. Records
  BY RecordsNat
<1>13. PICK w : w = x.msg /\ Aging(w)
  BY DEF AgedSo
<1>14. PICK size \in Nat : size = Len(w) /\ size = Len(wire)
  BY <1>13 DEF Aging, Copy
<1>1. w = x.msg /\ Aging(w) /\ size = Len(w) /\ size = Len(wire) /\ size \in Nat
  BY <1>13, <1>14
<1>2. PICK a, b \in Nat : a = PlaceOf(at, n - 1) /\ b = PlaceOf(at, n) /\ a <= b
  BY <1>0, PlacesGrow
<1>15. PICK l \in Nat : RecAt(at, n, l)
  BY <1>0, RecordsAre DEF RecIs
<1>16. PICK r : r = RecordNo(n)
  OBVIOUS
<1>3. r = RecordNo(n) /\ RecAt(at, n, l)
  BY <1>15, <1>16
<1>4. RecordRead(w, bld.msg, a, r, l, b)
  BY <1>1, <1>2, <1>3, RecRead
<1>5. a < l /\ l + 3 <= b
  BY <1>4 DEF RecordRead
<1>6. x.off = a /\ TtlAged(at, n - 1, age, maxTTL, w) /\ MinSo(n - 1, FALSE, x.min, age, maxAge) /\ IsAging(x)
  <2>1. x.over = FALSE
    BY DEF AgedSo, IsAging
  <2> QED
    BY <1>1, <1>2, <2>1 DEF AgedSo
<1>7. l + 3 <= size => At(w, l + 1)[2] = r.ttl
  <2>1. ~ (n <= n - 1)
    BY <1>0
  <2> QED
    BY <1>1, <1>3, <1>6, <2>1 DEF TtlAged
<1>8. RecordAged(x, n, r, l, b, age, maxAge, maxTTL, y)
  BY <1>1, <1>4, <1>6, <1>7, OneIsAged
<1>9. \A i \in 1 .. n : RecordNo(i).ttl \in 0 .. MaxTTLValue
  <2> SUFFICES ASSUME NEW i \in 1 .. n PROVE RecordNo(i).ttl \in 0 .. MaxTTLValue
    OBVIOUS
  <2>1. i \in 1 .. Records
    BY <1>0
  <2>2. RecordNo(i) \in MsgRecords
    BY <2>1, RecordsAre DEF RecIs
  <2> QED
    BY <2>2, MessageAssumption
<1>10. IsAging(y)
  BY <1>8 DEF RecordAged
<1>11. CASE ~ (l + 3 <= size)
  <2>1. y.over /\ y.msg = w /\ (y.min = 0 \/ y.min = x.min)
    BY <1>1, <1>8, <1>11 DEF RecordAged
  <2>2. y.over = TRUE
    BY <1>10, <2>1 DEF IsAging
  <2>3. ~ (b <= size)
    BY <1>5, <1>11
  <2>4. MinSo(n, TRUE, y.min, age, maxAge)
    BY <1>0, <1>6, <2>1, MinOver
  <2>5. TtlAged(at, n, age, maxTTL, w)
    <3> SUFFICES ASSUME NEW j \in 1 .. Records, NEW k \in Nat, RecAt(at, j, k), k + 3 <= Len(wire)
                 PROVE  At(w, k + 1)[2] = IF j <= n THEN TtlTo(RecordNo(j), age, maxTTL) ELSE RecordNo(j).ttl
      BY DEF TtlAged
    <3>1. At(w, k + 1)[2] = IF j <= n - 1 THEN TtlTo(RecordNo(j), age, maxTTL) ELSE RecordNo(j).ttl
      BY <1>6 DEF TtlAged
    <3>2. j # n
      <4> SUFFICES ASSUME j = n PROVE FALSE
        OBVIOUS
      <4>1. RecordRead(w, bld.msg, a, r, k, b)
        BY <1>1, <1>2, <1>3, RecRead
      <4>2. FieldsEnd(w, a) = Until(w, l + 3) /\ FieldsEnd(w, a) = Until(w, k + 3)
        BY <1>4, <4>1 DEF RecordRead
      <4> QED
        BY <1>1, <1>11, <4>2 DEF Until
    <3>3. (j <= n) <=> (j <= n - 1)
      BY <1>0, <3>2
    <3> QED
      BY <3>1, <3>3
  <2> QED
    BY <1>1, <1>2, <1>10, <2>1, <2>2, <2>3, <2>4, <2>5 DEF AgedSo
<1>12. CASE l + 3 <= size
  <2>1. /\ y.over = (~ (b <= size)) /\ y.off = b
        /\ y.msg = IF r.type = "OPT" THEN w ELSE [w EXCEPT ![l + 2] = <<"ttl", GivenTo(r, age, maxTTL)>>]
        /\ y.min = IF ~ (b <= size) THEN 0
                   ELSE IF r.type = "OPT" \/ ~CountsInMin(n) THEN x.min
                   ELSE IF TooOld(age, maxAge) THEN 0 ELSE Min({x.min, Rest(r.ttl, age)})
    BY <1>1, <1>8, <1>12 DEF RecordAged
  <2>2. PICK more : more = y.msg
    OBVIOUS
  <2>3. TtlAged(at, n, age, maxTTL, more)
    <3>1. l + 3 <= Len(w)
      BY <1>1, <1>12
    <3> QED
      BY <1>1, <1>3, <1>6, <2>1, <2>2, <3>1, TtlStep
  <2>4. Aging(more)
    <3>1. CASE r.type = "OPT"
      BY <1>1, <2>1, <2>2, <3>1
    <3>2. CASE r.type # "OPT"
      <4>1. At(w, l + 1)[1] = "ttl"
        BY <1>1, <1>4, <1>12 DEF RecordRead
      <4>2. PICK p \in Nat : p = l + 1 /\ p + 1 = l + 2 /\ p + 1 \in 1 .. Len(w)
        BY <1>1, <1>12
      <4>3. more = [w EXCEPT ![p + 1] = <<"ttl", GivenTo(r, age, maxTTL)>>]
        BY <2>1, <2>2, <3>2, <4>2
      <4> QED
        BY <1>1, <4>1, <4>2, <4>3, AgingKept
    <3> QED
      BY <3>1, <3>2
  <2>5. MinSo(n, y.over, y.min, age, maxAge)
    <3>1. CASE ~ (b <= size)
      <4>1. y.over = TRUE /\ y.min = 0
        BY <2>1, <3>1
      <4> QED
        BY <1>0, <1>6, <4>1, MinOver
    <3>2. CASE b <= size
      <4>1. y.over = FALSE
        BY <2>1, <3>2
      <4>2. y.min = IF RecordNo(n).type = "OPT" \/ ~CountsInMin(n) THEN x.min
                    ELSE IF TooOld(age, maxAge) THEN 0 ELSE Min({x.min, Rest(RecordNo(n).ttl, age)})
        BY <1>3, <2>1, <3>2
      <4> QED
        BY <1>0, <1>6, <1>9, <4>1, <4>2, MinStep
    <3> QED
      BY <3>1, <3>2
  <2> QED
    BY <1>1, <1>2, <1>10, <2>1, <2>2, <2>3, <2>4, <2>5 DEF AgedSo
<1> QED
  BY <1>11, <1>12

(* What updateTTL has done to all records.                                    *)
UpdatedSo(at, u, age, maxAge, maxTTL) ==
    /\ Aging(u.msg) /\ TtlAged(at, Records, age, maxTTL, u.msg)
    /\ \E min : /\ MinSo(Records, ~ (PlaceOf(at, Records) <= Len(wire)), min, age, maxAge)
                /\ u.min = IF min = MaxTTLValue THEN 0 ELSE min

(* It begins at the first record.                                             *)
LEMMA FirstIsAged ==
  ASSUME NEW at, Received(at), NEW age, NEW maxAge, NEW maxTTL, TtlAged(at, 0, age, maxTTL, wire), Questions(wire) # -1
  PROVE  AgedSo(at, 0, FirstAged(wire), age, maxAge, maxTTL)
<1>1. Questions(wire) = Until(wire, PlaceOf(at, 0))
  <2>1. PICK loose \in SUBSET Loose : loose = {"ttl"} /\ Copy(wire, bld.msg, loose)
    BY DEF Received, Loose
  <2>2. Questions(wire) = Until(wire, at[ItemsBefore(added, 2)])
    BY <2>1, QuestionsSkipped DEF Received
  <2>3. PICK q \in Nat : q = Len(added[1]) /\ ItemsBefore(added, 2) = q
    BY LensAre, BeforeIs DEF Received
  <2>4. q + 0 = q
    OBVIOUS
  <2> QED
    BY <2>2, <2>3, <2>4 DEF PlaceOf
<1>2. PICK x : x = FirstAged(wire)
  OBVIOUS
<1>3. x = [over |-> FALSE, off |-> Questions(wire), msg |-> wire, min |-> MaxTTLValue]
  BY <1>2 DEF FirstAged
<1>4. x.over = FALSE /\ x.off = Questions(wire) /\ x.msg = wire /\ x.min = MaxTTLValue
  BY <1>3
<1>5. PlaceOf(at, 0) <= Len(wire) /\ x.off = PlaceOf(at, 0)
  BY <1>1, <1>4 DEF Until
<1>6. IsAging(x)
  BY <1>3, <1>4 DEF IsAging
<1>7. Aging(wire)
  BY DEF Aging, Received
<1>8. MinSo(0, FALSE, MaxTTLValue, age, maxAge)
  <2>1. MaxTTLValue \in 0 .. MaxTTLValue
    BY DEF MaxTTLValue
  <2>2. NoMore(0, MaxTTLValue, age)
    BY DEF NoMore
  <2> QED
    BY <2>1, <2>2 DEF MinSo
<1> QED
  BY <1>2, <1>4, <1>5, <1>6, <1>7, <1>8 DEF AgedSo

(* It ages them all, one by one.                                              *)
LEMMA AllAged ==
  ASSUME NEW at, Received(at), NEW age \in Nat, NEW maxAge, NEW maxTTL, TtlAged(at, 0, age, maxTTL, wire),
         Questions(wire) # -1, NEW f, UpdateSteps(wire, age, maxAge, maxTTL, f)
  PROVE  \A n \in 0 .. Records : AgedSo(at, n, f[n], age, maxAge, maxTTL)
<1> DEFINE Bad == {i \in 0 .. Records : ~AgedSo(at, i, f[i], age, maxAge, maxTTL)}
<1> SUFFICES ASSUME Bad # {} PROVE FALSE
  OBVIOUS
<1>1. Bad \in SUBSET Nat
  OBVIOUS
<1>2. PICK n \in Bad : \A k \in Bad : n <= k
  <2> HIDE DEF Bad
  <2> QED
    BY <1>1, LeastNatural
<1>3. n \in 0 .. Records /\ ~AgedSo(at, n, f[n], age, maxAge, maxTTL)
  OBVIOUS
<1>4. n # 0
  <2>1. f[0] = FirstAged(wire)
    BY DEF UpdateSteps
  <2> QED
    BY <1>3, <2>1, FirstIsAged
<1>5. n \in 1 .. Records /\ n - 1 \in 0 .. Records
  BY <1>3, <1>4, RecordsNat
<1>6. n - 1 \notin Bad
  <2> HIDE DEF Bad
  <2>1. n \in Nat /\ ~ (n <= n - 1)
    BY <1>5
  <2> QED
    BY <1>2, <2>1
<1>7. PICK x : x = f[n - 1] /\ AgedSo(at, n - 1, x, age, maxAge, maxTTL)
  BY <1>5, <1>6
<1>8. n \in 1 .. (3 * MaxCount)
  <2>1. PICK b, c, d \in Nat : b = Len(added[2]) /\ c = Len(added[3]) /\ d = Len(added[4])
    BY LensAre DEF Received
  <2>2. b <= MaxCount /\ c <= MaxCount /\ d <= MaxCount /\ MaxCount \in Nat
    <3>1. \A s \in 1 .. 4 : Len(added[s]) \in 0 .. MaxCount
      BY DEF Received, Counted
    <3>2. MaxCount \in Nat
      BY MessageBounds
    <3>3. b \in 0 .. MaxCount /\ c \in 0 .. MaxCount /\ d \in 0 .. MaxCount
      BY ONLY <2>1, <3>1
    <3> QED
      BY ONLY <3>2, <3>3
  <2>3. Records = b + c + d
    BY <2>1 DEF Records
  <2> QED
    BY ONLY <1>5, <2>2, <2>3, b \in Nat, c \in Nat, d \in Nat
<1>9. f[n] = IF x.over THEN x ELSE AgeOne(x, n, age, maxAge, maxTTL)
  BY <1>7, <1>8 DEF UpdateSteps
<1>10. CASE x.over
  BY <1>3, <1>5, <1>7, <1>9, <1>10, StaysOver
<1>11. CASE ~x.over
  BY <1>3, <1>5, <1>7, <1>9, <1>11, NextAged
<1> QED
  BY <1>10, <1>11

(* updateTTL rewrites the TTLs that stand in the message, and returns the     *)
(* least.                                                                     *)
LEMMA UpdateGives ==
  ASSUME NEW at, Received(at), NEW age \in Nat, NEW maxAge, NEW maxTTL, TtlAged(at, 0, age, maxTTL, wire),
         NEW u, u = UpdateTTL(wire, age, maxAge, maxTTL)
  PROVE  UpdatedSo(at, u, age, maxAge, maxTTL)
<1>0. Records \in Nat /\ 0 \in 0 .. Records /\ Records \in 0 .. Records
  BY RecordsNat
<1>1. PICK f : /\ UpdateSteps(wire, age, maxAge, maxTTL, f)
               /\ UpdateTTL(wire, age, maxAge, maxTTL) = Updated(wire, f[bld.counts[2] + bld.counts[3] + bld.counts[4]])
  BY UpdateUnfolds
<1>2. bld.counts[2] + bld.counts[3] + bld.counts[4] = Records
  <2>1. bld.counts[2] = Len(added[2]) /\ bld.counts[3] = Len(added[3]) /\ bld.counts[4] = Len(added[4])
    BY DEF Received, Counted
  <2> QED
    BY ONLY <2>1 DEF Records
<1>3. u = Updated(wire, f[Records])
  BY <1>1, <1>2
<1>4. PICK a, b \in Nat : a = PlaceOf(at, 0) /\ b = PlaceOf(at, Records) /\ a <= b
  BY <1>0, PlacesGrow
<1>5. CASE Questions(wire) = -1
  <2>1. u = [msg |-> wire, min |-> 0]
    BY <1>3, <1>5 DEF Updated
  <2>2. u.msg = wire /\ u.min = 0
    BY <2>1
  <2>3. PICK size \in Nat : size = Len(wire)
    BY DEF Received, Copy
  <2>4. ~ (a <= size)
    <3>1. PICK loose \in SUBSET Loose : loose = {"ttl"} /\ Copy(wire, bld.msg, loose)
      BY DEF Received, Loose
    <3>2. Questions(wire) = Until(wire, at[ItemsBefore(added, 2)])
      BY <3>1, QuestionsSkipped DEF Received
    <3>3. PICK q \in Nat : q = Len(added[1]) /\ ItemsBefore(added, 2) = q
      BY LensAre, BeforeIs DEF Received
    <3>4. q + 0 = q
      OBVIOUS
    <3>5. Until(wire, a) = -1
      BY <1>4, <1>5, <3>2, <3>3, <3>4 DEF PlaceOf
    <3> QED
      BY <2>3, <3>5 DEF Until
  <2>5. ~ (b <= size)
    BY <1>4, <2>4
  <2>6. (~ (PlaceOf(at, Records) <= Len(wire))) = TRUE
    BY <1>4, <2>3, <2>5
  <2>7. MinSo(Records, TRUE, 0, age, maxAge)
    <3>1. 0 \in 0 .. MaxTTLValue
      BY DEF MaxTTLValue
    <3> QED
      BY <3>1 DEF MinSo
  <2>8. Aging(wire)
    BY DEF Aging, Received
  <2>9. TtlAged(at, Records, age, maxTTL, wire)
    <3> SUFFICES ASSUME NEW j \in 1 .. Records, NEW k \in Nat, RecAt(at, j, k), k + 3 <= Len(wire) PROVE FALSE
      BY DEF TtlAged
    <3>1. PICK c \in Nat : c = PlaceOf(at, j - 1) /\ a <= c
      <4>1. j - 1 \in 0 .. Records /\ 0 \in 0 .. j - 1
        BY <1>0
      <4> QED
        BY <1>4, <4>1, PlacesGrow
    <3>2. c < k
      BY <2>8, <3>1, RecRead DEF RecordRead
    <3> QED
      BY <2>3, <2>4, <3>1, <3>2
  <2>10. u.min = IF 0 = MaxTTLValue THEN 0 ELSE 0
    BY <2>2
  <2> QED
    BY <2>2, <2>6, <2>7, <2>8, <2>9, <2>10 DEF UpdatedSo
<1>6. CASE Questions(wire) # -1
  <2>1. PICK x : x = f[Records]
    OBVIOUS
  <2>2. AgedSo(at, Records, x, age, maxAge, maxTTL)
    BY <1>0, <1>1, <1>6, <2>1, AllAged
  <2>3. u = [msg |-> x.msg, min |-> IF x.min = MaxTTLValue THEN 0 ELSE x.min]
    BY <1>3, <1>6, <2>1 DEF Updated
  <2>4. u.msg = x.msg /\ u.min = IF x.min = MaxTTLValue THEN 0 ELSE x.min
    BY <2>3
  <2>5. /\ Aging(x.msg) /\ TtlAged(at, Records, age, maxTTL, x.msg)
        /\ MinSo(Records, ~ (PlaceOf(at, Records) <= Len(wire)), x.min, age, maxAge)
    BY <2>2 DEF AgedSo
  <2> QED
    BY <2>4, <2>5 DEF UpdatedSo
<1> QED
  BY <1>5, <1>6

(* The i-th record is the k-th one of section s.                              *)
SameRecord(at, i, s, k) ==
    /\ i \in 1 .. Records /\ s \in 2 .. 4 /\ k \in 1 .. Len(added[s])
    /\ RecordNo(i) = added[s][k] /\ (CountsInMin(i) <=> s \in {2, 3})
    /\ \A l : RecordOf(at, s, k, l) <=> RecAt(at, i, l)

(* Each record of a section is one of all records.                            *)
LEMMA SameIs ==
  ASSUME NEW at, Received(at), NEW s \in 2 .. 4, NEW k \in 1 .. Len(added[s]), NEW i, i = Item(s, k) - Len(added[1])
  PROVE  SameRecord(at, i, s, k)
<1>1. PICK q, b, c, d \in Nat : q = Len(added[1]) /\ b = Len(added[2]) /\ c = Len(added[3]) /\ d = Len(added[4])
  BY LensAre DEF Received
<1>2. ItemsBefore(added, 2) = q /\ ItemsBefore(added, 3) = q + b /\ ItemsBefore(added, 4) = q + b + c
  BY <1>1, BeforeIs
<1>3. Records = b + c + d /\ bld.counts[2] = b /\ bld.counts[3] = c
  BY <1>1 DEF Records, Received, Counted
<1>4. k \in Nat /\ k > 0 /\ k <= Len(added[s])
  <2>1. Len(added[s]) \in Nat
    BY <1>1
  <2> QED
    BY <2>1
<1>5. PICK n \in Nat : n = Item(s, k) /\ n = q + i /\ n = q + (i - 1) + 1 /\ i \in 1 .. Records /\ ((i <= b + c) <=> s \in {2, 3})
  <2>1. CASE s = 2
    <3>1. Item(s, k) = q + k /\ k <= b
      BY <1>1, <1>2, <1>4, <2>1 DEF Item
    <3>2. i = (q + k) - q
      BY <1>1, <3>1
    <3>3. q + k \in Nat /\ q + k = q + i /\ q + k = q + (i - 1) + 1 /\ i \in 1 .. Records /\ (i <= b + c)
      BY ONLY <1>3, <1>4, <3>1, <3>2, q \in Nat, b \in Nat, c \in Nat, d \in Nat
    <3> QED
      BY <2>1, <3>1, <3>3
  <2>2. CASE s = 3
    <3>1. Item(s, k) = (q + b) + k /\ k <= c
      BY <1>1, <1>2, <1>4, <2>2 DEF Item
    <3>2. i = ((q + b) + k) - q
      BY <1>1, <3>1
    <3>3. (q + b) + k \in Nat /\ (q + b) + k = q + i /\ (q + b) + k = q + (i - 1) + 1 /\ i \in 1 .. Records /\ (i <= b + c)
      BY ONLY <1>3, <1>4, <3>1, <3>2, q \in Nat, b \in Nat, c \in Nat, d \in Nat
    <3> QED
      BY <2>2, <3>1, <3>3
  <2>3. CASE s = 4
    <3>1. Item(s, k) = (q + b + c) + k /\ k <= d
      BY <1>1, <1>2, <1>4, <2>3 DEF Item
    <3>2. i = ((q + b + c) + k) - q
      BY <1>1, <3>1
    <3>3. (q + b + c) + k \in Nat /\ (q + b + c) + k = q + i /\ (q + b + c) + k = q + (i - 1) + 1 /\ i \in 1 .. Records /\ ~ (i <= b + c)
      BY ONLY <1>3, <1>4, <3>1, <3>2, q \in Nat, b \in Nat, c \in Nat, d \in Nat
    <3> QED
      BY <2>3, <3>1, <3>3
  <2> QED
    BY <2>1, <2>2, <2>3
<1>6. CountsInMin(i) <=> s \in {2, 3}
  BY <1>3, <1>5 DEF CountsInMin
<1>7. RecordNo(i) = added[s][k]
  <2>1. s \in 1 .. 4
    OBVIOUS
  <2>2. ItemsOf(added)[ItemsBefore(added, s) + k] = added[s][k]
    BY <2>1, ItemsAre DEF ItemsGive, InSection, Received
  <2>3. ItemsBefore(added, s) + k = Len(added[1]) + i
    BY <1>1, <1>5 DEF Item
  <2> QED
    BY <2>2, <2>3 DEF RecordNo
<1>8. PlaceOf(at, i - 1) = at[Item(s, k) - 1] /\ PlaceOf(at, i) = at[Item(s, k)]
  <2>1. n - 1 = q + (i - 1)
    BY <1>5
  <2> QED
    BY <1>1, <1>5, <2>1 DEF PlaceOf
<1>9. \A l : RecordOf(at, s, k, l) <=> RecAt(at, i, l)
  BY <1>7, <1>8 DEF RecordOf, RecAt
<1> QED
  BY <1>5, <1>6, <1>7, <1>9 DEF SameRecord

(* Each of all records belongs to a section.                                  *)
LEMMA SameOf ==
  ASSUME NEW at, Received(at), NEW i \in 1 .. Records
  PROVE  \E s, k : SameRecord(at, i, s, k)
<1>1. PICK q, b, c, d \in Nat : q = Len(added[1]) /\ b = Len(added[2]) /\ c = Len(added[3]) /\ d = Len(added[4])
  BY LensAre DEF Received
<1>2. ItemsBefore(added, 2) = q /\ ItemsBefore(added, 3) = q + b /\ ItemsBefore(added, 4) = q + b + c
  BY <1>1, BeforeIs
<1>3. i \in 1 .. (b + c + d) /\ i \in Nat
  <2>1. Records = b + c + d
    BY <1>1 DEF Records
  <2> QED
    BY <2>1
<1>4. CASE i <= b
  <2>1. i \in 1 .. b /\ i = (q + i) - q
    BY <1>3, <1>4
  <2>2. i \in 1 .. Len(added[2]) /\ i = Item(2, i) - Len(added[1]) /\ 2 \in 2 .. 4
    BY <1>1, <1>2, <2>1 DEF Item
  <2> QED
    BY <2>2, SameIs
<1>5. CASE ~ (i <= b) /\ i <= b + c
  <2>1. PICK k : k = i - b
    OBVIOUS
  <2>2. k \in 1 .. c /\ i = ((q + b) + k) - q
    BY ONLY <1>3, <1>5, <2>1, q \in Nat, b \in Nat, c \in Nat
  <2>4. Item(3, k) = (q + b) + k
    BY <1>2 DEF Item
  <2>3. k \in 1 .. Len(added[3]) /\ i = Item(3, k) - Len(added[1]) /\ 3 \in 2 .. 4
    <3>1. Item(3, k) - Len(added[1]) = ((q + b) + k) - q
      BY ONLY <1>1, <2>4
    <3>2. 3 \in 2 .. 4
      OBVIOUS
    <3>3. k \in 1 .. Len(added[3])
      BY ONLY <1>1, <2>2
    <3> QED
      BY ONLY <2>2, <3>1, <3>2, <3>3, Zenon
  <2> QED
    BY <2>3, SameIs
<1>6. CASE ~ (i <= b + c)
  <2>1. PICK k : k = i - (b + c)
    OBVIOUS
  <2>2. k \in 1 .. d /\ i = ((q + b + c) + k) - q
    BY ONLY <1>3, <1>6, <2>1, q \in Nat, b \in Nat, c \in Nat, d \in Nat
  <2>4. Item(4, k) = (q + b + c) + k
    BY <1>2 DEF Item
  <2>3. k \in 1 .. Len(added[4]) /\ i = Item(4, k) - Len(added[1]) /\ 4 \in 2 .. 4
    <3>1. Item(4, k) - Len(added[1]) = ((q + b + c) + k) - q
      BY ONLY <1>1, <2>4
    <3>2. 4 \in 2 .. 4
      OBVIOUS
    <3>3. k \in 1 .. Len(added[4])
      BY ONLY <1>1, <2>2
    <3> QED
      BY ONLY <2>2, <3>1, <3>2, <3>3, Zenon
  <2> QED
    BY <2>3, SameIs
<1> QED
  BY <1>4, <1>5, <1>6

------------------------------------------------------------------------------
(* What is kept while a message is read.                                      *)
LEMMA ReceivedKept ==
  ASSUME NEW at, Received(at), bld' = bld, added' = added, tainted' = tainted, Copy(wire', bld.msg, {"ttl"})
  PROVE  Received(at)'
BY DEF Received, Counted

(* The parser's type is kept.                                                 *)
LEMMA IsParserKept ==
  ASSUME NEW p, IsParser(p), Len(wire') = Len(wire)
  PROVE  IsParser(p)'
BY DEF IsParser

(* The records stay where they stand.                                         *)
LEMMA RecordOfKept ==
  ASSUME NEW at, bld' = bld, added' = added, tainted' = tainted, NEW s, NEW i, NEW l
  PROVE  RecordOf(at, s, i, l)' <=> RecordOf(at, s, i, l)
BY DEF RecordOf, Item

(* The parser stays where it stands.                                          *)
LEMMA StandingKept ==
  ASSUME NEW at, NEW p, Standing(at, p), bld' = bld, added' = added, tainted' = tainted, Len(wire') = Len(wire)
  PROVE  Standing(at, p)'
<1>1. IsParser(p)'
  BY IsParserKept DEF Standing
<1>2. p.valid => Pending(at, p)'
  <2> SUFFICES ASSUME p.valid PROVE Pending(at, p)'
    OBVIOUS
  <2>1. Pending(at, p)
    BY DEF Standing
  <2>2. \A s, i : Item(s, i)' = Item(s, i)
    BY DEF Item
  <2>3. \A s, i, l : RecordOf(at, s, i, l)' <=> RecordOf(at, s, i, l)
    BY RecordOfKept
  <2> QED
    BY <2>1, <2>2, <2>3 DEF Pending
<1>3. Item(p.sec, p.index)' = Item(p.sec, p.index)
  BY DEF Item
<1> QED
  BY <1>1, <1>2, <1>3 DEF Standing

(* The TTLs stay.                                                             *)
LEMMA TtlsGivenKept ==
  ASSUME NEW at, TtlsGiven(at), bld' = bld, added' = added, tainted' = tainted, wire' = wire, aged' = aged
  PROVE  TtlsGiven(at)'
<1>1. \A r : Given(r)' = Given(r)
  BY DEF Given
<1>2. \A s, i, l : RecordOf(at, s, i, l)' <=> RecordOf(at, s, i, l)
  BY RecordOfKept
<1> QED
  BY <1>1, <1>2 DEF TtlsGiven

(* The TTL that was returned is the one updateTTL is to find.                 *)
AgedAs(at) ==
    aged # NoAge =>
        \E min : /\ MinSo(Records, ~ (PlaceOf(at, Records) <= Len(wire)), min, aged.age, aged.maxAge)
                 /\ aged.min = IF min = MaxTTLValue THEN 0 ELSE min
                 /\ aged.age \in Nat

(* A message being read, whose items end at the places at.                    *)
ReadingAt(at) ==
    /\ Received(at) /\ TtlsGiven(at) /\ AgedAs(at) /\ IsParser(prs)
    /\ (seen.err # "bad" /\ ~astray) => Standing(at, prs)

(* The reader of a message.                                                   *)
ReaderInv ==
    /\ astray \in BOOLEAN
    /\ stage \in {"build", "finished"} =>
           prs = Parser /\ seen = NothingSeen /\ astray = FALSE /\ aged = NoAge /\ wire = <<>>
    /\ stage = "read" => \E at : ReadingAt(at)
    /\ stage = "queried" => aged = NoAge /\ IsParser(prs)
    /\ seen = NothingSeen => prs = Parser /\ astray = FALSE

(* Max of two numbers.                                                        *)
LEMMA MoreOf ==
  ASSUME NEW a \in Int, NEW b \in Int
  PROVE  Max({a, b}) \in {a, b} /\ a <= Max({a, b}) /\ b <= Max({a, b})
<1>1. \E x \in {a, b} : \A y \in {a, b} : x >= y
  OBVIOUS
<1>2. Max({a, b}) \in {a, b} /\ \A y \in {a, b} : Max({a, b}) >= y
  BY <1>1 DEF Max
<1> QED
  BY <1>2

(* What the network hands over.                                               *)
Exact(w, msg) == Copy(w, msg, {"ttl"}) /\ \A o \in 0 .. Len(w) - 1 : At(w, o) = Cell(msg, o)

(* It is the beginning of what was built.                                     *)
LEMMA IsDelivered ==
  ASSUME NEW msg, IsSeq(msg), Len(msg) > MsgPrefix, NEW cut \in Nat, NEW w,
         w = SubSeq(msg, MsgPrefix + 1, Max({Len(msg) - cut, MsgPrefix + 1}))
  PROVE  Exact(w, msg)
<1>1. PICK size, p \in Nat : size = Len(msg) /\ p = MsgPrefix /\ p < size
  BY SeqHas, MessageBounds
<1>2. PICK n \in Int : n = Max({size - cut, p + 1}) /\ p + 1 <= n /\ n <= size
  <2>1. size - cut \in Int /\ p + 1 \in Int /\ size - cut <= size /\ p + 1 <= size
    BY <1>1
  <2>2. PICK x, y \in Int : x = size - cut /\ y = p + 1 /\ x <= size /\ y <= size
    BY <2>1
  <2>3. Max({x, y}) \in {x, y} /\ x <= Max({x, y}) /\ y <= Max({x, y})
    BY MoreOf
  <2>4. PICK n : n = Max({x, y})
    OBVIOUS
  <2>5. n \in {x, y} /\ y <= n
    BY <2>3, <2>4
  <2>6. n \in Int /\ p + 1 <= n /\ n <= size
    BY ONLY <2>2, <2>5, x \in Int, y \in Int
  <2> QED
    BY ONLY <2>2, <2>4, <2>6
<1>3. PICK m : m = p + 1
  OBVIOUS
<1>4. m \in 1 .. size + 1 /\ n \in m - 1 .. size /\ n - m + 1 = n - p /\ n - p \in Nat /\ n - p > 0 /\ p + (n - p) <= size
  BY ONLY <1>1, <1>2, <1>3, size \in Nat, p \in Nat, n \in Int
<1>5. w = SubSeq(msg, m, n)
  BY <1>1, <1>2, <1>3
<1>6. PartOf(msg, m, n, w)
  BY <1>1, <1>4, <1>5, PartIs
<1>7. PICK k \in Nat : k = Len(w) /\ k = n - p /\ k > 0 /\ p + k <= size
  BY <1>4, <1>6 DEF PartOf
<1>8. ASSUME NEW o \in 0 .. k - 1 PROVE At(w, o) = Cell(msg, o)
  <2>1. o + 1 \in 1 .. n - m + 1 /\ m + (o + 1) - 1 = p + o + 1
    BY ONLY <1>1, <1>3, <1>4, <1>7, o \in 0 .. k - 1, p \in Nat, n \in Int
  <2>2. w[o + 1] = msg[m + (o + 1) - 1]
    BY <1>6, <2>1 DEF PartOf
  <2> QED
    BY <1>1, <2>1, <2>2 DEF At, Cell
<1> QED
  BY <1>1, <1>6, <1>7, <1>8 DEF Exact, Copy, PartOf

(* A new parser stands at the first item.                                     *)
LEMMA ParserStands ==
  ASSUME NEW at, Received(at)
  PROVE  IsParser(Parser) /\ Standing(at, Parser)
<1>1. PICK p : p = Parser
  OBVIOUS
<1>2. p = [sec |-> 1, index |-> 0, off |-> 1, valid |-> FALSE, hoff |-> 0, htype |-> "none", hlen |-> 0]
  BY <1>1 DEF Parser
<1>3. p.sec = 1 /\ p.index = 0 /\ p.off = 1 /\ p.valid = FALSE /\ p.hoff = 0 /\ p.htype = "none" /\ p.hlen = 0
  BY <1>2
<1>4. 1 \in 1 .. Len(wire) /\ 0 \in 0 .. MaxCount /\ 0 <= Len(added[1]) /\ 1 \in 1 .. 5
  BY LensAre, MessageBounds DEF Received, Copy
<1>5. IsParser(p)
  BY <1>2, <1>3, <1>4 DEF IsParser
<1>6. at[Item(1, 0)] = 1
  <2>1. Item(1, 0) = 0
    <3>1. ItemsBefore(added, 1) = 0
      BY BeforeIs
    <3> QED
      BY <3>1 DEF Item
  <2> QED
    BY <2>1 DEF Received, Laid
<1>7. Standing(at, p)
  BY <1>3, <1>4, <1>5, <1>6 DEF Standing
<1> QED
  BY <1>1, <1>5, <1>7

(* A message that arrives can be read.                                        *)
LEMMA DeliverReads ==
  ASSUME BuilderInv, ReaderInv, NEW cut \in Cuts, Deliver(cut)
  PROVE  ReaderInv'
<1>1. /\ stage = "finished" /\ stage' = "read" /\ bld' = bld /\ added' = added /\ tainted' = tainted
      /\ aged' = aged /\ prs' = prs /\ seen' = seen /\ astray' = astray
  BY DEF Deliver
<1>2. PICK w : w = wire' /\ w = SubSeq(bld.msg, MsgPrefix + 1, Max({Len(bld.msg) - cut, MsgPrefix + 1}))
  BY DEF Deliver
<1>3. prs = Parser /\ seen = NothingSeen /\ astray = FALSE /\ aged = NoAge
  BY <1>1 DEF ReaderInv
<1>4. IsSeq(bld.msg) /\ Len(bld.msg) > MsgPrefix
  <2>1. IsPack(PackOf(bld))
    BY DEF BuilderInv
  <2>2. PackOf(bld).msg = bld.msg
    BY DEF PackOf
  <2> QED
    BY <2>1, <2>2 DEF IsPack
<1>5. Exact(w, bld.msg)
  <2>1. cut \in Nat
    BY MessageAssumption
  <2> QED
    BY <1>2, <1>4, <2>1, IsDelivered
<1>6. PICK at : Laid(bld.msg, bld.table, ~tainted, added, at)
  BY DEF BuilderInv, LaidOut
<1>7. Received(at)'
  <2>1. Copy(w, bld.msg, {"ttl"}) /\ Counted /\ IsAdded(added) /\ tainted \in BOOLEAN /\ (~tainted => TableIn(bld.msg, bld.table))
    BY <1>5, CountsAre DEF Exact, BuilderInv
  <2>2. Counted'
    BY <1>1, <2>1 DEF Counted
  <2> QED
    BY ONLY <1>1, <1>2, <1>6, <2>1, <2>2 DEF Received
<1>8. TtlsGiven(at)'
  <2>1. \A r : Given(r)' = r.ttl
    BY <1>1, <1>3 DEF Given
  <2>2. \A s, i, l : RecordOf(at, s, i, l)' <=> RecordOf(at, s, i, l)
    BY <1>1, RecordOfKept
  <2>3. ASSUME NEW s \in 2 .. 4, NEW i \in 1 .. Len(added[s]), NEW l \in Nat, RecordOf(at, s, i, l), l + 3 <= Len(w)
        PROVE  At(w, l + 1)[2] = added[s][i].ttl
    <3>1. Cell(bld.msg, l + 1) = <<"ttl", added[s][i].ttl>>
      BY <2>3 DEF RecordOf, RecordHere, Fixed
    <3>2. At(w, l + 1) = Cell(bld.msg, l + 1)
      <4>1. l + 1 \in 0 .. Len(w) - 1
        BY <1>5, <2>3 DEF Exact, Copy
      <4> QED
        BY <1>5, <4>1 DEF Exact
    <3> QED
      BY <3>1, <3>2
  <2>4. ASSUME NEW s \in 2 .. 4, NEW i \in 1 .. Len(added[s]), NEW l \in Nat, RecordOf(at, s, i, l)', l + 3 <= Len(w)
        PROVE  At(w, l + 1)[2] = Given(added[s][i])'
    <3>1. Given(added[s][i])' = added[s][i].ttl
      BY <1>1, <1>3 DEF Given
    <3>2. RecordOf(at, s, i, l)
      BY <2>2, <2>4
    <3>3. At(w, l + 1)[2] = added[s][i].ttl
      BY <2>3, <2>4, <3>2
    <3> QED
      BY <3>1, <3>3
  <2> QED
    BY ONLY <1>1, <1>2, <2>4 DEF TtlsGiven
<1>9. IsParser(Parser)' /\ Standing(at, Parser)'
  <2>1. Received(at)' => IsParser(Parser)' /\ Standing(at, Parser)'
    BY ParserStands, PTL
  <2> QED
    BY <1>7, <2>1
<1>10. ReadingAt(at)'
  BY <1>1, <1>3, <1>7, <1>8, <1>9 DEF ReadingAt, AgedAs, Parser
<1> QED
  BY <1>1, <1>3, <1>10 DEF ReaderInv

(* A message that was aged can be read, with its new TTLs.                    *)
LEMMA AgeReads ==
  ASSUME ReaderInv, NEW a \in Ageings, Age(a)
  PROVE  ReaderInv'
<1>1. /\ stage = "read" /\ aged = NoAge /\ seen = NothingSeen
      /\ bld' = bld /\ added' = added /\ tainted' = tainted /\ stage' = stage
      /\ prs' = prs /\ seen' = seen /\ astray' = astray
  BY DEF Age
<1>2. PICK age, maxAge, maxTTL : age = a.age /\ maxAge = a.maxAge /\ maxTTL = a.maxTTL
  OBVIOUS
<1>3. age \in Nat
  <2>1. age \in 0 .. MaxTTLValue
    BY <1>2, MessageAssumption
  <2> QED
    BY <2>1 DEF MaxTTLValue
<1>4. PICK u : /\ u = UpdateTTL(wire, age, maxAge, maxTTL) /\ wire' = u.msg
               /\ aged' = [age |-> age, maxAge |-> maxAge, maxTTL |-> maxTTL, min |-> u.min]
  BY <1>2 DEF Age
<1>5. PICK at : ReadingAt(at)
  BY <1>1 DEF ReaderInv
<1>6. prs = Parser /\ astray = FALSE
  BY <1>1 DEF ReaderInv
<1>7. Received(at) /\ TtlsGiven(at)
  BY <1>5 DEF ReadingAt
<1>8. TtlAged(at, 0, age, maxTTL, wire)
  <2> SUFFICES ASSUME NEW i \in 1 .. Records, NEW l \in Nat, RecAt(at, i, l), l + 3 <= Len(wire)
               PROVE  At(wire, l + 1)[2] = IF i <= 0 THEN TtlTo(RecordNo(i), age, maxTTL) ELSE RecordNo(i).ttl
    BY DEF TtlAged
  <2>1. PICK s, k : SameRecord(at, i, s, k)
    BY <1>7, SameOf
  <2>2. RecordOf(at, s, k, l) /\ s \in 2 .. 4 /\ k \in 1 .. Len(added[s]) /\ RecordNo(i) = added[s][k]
    BY <2>1 DEF SameRecord
  <2>3. At(wire, l + 1)[2] = Given(added[s][k])
    BY <1>7, <2>2 DEF TtlsGiven
  <2>4. Given(added[s][k]) = added[s][k].ttl
    BY <1>1 DEF Given
  <2>5. ~ (i <= 0)
    BY RecordsNat, <1>7
  <2> QED
    BY <2>2, <2>3, <2>4, <2>5
<1>9. UpdatedSo(at, u, age, maxAge, maxTTL)
  BY <1>3, <1>4, <1>7, <1>8, UpdateGives
<1>10. Copy(wire', bld.msg, {"ttl"}) /\ Len(wire') = Len(wire)
  BY <1>4, <1>9 DEF UpdatedSo, Aging
<1>11. Received(at)'
  BY <1>1, <1>7, <1>10, ReceivedKept
<1>12. PICK min : /\ MinSo(Records, ~ (PlaceOf(at, Records) <= Len(wire)), min, age, maxAge)
                  /\ u.min = IF min = MaxTTLValue THEN 0 ELSE min
  BY <1>9 DEF UpdatedSo
<1>13. aged'.age = age /\ aged'.maxAge = maxAge /\ aged'.maxTTL = maxTTL /\ aged'.min = u.min
  BY <1>4
<1>14. aged' # NoAge
  <2>1. min \in Nat
    BY <1>12 DEF MinSo, MaxTTLValue
  <2>2. u.min \in Nat
    BY <1>12, <2>1
  <2>3. u.min # -1
    BY <2>2
  <2> QED
    BY <1>13, <2>3 DEF NoAge
<1>15. Records' = Records
  BY <1>1 DEF Records
<1>16. MinSo(Records, ~ (PlaceOf(at, Records) <= Len(wire)), min, age, maxAge)'
  <2>1. \A i : RecordNo(i)' = RecordNo(i)
    BY <1>1 DEF RecordNo
  <2>2. \A i : CountsInMin(i)' <=> CountsInMin(i)
    BY <1>1 DEF CountsInMin
  <2>3. \A i : Weighs(i)' <=> Weighs(i)
    BY <2>1, <2>2 DEF Weighs
  <2>4. \A n, m : (IsRest(n, m, age)' <=> IsRest(n, m, age)) /\ (NoMore(n, m, age)' <=> NoMore(n, m, age))
    BY <2>1, <2>3 DEF IsRest, NoMore
  <2>5. PlaceOf(at, Records)' = PlaceOf(at, Records)
    BY <1>1, <1>15 DEF PlaceOf
  <2> QED
    BY <1>10, <1>12, <1>15, <2>4, <2>5 DEF MinSo
<1>17. AgedAs(at)'
  BY <1>3, <1>12, <1>13, <1>16 DEF AgedAs
<1>18. TtlsGiven(at)'
  <2>1. ASSUME NEW s \in 2 .. 4, NEW k \in 1 .. Len(added[s]), NEW l \in Nat, RecordOf(at, s, k, l)', l + 3 <= Len(wire')
        PROVE  At(wire', l + 1)[2] = Given(added[s][k])'
    <3>1. RecordOf(at, s, k, l)
      BY <1>1, <2>1, RecordOfKept
    <3>2. PICK i : SameRecord(at, i, s, k)
      BY <1>7, SameIs
    <3>3. i \in 1 .. Records /\ RecAt(at, i, l) /\ RecordNo(i) = added[s][k]
      BY <3>1, <3>2 DEF SameRecord
    <3>4. i <= Records
      BY <1>7, <3>3, RecordsNat
    <3>5. At(wire', l + 1)[2] = TtlTo(RecordNo(i), age, maxTTL)
      BY <1>4, <1>9, <1>10, <2>1, <3>3, <3>4 DEF UpdatedSo, TtlAged
    <3>6. Given(added[s][k])' = TtlTo(added[s][k], age, maxTTL)
      BY <1>1, <1>13, <1>14 DEF Given, TtlTo, GivenTo
    <3> QED
      BY <3>3, <3>5, <3>6
  <2> QED
    BY ONLY <1>1, <2>1 DEF TtlsGiven
<1>19. IsParser(Parser)' /\ Standing(at, Parser)'
  BY <1>7, <1>1, <1>10, IsParserKept, StandingKept, ParserStands
<1>20. ReadingAt(at)'
  BY <1>1, <1>6, <1>11, <1>17, <1>18, <1>19 DEF ReadingAt, Parser
<1> QED
  BY <1>1, <1>6, <1>20 DEF ReaderInv

------------------------------------------------------------------------------
(* What decides how long an answer is fresh.                                  *)
LEMMA AgedIsRight == ASSUME NEW at, ReadingAt(at) PROVE TTLRight
<1> SUFFICES ASSUME aged # NoAge PROVE TTLRight
  BY DEF TTLRight
<1>1. Received(at)
  BY DEF ReadingAt
<1>2. PICK min : /\ MinSo(Records, ~ (PlaceOf(at, Records) <= Len(wire)), min, aged.age, aged.maxAge)
                 /\ aged.min = IF min = MaxTTLValue THEN 0 ELSE min
                 /\ aged.age \in Nat
  BY DEF ReadingAt, AgedAs
<1>3. PICK age, maxAge, got : age = aged.age /\ maxAge = aged.maxAge /\ got = aged.min /\ age \in Nat
  BY <1>2
<1> DEFINE counted == {added[2][i] : i \in 1 .. Len(added[2])} \cup {added[3][i] : i \in 1 .. Len(added[3])}
           rests == {Rest(r.ttl, aged.age) : r \in {r \in counted : r.type # "OPT"}} \ {MaxTTLValue}
<1>4. ASSUME NEW i \in 1 .. Records, Weighs(i) PROVE RecordNo(i) \in counted /\ RecordNo(i).type # "OPT"
  <2>1. PICK s, k : SameRecord(at, i, s, k)
    BY <1>1, SameOf
  <2>2. s \in {2, 3} /\ k \in 1 .. Len(added[s]) /\ RecordNo(i) = added[s][k]
    BY <1>4, <2>1 DEF SameRecord, Weighs
  <2> QED
    BY <1>4, <2>2 DEF Weighs
<1>5. ASSUME NEW r \in counted, r.type # "OPT" PROVE \E i \in 1 .. Records : Weighs(i) /\ RecordNo(i) = r
  <2>4. PICK s \in {2, 3} : \E k \in 1 .. Len(added[s]) : r = added[s][k]
    BY <1>5
  <2>1. PICK k \in 1 .. Len(added[s]) : r = added[s][k]
    BY <2>4
  <2>2. s \in 2 .. 4
    OBVIOUS
  <2>3. PICK i : SameRecord(at, i, s, k)
    BY <1>1, <2>2, SameIs
  <2> QED
    BY <1>5, <2>1, <2>3 DEF SameRecord, Weighs
<1>6. ASSUME NEW r \in counted PROVE Rest(r.ttl, age) \in 0 .. MaxTTLValue
  <2>4. PICK s \in {2, 3} : \E k \in 1 .. Len(added[s]) : r = added[s][k]
    BY <1>6
  <2>1. PICK k \in 1 .. Len(added[s]) : r = added[s][k]
    BY <2>4
  <2>2. added[s] \in Seq(MsgRecords)
    BY <1>1 DEF Received, IsAdded
  <2>3. r \in MsgRecords
    BY <2>1, <2>2
  <2> QED
    BY <1>3, <2>3, MessageAssumption, RestIs
<1>7. rests \in SUBSET Nat /\ \A x \in rests : x \in 0 .. MaxTTLValue /\ x # MaxTTLValue
  <2>1. ASSUME NEW x \in rests PROVE x \in 0 .. MaxTTLValue /\ x # MaxTTLValue
    <3>1. PICK r \in counted : r.type # "OPT" /\ x = Rest(r.ttl, age) /\ x # MaxTTLValue
      BY <1>3, <2>1
    <3> QED
      BY <1>6, <3>1
  <2> HIDE DEF rests
  <2> QED
    BY <2>1 DEF MaxTTLValue
<1>8. got = IF min = MaxTTLValue THEN 0 ELSE min
  BY <1>2, <1>3
<1>9. MinSo(Records, ~ (PlaceOf(at, Records) <= Len(wire)), min, age, maxAge)
  BY <1>2, <1>3
<1>10. IsRest(Records, min, age) /\ min # MaxTTLValue => min \in rests
  <2> SUFFICES ASSUME IsRest(Records, min, age), min # MaxTTLValue PROVE min \in rests
    OBVIOUS
  <2>1. PICK i \in 1 .. Records : Weighs(i) /\ min = Rest(RecordNo(i).ttl, age)
    BY DEF IsRest
  <2>2. PICK r : r = RecordNo(i) /\ r \in counted /\ r.type # "OPT"
    BY <1>4, <2>1
  <2> HIDE DEF counted
  <2> QED
    BY <1>3, <2>1, <2>2
<1>11. TooOld(age, maxAge) => got = 0
  BY <1>8, <1>9 DEF MinSo
<1>12. got # 0 => got \in rests
  BY <1>8, <1>9, <1>10, <1>11 DEF MinSo
<1>13. ASSUME ~IsCut, ~TooOld(age, maxAge), rests # {} PROVE got = Min(rests)
  <2>1. PlaceOf(at, Records) <= Len(wire)
    <3>1. MsgPrefix + Len(wire) = Len(bld.msg)
      BY <1>1, <1>13, NotCut DEF Whole
    <3>2. MsgPrefix + PlaceOf(at, Records) = Len(bld.msg)
      <4>1. Len(added[1]) + Records = Len(ItemsOf(added))
        <5>1. PICK q, b, c, d \in Nat : q = Len(added[1]) /\ b = Len(added[2]) /\ c = Len(added[3]) /\ d = Len(added[4])
          BY <1>1, LensAre DEF Received
        <5>2. Len(ItemsOf(added)) = q + b + c + d
          BY <1>1, <5>1, ItemsAre, BeforeIs DEF ItemsGive, Received
        <5>3. Records = b + c + d
          BY <5>1 DEF Records
        <5>4. Len(added[1]) + Records = q + (b + c + d)
          BY ONLY <5>1, <5>3
        <5>5. q + (b + c + d) = q + b + c + d
          BY ONLY q \in Nat, b \in Nat, c \in Nat, d \in Nat
        <5> QED
          BY ONLY <5>2, <5>4, <5>5
      <4> QED
        BY <1>1, <4>1 DEF Received, Laid, PlaceOf
    <3>3. PICK x, y, p \in Nat : x = PlaceOf(at, Records) /\ y = Len(wire) /\ p = MsgPrefix
      <4>1. Records \in 0 .. Records /\ PlaceOf(at, Records) \in Nat
        BY <1>1, RecordsNat, PlacesGrow
      <4>2. Len(wire) \in Nat /\ MsgPrefix \in Nat
        BY <1>1, MessageBounds DEF Received, Copy
      <4> QED
        BY <4>1, <4>2
    <3> QED
      BY ONLY <3>1, <3>2, <3>3, x \in Nat, y \in Nat, p \in Nat
  <2>2. NoMore(Records, min, age) /\ min \in 0 .. MaxTTLValue
    BY <1>9, <2>1 DEF MinSo
  <2>3. ASSUME NEW x \in rests PROVE min <= x
    <3>1. PICK r \in counted : r.type # "OPT" /\ x = Rest(r.ttl, age)
      BY <1>3
    <3>2. PICK i \in 1 .. Records : Weighs(i) /\ RecordNo(i) = r
      BY <1>5, <3>1
    <3> QED
      BY <2>2, <3>1, <3>2 DEF NoMore
  <2>4. min # MaxTTLValue
    <3>1. PICK x \in rests : x \in 0 .. MaxTTLValue /\ x # MaxTTLValue
      BY <1>7, <1>13
    <3>2. min <= x
      BY <2>3
    <3>3. min \in 0 .. MaxTTLValue
      BY <2>2
    <3> HIDE DEF rests
    <3> QED
      BY ONLY <3>1, <3>2, <3>3 DEF MaxTTLValue
  <2>5. min \in rests
    BY <1>9, <1>10, <1>13, <2>1, <2>4 DEF MinSo
  <2>6. Min(rests) \in rests /\ \A x \in rests : Min(rests) <= x
    <3> HIDE DEF rests
    <3> QED
      BY <1>7, <1>13, MinIs
  <2>7. Min(rests) <= min /\ min <= Min(rests)
    BY <2>3, <2>5, <2>6
  <2>8. Min(rests) \in Nat /\ min \in Nat
    BY <1>7, <2>5, <2>6
  <2> HIDE DEF rests
  <2> QED
    BY <1>8, <2>4, <2>7, <2>8
<1>14. IF TooOld(age, maxAge) \/ rests = {} THEN got = 0
       ELSE IF IsCut THEN got # 0 => \E r \in rests : got = r ELSE got = Min(rests)
  <2> HIDE DEF rests
  <2> QED
    BY <1>11, <1>12, <1>13
<1> QED
  BY ONLY <1>3, <1>14 DEF TTLRight, TooOld

(* The call tells what it is to, wherever the items stand.                    *)
AllTell(op, s, r) ==
    \A at : Received(at) /\ TtlsGiven(at) /\ Standing(at, prs) => Tells(at, op, s, prs, r)

(* What a call tells is what a reader is to get back.                         *)
LEMMA ToldBack ==
  ASSUME NEW op, NEW s, NEW r, NEW index, Told(op, s, index, r), r.err \in {"none", "done", "notstarted", "bad"},
         bld' = bld, added' = added, wire' = wire, aged' = aged, prs' = r.p,
         seen' = [op |-> op, err |-> r.err, sec |-> s, index |-> index, val |-> r.val], s \in 1 .. 4
  PROVE  ReadBack'
<1>1. PICK err, val : err = r.err /\ val = r.val /\ err \in {"none", "done", "notstarted", "bad"}
  OBVIOUS
<1>2. seen'.op = op /\ seen'.err = err /\ seen'.sec = s /\ seen'.index = index /\ seen'.val = val
  BY <1>1
<1>3. PICK x : x = added[s][index + 1]
  OBVIOUS
<1>4. Expected' = x /\ (IsCut' <=> IsCut) /\ Given(x)' = Given(x) /\ added'[seen'.sec] = added[s]
  BY <1>2, <1>3 DEF Expected, IsCut, Given
<1>5. /\ err = "done" => index = Len(added[s]) \/ s < prs'.sec
      /\ err = "bad" =>
             \/ IsCut
             \/ s = 1 /\ Len(x) >= MaxHops
             \/ s > 1 /\ LongNames(x)
      /\ err = "none" =>
             /\ index < Len(added[s])
             /\ op = "question" => val = x
             /\ op = "data" => val = Read(x)
             /\ op = "header" => val.name = x.name /\ val.type = x.type /\ val.ttl = Given(x)
  BY <1>1, <1>3 DEF Told
<1>6. CASE err = "done"
  BY <1>2, <1>4, <1>5, <1>6 DEF ReadBack
<1>7. CASE err = "notstarted"
  BY <1>2, <1>7 DEF ReadBack
<1>8. CASE err = "bad"
  BY <1>2, <1>4, <1>5, <1>8 DEF ReadBack, LongNames
<1>9. CASE err = "none"
  BY <1>2, <1>4, <1>5, <1>9 DEF ReadBack
<1> QED
  BY <1>1, <1>6, <1>7, <1>8, <1>9

(* A call of the parser keeps the reader's invariant, and gives back what was *)
(* added.                                                                     *)
LEMMA CallReads ==
  ASSUME ReaderInv, NEW op \in {"question", "skip", "header", "data"}, NEW s \in 1 .. 4, NEW r, Call(op, s, r), AllTell(op, s, r)
  PROVE  ReaderInv' /\ ReadBack'
<1>1. /\ stage = "read" /\ seen.err # "bad" /\ ~astray
      /\ bld' = bld /\ added' = added /\ tainted' = tainted /\ wire' = wire /\ aged' = aged /\ stage' = stage /\ prs' = r.p
      /\ seen' = [op |-> op, err |-> r.err, sec |-> s, index |-> prs.index, val |-> r.val]
  BY DEF Call
<1>2. astray' = (astray \/ Strays(op, s, prs))
  BY DEF Call, Strays
<1>3. astray' \in BOOLEAN /\ (~astray' => ~Strays(op, s, prs))
  BY <1>2
<1>4. PICK at : ReadingAt(at)
  BY <1>1 DEF ReaderInv
<1>5. Received(at) /\ TtlsGiven(at) /\ Standing(at, prs) /\ AgedAs(at)
  BY <1>1, <1>4 DEF ReadingAt
<1>6. Tells(at, op, s, prs, r)
  BY <1>5 DEF AllTell
<1>7. /\ r.err \in {"none", "done", "notstarted", "bad"} /\ IsParser(r.p)
      /\ (r.err # "bad" /\ ~Strays(op, s, prs)) => Standing(at, r.p)
      /\ (~tainted /\ ~Strays(op, s, prs)) => Told(op, s, prs.index, r)
  BY <1>6 DEF Tells
<1>8. seen'.op = op /\ seen'.err = r.err
  BY <1>1
<1>9. seen' # NothingSeen
  BY <1>8 DEF NothingSeen
<1>10. Received(at)' /\ TtlsGiven(at)'
  <2>1. Copy(wire', bld.msg, {"ttl"})
    BY <1>1, <1>5 DEF Received
  <2> QED
    BY <1>1, <1>5, <2>1, ReceivedKept, TtlsGivenKept
<1>11. AgedAs(at)'
  BY <1>1, <1>5 DEF AgedAs, Records, MinSo, PlaceOf, IsRest, NoMore, Weighs, RecordNo, CountsInMin
<1>12. PICK q : q = r.p
  OBVIOUS
<1>13. IsParser(q)' /\ (Standing(at, q) => Standing(at, q)')
  BY <1>1, <1>7, <1>12, IsParserKept, StandingKept
<1>14. IsParser(prs)' /\ (seen'.err # "bad" /\ ~astray' => Standing(at, prs)')
  BY <1>1, <1>3, <1>7, <1>8, <1>12, <1>13 DEF IsParser, Standing, Pending
<1>15. ReadingAt(at)'
  BY <1>10, <1>11, <1>14 DEF ReadingAt
<1>16. ReaderInv'
  BY <1>1, <1>3, <1>9, <1>15 DEF ReaderInv
<1>17. ReadBack'
  <2>1. CASE tainted \/ astray'
    BY <1>1, <2>1 DEF ReadBack
  <2>2. CASE ~ (tainted \/ astray')
    <3>1. Told(op, s, prs.index, r)
      BY <1>3, <1>7, <2>2
    <3>2. PICK index : index = prs.index
      OBVIOUS
    <3> QED
      BY <1>1, <1>7, <3>1, <3>2, ToldBack
  <2> QED
    BY <2>1, <2>2
<1> QED
  BY <1>16, <1>17

(* A message whose options with a full address were blanked.                  *)
Blanked(w, first, n, y) ==
    /\ IsSeq(y) /\ Len(y) = Len(w)
    /\ \A i \in 1 .. Len(w) : y[i] = IF i \in (first + 1) .. (first + n) /\ w[i][2] = "ecs" THEN <<"options", "void">> ELSE w[i]

(* Nuttered blanks them.                                                      *)
LEMMA NutteredIs ==
  ASSUME NEW w, IsSeq(w), NEW first, NEW n, NEW y, y = Nuttered(w, first, n)
  PROVE  Blanked(w, first, n, y)
<1>1. PICK size \in Nat : size = Len(w)
  BY SeqHas
<1>2. y = [i \in 1 .. size |-> IF i \in (first + 1) .. (first + n) /\ w[i][2] = "ecs" THEN <<"options", "void">> ELSE w[i]]
  BY <1>1 DEF Nuttered
<1>3. \A i \in 1 .. size : y[i] = IF i \in (first + 1) .. (first + n) /\ w[i][2] = "ecs" THEN <<"options", "void">> ELSE w[i]
  BY <1>2
<1>4. y = [i \in 1 .. size |-> y[i]]
  BY <1>2
<1> QED
  BY <1>1, <1>3, <1>4, SeqMade DEF Blanked

(* Parsing a query keeps the reader's invariant.                              *)
LEMMA QueryReads == ASSUME ReaderInv, ParseQuery PROVE ReaderInv'
<1>1. /\ stage = "read" /\ aged = NoAge /\ seen = NothingSeen /\ stage' = "queried"
      /\ aged' = aged /\ prs' = prs /\ seen' = seen /\ astray' = astray
  BY DEF ParseQuery
<1>2. PICK at : ReadingAt(at)
  BY <1>1 DEF ReaderInv
<1>3. IsSeq(wire)
  BY <1>2 DEF ReadingAt, Received, Copy
<1>4. Len(wire') = Len(wire)
  <2>1. wire' = wire \/ \E first, n : wire' = Nuttered(wire, first, n)
    BY DEF ParseQuery
  <2> QED
    BY <1>3, <2>1, NutteredIs DEF Blanked
<1>5. IsParser(prs)'
  BY <1>1, <1>2, <1>4 DEF ReadingAt, IsParser
<1> QED
  BY <1>1, <1>5 DEF ReaderInv

(* A new builder has no reader yet.                                           *)
LEMMA ReaderInit == MessageInit => ReaderInv /\ ReadBack
BY DEF MessageInit, ReaderInv, ReadBack, Parser, NothingSeen, NoAge

(* Every step keeps the reader's invariant, given the builder's.              *)
LEMMA ReaderNext == BuilderInv /\ ReaderInv /\ ReadBack /\ [MessageNext]_mvars => ReaderInv' /\ ReadBack'
<1> SUFFICES ASSUME BuilderInv, ReaderInv, ReadBack, [MessageNext]_mvars PROVE ReaderInv' /\ ReadBack'
  OBVIOUS
<1>1. ASSUME stage = "build", stage' \in {"build", "finished"}, wire' = wire, aged' = aged, prs' = prs, seen' = seen, astray' = astray
      PROVE  ReaderInv' /\ ReadBack'
  BY <1>1 DEF ReaderInv, ReadBack
<1>2. CASE EnableCompression
  BY <1>1, <1>2 DEF EnableCompression
<1>3. ASSUME NEW s \in MsgSections, StartSection(s) PROVE ReaderInv' /\ ReadBack'
  BY <1>1, <1>3 DEF StartSection
<1>4. ASSUME NEW name \in MsgQuestions, AddQuestion(name) PROVE ReaderInv' /\ ReadBack'
  <2>1. stage' = stage /\ stage = "build" /\ wire' = wire /\ aged' = aged /\ prs' = prs /\ seen' = seen /\ astray' = astray
    BY <1>4 DEF AddQuestion, Add
  <2> QED
    BY <1>1, <2>1
<1>5. ASSUME NEW r \in MsgRecords, AddResource(r) PROVE ReaderInv' /\ ReadBack'
  <2>1. stage' = stage /\ stage = "build" /\ wire' = wire /\ aged' = aged /\ prs' = prs /\ seen' = seen /\ astray' = astray
    BY <1>5 DEF AddResource, Add
  <2> QED
    BY <1>1, <2>1
<1>6. CASE Finish
  BY <1>1, <1>6 DEF Finish
<1>7. ASSUME NEW cut \in Cuts, Deliver(cut) PROVE ReaderInv' /\ ReadBack'
  <2>1. ReaderInv'
    BY <1>7, DeliverReads
  <2>2. seen' = NothingSeen
    BY <1>7 DEF Deliver, ReaderInv
  <2>3. ReadBack'
    BY <2>2 DEF ReadBack, NothingSeen
  <2> QED
    BY <2>1, <2>3
<1>8. ASSUME NEW a \in Ageings, Age(a) PROVE ReaderInv' /\ ReadBack'
  <2>1. ReaderInv'
    BY <1>8, AgeReads
  <2>2. seen' = NothingSeen
    BY <1>8 DEF Age
  <2>3. ReadBack'
    BY <2>2 DEF ReadBack, NothingSeen
  <2> QED
    BY <2>1, <2>3
<1>9. CASE ParseQuery
  <2>1. ReaderInv'
    BY <1>9, QueryReads
  <2>2. stage' = "queried"
    BY <1>9 DEF ParseQuery
  <2> QED
    BY <2>1, <2>2 DEF ReadBack
<1>10. CASE ParseQuestion
  <2>1. PICK r : r = QuestionCall(prs)
    OBVIOUS
  <2>2. prs.sec = 1 /\ Call("question", 1, r)
    BY <1>10, <2>1 DEF ParseQuestion
  <2>3. AllTell("question", 1, r)
    BY <2>1, <2>2, QuestionCallTells DEF AllTell
  <2> QED
    BY <2>2, <2>3, CallReads
<1>11. CASE ParseSkipQuestion
  <2>1. PICK r : r = SkipQuestionCall(prs)
    OBVIOUS
  <2>2. prs.sec = 1 /\ Call("skip", 1, r)
    BY <1>11, <2>1 DEF ParseSkipQuestion
  <2>3. AllTell("skip", 1, r)
    BY <2>1, <2>2, SkipQuestionCallTells DEF AllTell
  <2> QED
    BY <2>2, <2>3, CallReads
<1>12. ASSUME NEW s \in 2 .. 4, ParseHeader(s) PROVE ReaderInv' /\ ReadBack'
  <2>1. PICK r : r = HeaderCall(prs, s)
    OBVIOUS
  <2>2. prs.sec \in 2 .. 4 /\ Call("header", s, r) /\ s \in 1 .. 4
    BY <1>12, <2>1 DEF ParseHeader
  <2>3. AllTell("header", s, r)
    BY <2>1, <2>2, HeaderCallTells DEF AllTell
  <2> QED
    BY <2>2, <2>3, CallReads
<1>13. CASE ParseData
  <2>1. PICK r, s : r = DataCall(prs) /\ s = prs.sec
    OBVIOUS
  <2>2. s \in 2 .. 4 /\ Call("data", s, r) /\ s \in 1 .. 4
    BY <1>13, <2>1 DEF ParseData
  <2>3. AllTell("data", s, r)
    BY <2>1, <2>2, DataCallTells DEF AllTell
  <2> QED
    BY <2>2, <2>3, CallReads
<1>14. CASE ParseResource
  <2>1. PICK s : s = prs.sec
    OBVIOUS
  <2>2. PICK r : r = ResourceCall(prs, s)
    OBVIOUS
  <2>3. s \in 2 .. 4 /\ Call("data", s, r) /\ s \in 1 .. 4
    BY <1>14, <2>1, <2>2 DEF ParseResource
  <2>4. AllTell("data", s, r)
    BY <2>1, <2>2, <2>3, ResourceCallTells DEF AllTell
  <2> QED
    BY <2>3, <2>4, CallReads
<1>15. CASE ParseSkip
  <2>1. PICK s : s = prs.sec
    OBVIOUS
  <2>2. PICK r : r = SkipCall(prs, s)
    OBVIOUS
  <2>3. s \in 2 .. 4 /\ Call("skip", s, r) /\ s \in 1 .. 4
    BY <1>15, <2>1, <2>2 DEF ParseSkip
  <2>4. AllTell("skip", s, r)
    BY <2>1, <2>2, <2>3, SkipCallTells DEF AllTell
  <2> QED
    BY <2>3, <2>4, CallReads
<1>16. CASE UNCHANGED mvars
  <2>1. ReaderInv'
    <3>1. /\ bld' = bld /\ added' = added /\ tainted' = tainted /\ wire' = wire /\ aged' = aged /\ stage' = stage /\ prs' = prs
          /\ seen' = seen /\ astray' = astray
      BY <1>16 DEF mvars
    <3>2. ASSUME stage = "read" PROVE \E at : ReadingAt(at)'
      <4>1. PICK at : ReadingAt(at)
        BY <3>2 DEF ReaderInv
      <4>2. Received(at) /\ TtlsGiven(at) /\ AgedAs(at) /\ IsParser(prs)
        BY <4>1 DEF ReadingAt
      <4>3. Received(at)' /\ TtlsGiven(at)'
        <5>1. Copy(wire', bld.msg, {"ttl"})
          BY <3>1, <4>2 DEF Received
        <5> QED
          BY <3>1, <4>2, <5>1, ReceivedKept, TtlsGivenKept
      <4>4. AgedAs(at)'
        BY <3>1, <4>2 DEF AgedAs, Records, MinSo, PlaceOf, IsRest, NoMore, Weighs, RecordNo, CountsInMin
      <4>5. IsParser(prs)'
        BY <3>1, <4>2 DEF IsParser
      <4>6. (seen'.err # "bad" /\ ~astray') => Standing(at, prs)'
        BY <3>1, <4>1 DEF ReadingAt, Standing, IsParser, Pending, RecordOf, Item
      <4> QED
        BY <4>3, <4>4, <4>5, <4>6 DEF ReadingAt
    <3> QED
      BY <3>1, <3>2 DEF ReaderInv, IsParser
  <2>2. ReadBack'
    <3>1. /\ bld' = bld /\ added' = added /\ tainted' = tainted /\ wire' = wire /\ aged' = aged /\ stage' = stage /\ prs' = prs
          /\ seen' = seen /\ astray' = astray
      BY <1>16 DEF mvars
    <3>2. Expected' = Expected /\ (IsCut' <=> IsCut) /\ (\A r : Given(r)' = Given(r))
      BY <3>1 DEF Expected, IsCut, Given
    <3> QED
      BY <3>1, <3>2 DEF ReadBack
  <2> QED
    BY <2>1, <2>2
<1> QED
  BY <1>2, <1>3, <1>4, <1>5, <1>6, <1>7, <1>8, <1>9, <1>10, <1>11, <1>12, <1>13, <1>14, <1>15, <1>16 DEF MessageNext

(* The inductive invariant of the whole.                                      *)
MessageInv == BuilderInv /\ ReaderInv /\ ReadBack

(* It holds in every reachable state.                                         *)
LEMMA MessageInvHolds == MessageSpec => []MessageInv
<1>1. MessageInit => MessageInv
  BY BuilderInit, ReaderInit DEF MessageInv
<1>2. MessageInv /\ [MessageNext]_mvars => MessageInv'
  BY BuilderNext, ReaderNext DEF MessageInv
<1> QED
  BY <1>1, <1>2, PTL DEF MessageSpec

(* What is packed is read: for any records and questions, in any number, any  *)
(* limits and any cut, each call of the parser, in any order, gives back the  *)
(* item that was added at that place, with its TTL as aged, and fails only on *)
(* a message that was cut or on a name with as many labels as pointers are    *)
(* followed; and packing whole agrees with packing by calls (Builder, Parser, *)
(* Message.AppendPack).                                                       *)
THEOREM WhatIsPackedIsRead == MessageSpec => []RoundTrip
<1>1. MessageInv => RoundTrip
  BY PackAgreesHolds DEF MessageInv, RoundTrip
<1> QED
  BY <1>1, MessageInvHolds, PTL

(* The TTL updateTTL returns is the least that is left to the answers and     *)
(* authorities, or 0 when it is too old and when none counts, for any message *)
(* and any ages; of a message that was cut it is 0 or what is left to one of  *)
(* them (updateTTL).                                                          *)
THEOREM TtlIsRight == MessageSpec => []TTLRight
<1>1. MessageInv => TTLRight
  <2> SUFFICES ASSUME MessageInv PROVE TTLRight
    OBVIOUS
  <2>1. CASE stage = "read"
    BY <2>1, AgedIsRight DEF MessageInv, ReaderInv
  <2>2. CASE stage # "read"
    <3>1. aged = NoAge
      BY <2>2 DEF MessageInv, ReaderInv, BuilderInv
    <3> QED
      BY <3>1 DEF TTLRight
  <2> QED
    BY <2>1, <2>2
<1> QED
  BY <1>1, MessageInvHolds, PTL

(* The builder, its table and the parser keep their types: the counts are     *)
(* those of the sections and fit, every entry of the table can be held by a   *)
(* pointer, and the parser never stands past the message it reads.            *)
THEOREM MessagesTyped == MessageSpec => []MessageTypeOK
<1>1. MessageInv => MessageTypeOK
  <2> SUFFICES ASSUME MessageInv PROVE MessageTypeOK
    OBVIOUS
  <2>1. /\ stage \in {"build", "finished", "read", "queried"} /\ ops \in 0 .. MsgOps /\ tainted \in BOOLEAN /\ astray \in BOOLEAN
        /\ bld.section \in 0 .. 5
    BY DEF MessageInv, BuilderInv, ReaderInv, IsBuilder
  <2>2. \A s \in MsgSections : bld.counts[s] = Len(added[s]) /\ bld.counts[s] <= MaxCount
    BY DEF MessageInv, BuilderInv, IsBuilder
  <2>3. \A s \in DOMAIN bld.table : bld.table[s] \in 0 .. MaxPtr
    <3>1. IsPack(PackOf(bld)) /\ PackOf(bld).table = bld.table
      BY DEF MessageInv, BuilderInv, PackOf
    <3> QED
      BY <3>1 DEF IsPack, IsTable
  <2>4. /\ prs.sec \in 1 .. 5 /\ prs.index \in 0 .. MaxCount /\ prs.off \in 1 .. (Len(wire) + 1)
        /\ stage \in {"read", "queried"} => prs.off <= Len(wire)
    <3>1. CASE stage \in {"build", "finished"}
      <4>1. prs = Parser /\ wire = <<>>
        BY <3>1 DEF MessageInv, ReaderInv
      <4>2. prs.sec = 1 /\ prs.index = 0 /\ prs.off = 1 /\ Len(wire) = 0
        BY <4>1 DEF Parser
      <4> QED
        BY <3>1, <4>2, MessageBounds
    <3>2. CASE stage \in {"read", "queried"}
      <4>1. IsParser(prs)
        BY <3>2 DEF MessageInv, ReaderInv, ReadingAt
      <4>2. prs.off \in 1 .. Len(wire)
        BY <4>1 DEF IsParser
      <4>3. prs.off \in 1 .. (Len(wire) + 1)
        <5>1. Len(wire) \in Int
          OBVIOUS
        <5> QED
          BY <4>2
      <4> QED
        BY <4>1, <4>2, <4>3 DEF IsParser
    <3> QED
      BY <2>1, <3>1, <3>2
  <2> QED
    BY <2>1, <2>2, <2>3, <2>4 DEF MessageTypeOK
<1> QED
  BY <1>1, MessageInvHolds, PTL

------------------------------------------------------------------------------
(* A query, whose first additional record is looked at.                       *)

(* What the first additional record is found to be.                           *)
FirstExtra == added[4][1]

(* The options of an OPT record stand from o to e.                            *)
OptionsIn(msg, r, o, e) ==
    /\ Len(r.body[1]) \in Nat /\ e = o + Len(r.body[1])
    /\ \A i \in 1 .. Len(r.body[1]) : Cell(msg, o + i - 1) = <<"options", r.body[1][i]>>

(* An OPT record's data are its options.                                      *)
LEMMA OptData == Data("OPT") = <<"options">> /\ Len(Data("OPT")) = 1 /\ Data("OPT")[1] = "options"
BY DEF Data, OPTData

(* They stand where its data do.                                              *)
LEMMA OptionsHere ==
  ASSUME NEW msg, NEW table, NEW sound, NEW r \in MsgRecords, r.type = "OPT", NEW o, NEW e, BodyIn(msg, table, sound, o, r, e)
  PROVE  OptionsIn(msg, r, o, e)
<1>1. PICK at : /\ at[0] = o /\ at[1] = e
                /\ FieldIn(msg, table, sound, at[0], "options", r.body[1], at[1])
  <2>1. PICK at : /\ at[0] = o /\ at[Len(Data(r.type))] = e
                  /\ \A i \in 1 .. Len(Data(r.type)) : FieldIn(msg, table, sound, at[i - 1], Data(r.type)[i], r.body[i], at[i])
    BY DEF BodyIn
  <2>2. 1 \in 1 .. Len(Data(r.type)) /\ Data(r.type)[1] = "options" /\ Len(Data(r.type)) = 1 /\ 1 - 1 = 0
    BY OptData
  <2> QED
    BY <2>1, <2>2
<1>2. PICK kind, v : kind = "options" /\ v = r.body[1] /\ FieldIn(msg, table, sound, o, kind, v, e)
  BY <1>1
<1>3. IsList(kind) /\ Listed(kind, v) = v
  BY <1>2 DEF IsList, Listed
<1>4. ListIn(msg, o, kind, v, e)
  BY <1>2, <1>3 DEF FieldIn
<1> QED
  BY <1>2, <1>4 DEF ListIn, OptionsIn

(* They are what is read of it, and its only name is its own.                 *)
LEMMA OptRead ==
  ASSUME NEW r \in MsgRecords, r.type = "OPT"
  PROVE  Read(r)[1] = r.body[1] /\ \A n \in NamesOf(r) : n = r.name
<1>1. Len(r.body) = 1 /\ Data(r.type)[1] = "options"
  BY OptData, MessageAssumption
<1>2. Read(r)[1] = r.body[1]
  BY <1>1 DEF Read
<1>3. \A n \in NamesOf(r) : n = r.name
  BY <1>1 DEF NamesOf
<1> QED
  BY <1>2, <1>3

(* A query whose options were blanked is still a copy of what was built.      *)
LEMMA BlankedCopy ==
  ASSUME NEW w, NEW msg, Copy(w, msg, {"ttl"}), NEW r, NEW o \in Nat, NEW e, OptionsIn(msg, r, o, e), e <= Len(w),
         NEW n, n = Len(r.body[1]), NEW y, y = Nuttered(w, o, n)
  PROVE  Copy(y, msg, Loose) /\ Len(y) = Len(w) /\ \A i \in 1 .. n : y[o + i][2] # "ecs"
<1>1. PICK size \in Nat : size = Len(w) /\ IsSeq(w) /\ size > 0 /\ Len(msg) \in Nat /\ MsgPrefix + size <= Len(msg)
  BY DEF Copy
<1>2. n \in Nat /\ e = o + n /\ o + n <= size
  BY <1>1 DEF OptionsIn
<1>3. /\ IsSeq(y) /\ Len(y) = size
      /\ \A i \in 1 .. size : y[i] = IF i \in (o + 1) .. (o + n) /\ w[i][2] = "ecs" THEN <<"options", "void">> ELSE w[i]
  <2>1. Blanked(w, o, n, y)
    BY <1>1, NutteredIs
  <2> QED
    BY ONLY <1>1, <2>1 DEF Blanked
<1>4. ASSUME NEW i \in 1 .. n PROVE y[o + i][2] # "ecs"
  <2>1. o + i \in 1 .. size /\ o + i \in (o + 1) .. (o + n)
    BY <1>1, <1>2
  <2>2. CASE w[o + i][2] = "ecs"
    <3>1. y[o + i] = <<"options", "void">>
      BY <1>3, <2>1, <2>2
    <3> QED
      BY <3>1
  <2>3. CASE w[o + i][2] # "ecs"
    BY <1>3, <2>1, <2>3
  <2> QED
    BY <2>2, <2>3
<1>5. ASSUME NEW p \in 0 .. size - 1
      PROVE  At(y, p)[1] = Cell(msg, p)[1] /\ (Cell(msg, p)[1] \notin Loose => At(y, p) = Cell(msg, p))
  <2>1. At(w, p)[1] = Cell(msg, p)[1] /\ (Cell(msg, p)[1] \notin {"ttl"} => At(w, p) = Cell(msg, p))
    BY <1>1 DEF Copy
  <2>2. PICK x, z : x = At(w, p) /\ z = At(y, p) /\ x = w[p + 1] /\ z = y[p + 1]
    BY DEF At
  <2>3. p + 1 \in 1 .. size
    BY <1>1
  <2>4. CASE p + 1 \in (o + 1) .. (o + n) /\ w[p + 1][2] = "ecs"
    <3>1. z = <<"options", "void">>
      BY <1>3, <2>2, <2>3, <2>4
    <3>2. PICK i : i = p + 1 - o
      OBVIOUS
    <3>3. i \in 1 .. n /\ o + i - 1 = p
      BY ONLY <1>1, <1>2, <2>4, <3>2, o \in Nat, p \in 0 .. size - 1
    <3>4. Cell(msg, p) = <<"options", r.body[1][i]>>
      BY <3>3 DEF OptionsIn
    <3>5. Cell(msg, p)[1] = "options" /\ z[1] = "options"
      BY <3>1, <3>4
    <3> QED
      BY <2>2, <3>5 DEF Loose
  <2>5. CASE ~ (p + 1 \in (o + 1) .. (o + n) /\ w[p + 1][2] = "ecs")
    <3>1. z = x
      BY <1>3, <2>2, <2>3, <2>5
    <3> QED
      BY <2>1, <2>2, <3>1 DEF Loose
  <2> QED
    BY <2>4, <2>5
<1> QED
  BY <1>1, <1>3, <1>4, <1>5 DEF Copy

(* Where a query's reader comes to after what precedes the additionals.       *)
SkippedTo(at, off) ==
    /\ off # -1 => off = at[Item(4, 0)] /\ off <= Len(wire)
    /\ off = -1 => IsCut

(* It comes to the first additional, or the message was cut.                  *)
LEMMA SkippedOff ==
  ASSUME NEW at, Received(at), NEW w, NEW loose \in SUBSET Loose, Copy(w, bld.msg, loose), Len(w) = Len(wire), NEW off,
         off = IF Questions(w) = -1 THEN -1 ELSE SkipSections(w, Questions(w))
  PROVE  SkippedTo(at, off)
<1>1. PICK a, b : a = at[ItemsBefore(added, 2)] /\ b = at[ItemsBefore(added, 4)]
  OBVIOUS
<1>2. Questions(w) = Until(w, a)
  BY <1>1, QuestionsSkipped DEF Received
<1>3. SkipSections(w, Questions(w)) = Until(w, b)
  BY <1>1, <1>2, RecordsSkipped DEF Received
<1>4. Item(2, 0) = ItemsBefore(added, 2) /\ Item(4, 0) = ItemsBefore(added, 4) /\ a \in Nat /\ b \in Nat /\ a # -1 /\ b # -1
  <2>1. PICK q, c, d \in Nat : ItemsBefore(added, 2) = q /\ ItemsBefore(added, 4) = q + c + d
    <3>1. PICK q, c, d \in Nat : q = Len(added[1]) /\ c = Len(added[2]) /\ d = Len(added[3])
      BY LensAre DEF Received
    <3> QED
      BY <3>1, BeforeIs
  <2>2. q + 0 = q /\ (q + c + d) + 0 = q + c + d
    OBVIOUS
  <2>3. Item(2, 0) = ItemsBefore(added, 2) /\ Item(4, 0) = ItemsBefore(added, 4)
    BY ONLY <2>1, <2>2 DEF Item
  <2>4. at[Item(2, 0)] \in Nat
    <3>1. 2 \in 1 .. 5 /\ 0 \in Nat /\ 0 <= Len(added[2])
      BY LensAre DEF Received
    <3> QED
      BY <3>1, ItemPlaces
  <2>5. at[Item(4, 0)] \in Nat
    <3>1. 4 \in 1 .. 5 /\ 0 \in Nat /\ 0 <= Len(added[4])
      BY LensAre DEF Received
    <3> QED
      BY <3>1, ItemPlaces
  <2> QED
    BY <1>1, <2>3, <2>4, <2>5
<1>5. CASE ~ (a <= Len(wire))
  <2>1. off = -1
    BY <1>2, <1>5 DEF Until
  <2>2. IsCut
    <3>1. 2 \in 1 .. 5 /\ 0 \in Nat /\ 0 <= Len(added[2])
      BY LensAre DEF Received
    <3>2. ~ (at[Item(2, 0)] <= Len(wire))
      BY <1>1, <1>4, <1>5
    <3>3. 0 <= IF 2 = 5 THEN 0 ELSE Len(added[2])
      BY <3>1
    <3> QED
      BY <3>1, <3>2, <3>3, EndIsCut
  <2> QED
    BY <2>1, <2>2 DEF SkippedTo
<1>6. CASE a <= Len(wire) /\ ~ (b <= Len(wire))
  <2>1. off = -1
    BY <1>2, <1>3, <1>4, <1>6 DEF Until
  <2>2. IsCut
    <3>1. 4 \in 1 .. 5 /\ 0 \in Nat /\ 0 <= Len(added[4])
      BY LensAre DEF Received
    <3>2. ~ (at[Item(4, 0)] <= Len(wire))
      BY <1>1, <1>4, <1>6
    <3>3. 0 <= IF 4 = 5 THEN 0 ELSE Len(added[4])
      BY <3>1
    <3> QED
      BY <3>1, <3>2, <3>3, EndIsCut
  <2> QED
    BY <2>1, <2>2 DEF SkippedTo
<1>7. CASE a <= Len(wire) /\ b <= Len(wire)
  <2>1. off = b
    BY <1>2, <1>3, <1>4, <1>7 DEF Until
  <2> QED
    BY <1>1, <1>4, <1>7, <2>1 DEF SkippedTo
<1> QED
  BY <1>5, <1>6, <1>7

(* The first additional record as it is read, and its data.                   *)
FirstRead(at, o, h, b) ==
    /\ ~h.ok => IsCut \/ Len(FirstExtra.name) >= MaxHops
    /\ h.ok => /\ h.type = FirstExtra.type
               /\ \E l \in Nat : RecordOf(at, 4, 1, l) /\ h.end = l + 3 /\ h.end + h.length = at[Item(4, 1)]
               /\ b.ok => b.vals = Read(FirstExtra) /\ at[Item(4, 1)] <= Len(wire)
               /\ ~b.ok => IsCut \/ LongNames(FirstExtra)

(* It is the record that was added.                                           *)
LEMMA FirstReads ==
  ASSUME NEW at, Received(at), TtlsGiven(at), ~tainted, Len(added[4]) > 0, NEW o, o = at[Item(4, 0)], o <= Len(wire),
         NEW h, h = UnpackHeader(wire, o), NEW b, b = UnpackBody(wire, h.end, h.type, h.length)
  PROVE  FirstRead(at, o, h, b)
<1>1. Len(added[4]) \in Nat /\ 1 <= Len(added[4]) /\ 0 < Len(added[4]) /\ 4 \in 1 .. 5 /\ 0 \in Nat /\ 0 <= IF 4 = 5 THEN 0 ELSE Len(added[4])
  BY LensAre DEF Received
<1>2. o \in Nat /\ o >= 1
  BY <1>1, ItemPlaces
<1>3. PICK q : q = [sec |-> 4, index |-> 0, off |-> o, valid |-> FALSE, hoff |-> 0, htype |-> "none", hlen |-> 0]
  OBVIOUS
<1>4. q.sec = 4 /\ q.index = 0 /\ q.off = o /\ q.valid = FALSE /\ q.hoff = 0 /\ q.htype = "none" /\ q.hlen = 0
  BY <1>3
<1>5. Standing(at, q)
  <2>1. o \in 1 .. Len(wire) /\ 0 \in 0 .. MaxCount /\ 4 \in 1 .. 5
    <3>1. Len(wire) \in Nat /\ MaxCount \in Nat
      BY MessageBounds DEF Received, Copy
    <3> QED
      BY <1>2, <3>1
  <2>2. IsParser(q)
    BY <1>3, <1>4, <2>1 DEF IsParser
  <2> QED
    BY <1>1, <1>4, <2>2 DEF Standing
<1>6. PICK r : r = FirstExtra /\ r = added[q.sec][q.index + 1]
  <2>1. q.index + 1 = 1
    BY <1>4
  <2> QED
    BY <1>4, <2>1 DEF FirstExtra
<1>7. HeaderTells(at, q, r, h)
  <2>1. q.sec \in 2 .. 4 /\ q.index < Len(added[q.sec]) /\ q.valid = FALSE /\ h = UnpackHeader(wire, q.off)
    BY <1>1, <1>4
  <2> QED
    BY <1>5, <1>6, <2>1, HeaderHere
<1>8. CASE ~h.ok
  BY <1>6, <1>7, <1>8 DEF HeaderTells, FirstRead
<1>9. CASE h.ok
  <2>1. PICK end, type, length : end = h.end /\ type = h.type /\ length = h.length
    OBVIOUS
  <2>2. PICK p : p = HeaderOf(q, h)
    OBVIOUS
  <2>3. p = [sec |-> 4, index |-> 0, off |-> end, valid |-> TRUE, hoff |-> o, htype |-> type, hlen |-> length]
    <3>1. p = [q EXCEPT !.valid = TRUE, !.hoff = o, !.off = end, !.htype = type, !.hlen = length]
      BY <1>4, <2>1, <2>2 DEF HeaderOf
    <3> QED
      BY ONLY <1>3, <3>1
  <2>4. p.sec = 4 /\ p.index = 0 /\ p.off = end /\ p.valid = TRUE /\ p.htype = type /\ p.hlen = length
    BY <2>3
  <2>5. Standing(at, p) /\ type = r.type
    BY <1>7, <1>9, <2>1, <2>2 DEF HeaderTells
  <2>6. p.index + 1 = 1
    BY <2>4
  <2>7. \E l \in Nat : RecordOf(at, 4, 1, l) /\ end = l + 3 /\ end + length = at[Item(4, 1)]
    <3>1. Pending(at, p)
      BY <2>4, <2>5 DEF Standing
    <3> QED
      BY <2>4, <2>6, <3>1 DEF Pending
  <2>8. DataTells(at, p, r, b)
    <3>1. b = UnpackBody(wire, p.off, p.htype, p.hlen)
      BY <2>1, <2>4
    <3>2. r = added[p.sec][p.index + 1] /\ p.valid
      BY <1>6, <2>4, <2>6 DEF FirstExtra
    <3> QED
      BY <2>5, <3>1, <3>2, DataHere
  <2>9. b.ok => at[Item(4, 1)] <= Len(wire)
    <3> SUFFICES ASSUME b.ok PROVE at[Item(4, 1)] <= Len(wire)
      OBVIOUS
    <3>1. PICK e : e = p.off + p.hlen /\ e = at[Item(4, 1)]
      BY <2>4, <2>7
    <3>2. Standing(at, Next1(p, e))
      BY <2>8, <3>1 DEF DataTells
    <3>3. Next1(p, e).off = e
      BY <2>3 DEF Next1
    <3>4. Next1(p, e).off \in 1 .. Len(wire)
      BY <3>2 DEF Standing, IsParser
    <3>5. Len(wire) \in Nat
      BY DEF Received, Copy
    <3> QED
      BY <3>1, <3>3, <3>4, <3>5
  <2> QED
    BY <1>6, <1>9, <2>1, <2>5, <2>7, <2>8, <2>9 DEF DataTells, FirstRead
<1> QED
  BY <1>8, <1>9

(* What a query's parsing finds: the question it asks, and what its first     *)
(* additional record is.                                                      *)
ParsedSo(asked, off, h, opt, found, w) ==
    /\ found = (asked.err = "none" /\ off # -1 /\ bld.counts[4] > 0 /\ h.ok /\ h.type = "OPT" /\ opt.ok)
    /\ qry' = [ended |-> CASE asked.err # "none" -> "question"
                           [] asked.err = "none" /\ off = -1 -> "additional"
                           [] asked.err = "none" /\ off # -1 /\ bld.counts[4] = 0 -> "ok"
                           [] asked.err = "none" /\ off # -1 /\ bld.counts[4] > 0 ->
                                  IF ~h.ok THEN "additional" ELSE IF h.type # "OPT" THEN "loops"
                                  ELSE IF ~opt.ok THEN "OPT" ELSE "ok",
               name |-> asked.val, sized |-> found,
               mac |-> found /\ \E i \in 1..h.length : opt.vals[1][i] = "mac"]
    /\ w = IF found THEN Nuttered(wire, h.end, h.length) ELSE wire

(* How the parsing of a query ends.                                           *)
Endings(asked, off, h, opt, ended, found) ==
    \/ asked.err # "none" /\ ended = "question" /\ found = FALSE
    \/ asked.err = "none" /\ off = -1 /\ ended = "additional" /\ found = FALSE
    \/ asked.err = "none" /\ off # -1 /\ bld.counts[4] = 0 /\ ended = "ok" /\ found = FALSE
    \/ /\ asked.err = "none" /\ off # -1 /\ bld.counts[4] > 0
       /\ \/ ~h.ok /\ ended = "additional" /\ found = FALSE
          \/ h.ok /\ h.type # "OPT" /\ ended = "loops" /\ found = FALSE
          \/ h.ok /\ h.type = "OPT" /\ ~opt.ok /\ ended = "OPT" /\ found = FALSE
          \/ h.ok /\ h.type = "OPT" /\ opt.ok /\ ended = "ok" /\ found = TRUE

(* It ends in one of those ways.                                              *)
LEMMA QueryEnds ==
  ASSUME NEW asked, NEW off, NEW h, NEW opt, NEW found, NEW w, ParsedSo(asked, off, h, opt, found, w), bld.counts[4] \in Nat
  PROVE  Endings(asked, off, h, opt, qry'.ended, found)
<1>1. PICK ended : ended = CASE asked.err # "none" -> "question"
                           [] asked.err = "none" /\ off = -1 -> "additional"
                           [] asked.err = "none" /\ off # -1 /\ bld.counts[4] = 0 -> "ok"
                           [] asked.err = "none" /\ off # -1 /\ bld.counts[4] > 0 ->
                                  IF ~h.ok THEN "additional" ELSE IF h.type # "OPT" THEN "loops"
                                  ELSE IF ~opt.ok THEN "OPT" ELSE "ok"
  OBVIOUS
<1>2. qry'.ended = ended
  BY <1>1 DEF ParsedSo
<1>3. PICK n \in Nat : n = bld.counts[4]
  OBVIOUS
<1>4. CASE asked.err # "none"
  BY <1>1, <1>2, <1>4 DEF Endings, ParsedSo
<1>5. CASE asked.err = "none" /\ off = -1
  BY <1>1, <1>2, <1>5 DEF Endings, ParsedSo
<1>6. CASE asked.err = "none" /\ off # -1 /\ n = 0
  BY <1>1, <1>2, <1>3, <1>6 DEF Endings, ParsedSo
<1>7. CASE asked.err = "none" /\ off # -1 /\ n > 0
  <2>1. ended = IF ~h.ok THEN "additional" ELSE IF h.type # "OPT" THEN "loops" ELSE IF ~opt.ok THEN "OPT" ELSE "ok"
    BY <1>1, <1>3, <1>7
  <2>2. found = (h.ok /\ h.type = "OPT" /\ opt.ok)
    BY <1>3, <1>7 DEF ParsedSo
  <2> QED
    BY <1>2, <1>3, <1>7, <2>1, <2>2 DEF Endings
<1> QED
  BY <1>3, <1>4, <1>5, <1>6, <1>7

(* Parsing a query tells what EDNSFound says.                                 *)
LEMMA QueryTells == ASSUME BuilderInv, ReaderInv, ParseQuery PROVE EDNSFound'
<1> SUFFICES ASSUME ~tainted PROVE EDNSFound'
  BY DEF EDNSFound, ParseQuery
<1>1. /\ stage = "read" /\ aged = NoAge /\ seen = NothingSeen /\ stage' = "queried"
      /\ bld' = bld /\ added' = added /\ tainted' = tainted
  BY DEF ParseQuery
<1>2. prs = Parser
  BY <1>1 DEF ReaderInv
<1>3. PICK at : ReadingAt(at)
  BY <1>1 DEF ReaderInv
<1>4. Received(at) /\ TtlsGiven(at) /\ Standing(at, Parser)
  BY <1>3, ParserStands DEF ReadingAt
<1>5. PICK asked : asked = QuestionCall(Parser)
  OBVIOUS
<1>6. PICK off : off = IF Questions(wire) = -1 THEN -1 ELSE SkipSections(wire, Questions(wire))
  OBVIOUS
<1>7. PICK h : h = UnpackHeader(wire, off)
  OBVIOUS
<1>8. PICK opt : opt = UnpackBody(wire, h.end, h.type, h.length)
  OBVIOUS
<1>9. PICK found : found = (asked.err = "none" /\ off # -1 /\ bld.counts[4] > 0 /\ h.ok /\ h.type = "OPT" /\ opt.ok)
  OBVIOUS
<1>10. PICK w : w = wire'
  OBVIOUS
<1>11. ParsedSo(asked, off, h, opt, found, w)
  BY <1>2, <1>5, <1>6, <1>7, <1>8, <1>9, <1>10 DEF ParseQuery, ParsedSo
<1>12. PICK n \in Nat : n = bld.counts[4] /\ n = Len(added[4])
  BY <1>4, LensAre DEF Received, Counted
<1>13. Endings(asked, off, h, opt, qry'.ended, found)
  BY <1>11, <1>12, QueryEnds
<1>14. qry'.name = asked.val /\ qry'.sized = found /\ qry'.mac = (found /\ \E i \in 1 .. h.length : opt.vals[1][i] = "mac")
  BY <1>11 DEF ParsedSo
<1>15. asked.err = "none" => asked.val = added[1][1]
  <2>1. Parser.sec = 1 /\ Parser.index = 0 /\ Parser.valid = FALSE /\ 0 + 1 = 1
    BY DEF Parser
  <2>2. Tells(at, "question", 1, Parser, asked)
    BY <1>4, <1>5, <2>1, QuestionCallTells
  <2>3. Told("question", 1, 0, asked)
    BY <2>1, <2>2 DEF Tells, Strays
  <2> QED
    BY <2>1, <2>3 DEF Told
<1>16. SkippedTo(at, off)
  <2>1. PICK loose \in SUBSET Loose : loose = {"ttl"} /\ Copy(wire, bld.msg, loose)
    BY <1>4 DEF Received, Loose
  <2> QED
    BY <1>4, <1>6, <2>1, SkippedOff
<1>17. off # -1 /\ n > 0 => FirstRead(at, off, h, opt)
  BY <1>4, <1>7, <1>8, <1>12, <1>16, FirstReads DEF SkippedTo
<1>18. PICK r : r = FirstExtra /\ (n > 0 => r \in MsgRecords)
  <2>1. added[4] \in Seq(MsgRecords)
    BY <1>4 DEF Received, IsAdded
  <2> QED
    BY <1>12, <2>1 DEF FirstExtra
<1>19. Len(w) = Len(wire)
  <2>1. IsSeq(wire)
    BY <1>4 DEF Received, Copy
  <2> QED
    BY <1>11, <2>1, NutteredIs DEF ParsedSo, Blanked
<1>20. (IsCut' <=> IsCut) /\ added'[4][1] = r /\ added'[4] = added[4] /\ added'[1][1] = added[1][1]
  BY <1>1, <1>10, <1>18, <1>19 DEF IsCut, FirstExtra
<1>21. ASSUME qry'.ended = "ok", added[4] # <<>> PROVE found = TRUE /\ n > 0 /\ h.ok /\ h.type = "OPT" /\ opt.ok /\ off # -1
  <2>1. n # 0
    <3>1. IsSeq(added[4])
      BY <1>4, LensAre DEF Received
    <3>2. n = 0 => added[4] = <<>>
      <4>1. added[4] \in Seq(MsgRecords)
        BY <1>4 DEF Received, IsAdded
      <4>2. PICK q : q = added[4]
        OBVIOUS
      <4>3. q \in Seq(MsgRecords) /\ n = Len(q)
        BY <1>12, <4>1, <4>2
      <4>4. n = 0 => q = <<>>
        BY ONLY <4>3, EmptySeq
      <4> QED
        BY <4>2, <4>4
    <3> QED
      BY <1>21, <3>2
  <2> QED
    BY <1>12, <1>13, <1>21, <2>1 DEF Endings
<1>22. ASSUME qry'.ended = "ok", added[4] # <<>>
       PROVE  /\ (\E i \in 1 .. h.length : opt.vals[1][i] = "mac") <=> (\E i \in 1 .. Len(r.body[1]) : r.body[1][i] = "mac")
              /\ LET options == FieldsEnd(w, SkipSections(w, Questions(w)))
                 IN \A i \in 1 .. At(w, options - 1)[2] : w[options + i][2] # "ecs"
  <2>1. found = TRUE /\ n > 0 /\ h.ok /\ h.type = "OPT" /\ opt.ok /\ off # -1 /\ r \in MsgRecords
    BY <1>18, <1>21, <1>22
  <2>2. /\ h.type = r.type /\ opt.vals = Read(r) /\ at[Item(4, 1)] <= Len(wire)
        /\ \E l \in Nat : RecordOf(at, 4, 1, l) /\ h.end = l + 3 /\ h.end + h.length = at[Item(4, 1)]
    BY <1>17, <1>18, <2>1 DEF FirstRead
  <2>3. PICK l \in Nat : RecordOf(at, 4, 1, l) /\ h.end = l + 3 /\ h.end + h.length = at[Item(4, 1)]
    BY <2>2
  <2>4. PICK e : e = at[Item(4, 1)]
    OBVIOUS
  <2>5. RecordHere(bld.msg, bld.table, ~tainted, at[Item(4, 1) - 1], r, l, e)
    BY <1>18, <2>3, <2>4 DEF RecordOf, FirstExtra
  <2>6. PICK o \in Nat : o = l + 3 /\ OptionsIn(bld.msg, r, o, e)
    <3>1. BodyIn(bld.msg, bld.table, ~tainted, l + 3, r, e)
      BY <2>5 DEF RecordHere
    <3>2. PICK o \in Nat : o = l + 3
      OBVIOUS
    <3> QED
      BY <2>1, <2>2, <3>1, <3>2, OptionsHere
  <2>7. PICK k \in Nat : k = Len(r.body[1]) /\ e = o + k
    BY <2>6 DEF OptionsIn
  <2>8. PICK len : len = h.length
    OBVIOUS
  <2>9. PICK loose \in SUBSET Loose : loose = {"ttl"} /\ Copy(wire, bld.msg, loose)
    BY <1>4 DEF Received, Loose
  <2>10. PICK msg, table, sound : msg = bld.msg /\ table = bld.table /\ sound = ~tainted
    OBVIOUS
  <2>11. RecordHere(msg, table, sound, off, r, l, e)
    <3>1. 4 \in 1 .. 5 /\ 0 \in Nat /\ 0 <= IF 4 = 5 THEN 0 ELSE Len(added[4])
      BY <1>12
    <3>2. Item(4, 0 + 1) - 1 = Item(4, 0)
      BY <1>4, <3>1, ItemPlaces
    <3>3. at[Item(4, 1) - 1] = off
      BY <1>16, <2>1, <3>2 DEF SkippedTo
    <3> QED
      BY <2>5, <2>10, <3>3
  <2>12. RecordRead(wire, msg, off, r, l, e)
    BY <2>9, <2>10, <2>11, RecordReads
  <2>13. h = HeaderGives(wire, off, l, h) /\ l + 3 <= Len(wire)
    <3>1. IF UnpackName(wire, off).ok /\ l + 3 <= Len(wire) THEN h = HeaderGives(wire, off, l, h) ELSE h = [ok |-> FALSE]
      BY <1>7, <2>9, <2>10, <2>11, HeaderReads
    <3>2. h # [ok |-> FALSE]
      BY <2>1
    <3> QED
      BY <3>1, <3>2
  <2>14. len = e - (l + 3)
    <3>1. len = At(wire, l + 2)[2]
      BY <2>8, <2>13 DEF HeaderGives
    <3> QED
      BY <2>12, <2>13, <3>1 DEF RecordRead
  <2>15. len = k
    <3>1. e = (l + 3) + k
      BY <2>6, <2>7
    <3> QED
      BY ONLY <2>14, <3>1, l \in Nat, k \in Nat
  <2>16. e <= Len(wire) /\ Len(wire) \in Nat
    BY <2>2, <2>4, <2>12 DEF RecordRead
  <2>17. w = Nuttered(wire, o, k)
    BY <1>11, <2>1, <2>3, <2>6, <2>8, <2>15 DEF ParsedSo
  <2>18. Copy(w, msg, Loose) /\ \A i \in 1 .. k : w[o + i][2] # "ecs"
    <3>1. Copy(wire, msg, {"ttl"}) /\ OptionsIn(msg, r, o, e)
      BY <2>6, <2>9, <2>10
    <3> QED
      BY <2>7, <2>16, <2>17, <3>1, BlankedCopy
  <2>19. Questions(w) = Questions(wire) /\ SkipSections(w, Questions(w)) = SkipSections(wire, Questions(wire))
    <3>1. PICK a, b : a = at[ItemsBefore(added, 2)] /\ b = at[ItemsBefore(added, 4)]
      OBVIOUS
    <3>2. Loose \in SUBSET Loose /\ Laid(msg, table, sound, added, at) /\ Counted /\ IsAdded(added)
      BY <1>4, <2>10 DEF Received
    <3>3. Questions(w) = Until(w, a)
      BY <2>18, <3>1, <3>2, QuestionsSkipped
    <3>4. Questions(wire) = Until(wire, a)
      BY <2>9, <2>10, <3>1, <3>2, QuestionsSkipped
    <3>5. SkipSections(w, Questions(w)) = Until(w, b)
      BY <2>18, <3>1, <3>2, <3>3, RecordsSkipped
    <3>6. SkipSections(wire, Questions(wire)) = Until(wire, b)
      BY <2>9, <2>10, <3>1, <3>2, <3>4, RecordsSkipped
    <3> QED
      BY <1>19, <3>3, <3>4, <3>5, <3>6 DEF Until
  <2>20. SkipSections(w, Questions(w)) = off
    BY <1>6, <2>1, <2>19
  <2>21. RecordRead(w, msg, off, r, l, e)
    <3>1. Loose \in SUBSET Loose
      OBVIOUS
    <3> QED
      BY <2>11, <2>18, <3>1, RecordReads
  <2>22. FieldsEnd(w, off) = o /\ At(w, o - 1)[2] = k
    <3>1. FieldsEnd(w, off) = Until(w, l + 3) /\ (l + 3 <= Len(w) => At(w, l + 2)[2] = e - (l + 3))
      BY <2>21 DEF RecordRead
    <3>2. l + 3 <= Len(w)
      BY <1>19, <2>13
    <3>3. Until(w, l + 3) = o /\ o - 1 = l + 2
      BY <2>6, <3>2 DEF Until
    <3> QED
      BY <2>14, <2>15, <3>1, <3>2, <3>3
  <2>23. (\E i \in 1 .. h.length : opt.vals[1][i] = "mac") <=> (\E i \in 1 .. Len(r.body[1]) : r.body[1][i] = "mac")
    <3>1. r.type = "OPT"
      BY <2>1, <2>2
    <3>2. opt.vals[1] = r.body[1]
      BY <2>1, <2>2, <3>1, OptRead
    <3>3. h.length = Len(r.body[1])
      BY <2>7, <2>8, <2>15
    <3> QED
      BY <3>2, <3>3
  <2> QED
    BY <2>18, <2>20, <2>22, <2>23
<1>23. PICK ended : ended = qry'.ended
  OBVIOUS
<1>24. (ended = "ok" /\ added'[4] # <<>>) =>
           /\ qry'.sized
           /\ qry'.mac <=> (\E i \in 1 .. Len(r.body[1]) : r.body[1][i] = "mac")
           /\ LET options == FieldsEnd(w, SkipSections(w, Questions(w)))
              IN \A i \in 1 .. At(w, options - 1)[2] : w[options + i][2] # "ecs"
  BY <1>14, <1>20, <1>21, <1>22, <1>23
<1>25. ended # "question" => qry'.name = added'[1][1]
  BY <1>13, <1>14, <1>15, <1>20, <1>23 DEF Endings
<1>26. ended = "loops" => r.type # "OPT"
  <2> SUFFICES ASSUME ended = "loops" PROVE r.type # "OPT"
    OBVIOUS
  <2>1. off # -1 /\ n > 0 /\ h.ok /\ h.type # "OPT"
    BY <1>12, <1>13, <1>23 DEF Endings
  <2> QED
    BY <1>17, <1>18, <2>1 DEF FirstRead
<1>27. ended \in {"additional", "OPT"} => IsCut' \/ Len(r.name) >= MaxHops
  <2>1. CASE ended = "additional"
    <3>1. off = -1 \/ (off # -1 /\ n > 0 /\ ~h.ok)
      BY <1>12, <1>13, <1>23, <2>1 DEF Endings
    <3> QED
      BY <1>16, <1>17, <1>18, <1>20, <3>1 DEF FirstRead, SkippedTo
  <2>2. CASE ended = "OPT"
    <3>1. off # -1 /\ n > 0 /\ h.ok /\ h.type = "OPT" /\ ~opt.ok
      BY <1>12, <1>13, <1>23, <2>2 DEF Endings
    <3>2. r.type = "OPT" /\ r \in MsgRecords /\ (IsCut \/ LongNames(r))
      BY <1>17, <1>18, <3>1 DEF FirstRead
    <3>3. LongNames(r) => Len(r.name) >= MaxHops
      BY <3>2, OptRead DEF LongNames
    <3> QED
      BY <1>20, <3>2, <3>3
  <2> QED
    BY <2>1, <2>2
<1>28. SkipSections(wire, Questions(wire))' = SkipSections(w, Questions(w))
  BY <1>1, <1>10 DEF SkipSections, Questions
<1>29. FieldsEnd(wire, SkipSections(wire, Questions(wire)))' = FieldsEnd(w, SkipSections(w, Questions(w)))
  BY <1>10, <1>28
<1>30. PICK options : options = FieldsEnd(w, SkipSections(w, Questions(w)))
  OBVIOUS
<1>31. options = FieldsEnd(wire, SkipSections(wire, Questions(wire)))'
  BY <1>29, <1>30
<1>32. (ended = "ok" /\ added'[4] # <<>>) => \A i \in 1 .. At(w, options - 1)[2] : w[options + i][2] # "ecs"
  BY <1>24, <1>30
<1>33. FirstExtra' = r /\ FirstExtra' = added'[4][1]
  BY <1>20 DEF FirstExtra
<1> QED
  BY <1>10, <1>23, <1>24, <1>25, <1>26, <1>27, <1>31, <1>32, <1>33 DEF EDNSFound

(* Nothing is done with a query after its parsing, and only its parsing       *)
(* makes it one.                                                              *)
LEMMA QueriedOnce ==
  ASSUME stage # "queried", MessageNext, ~ParseQuery
  PROVE  stage' # "queried"
<1>1. CASE EnableCompression
  BY <1>1 DEF EnableCompression
<1>2. ASSUME NEW s \in MsgSections, StartSection(s) PROVE stage' # "queried"
  BY <1>2 DEF StartSection
<1>3. ASSUME NEW name \in MsgQuestions, AddQuestion(name) PROVE stage' # "queried"
  BY <1>3 DEF AddQuestion, Add
<1>4. ASSUME NEW r \in MsgRecords, AddResource(r) PROVE stage' # "queried"
  BY <1>4 DEF AddResource, Add
<1>5. CASE Finish
  BY <1>5 DEF Finish
<1>6. ASSUME NEW cut \in Cuts, Deliver(cut) PROVE stage' # "queried"
  BY <1>6 DEF Deliver
<1>7. ASSUME NEW op, NEW s, NEW r, Call(op, s, r) PROVE stage' # "queried"
  BY <1>7 DEF Call
<1>8. ASSUME NEW a \in Ageings, Age(a) PROVE stage' # "queried"
  <2>1. stage' = stage
    BY <1>8 DEF Age
  <2> QED
    BY <2>1
<1>9. (ParseQuestion \/ ParseSkipQuestion) => stage' # "queried"
  BY <1>7 DEF ParseQuestion, ParseSkipQuestion
<1>10. (\E s \in 2 .. 4 : ParseHeader(s)) => stage' # "queried"
  BY <1>7 DEF ParseHeader
<1>11. (ParseData \/ ParseResource \/ ParseSkip) => stage' # "queried"
  BY <1>7 DEF ParseData, ParseResource, ParseSkip
<1> QED
  BY <1>1, <1>2, <1>3, <1>4, <1>5, <1>6, <1>8, <1>9, <1>10, <1>11 DEF MessageNext

(* Nothing follows.                                                           *)
LEMMA QueriedStays ==
  ASSUME stage = "queried", MessageNext
  PROVE  FALSE
<1>1. ~ \E op, s, r : Call(op, s, r)
  BY DEF Call
<1>2. ~ (ParseQuestion \/ ParseSkipQuestion \/ ParseData \/ ParseResource \/ ParseSkip \/ \E s \in 2 .. 4 : ParseHeader(s))
  BY <1>1 DEF ParseQuestion, ParseSkipQuestion, ParseData, ParseResource, ParseSkip, ParseHeader
<1>3. ~ (EnableCompression \/ Finish \/ \E s \in MsgSections : StartSection(s))
  BY DEF EnableCompression, Finish, StartSection
<1>4. ~ ((\E name \in MsgQuestions : AddQuestion(name)) \/ \E r \in MsgRecords : AddResource(r))
  BY DEF AddQuestion, AddResource
<1>5. ~ ((\E cut \in Cuts : Deliver(cut)) \/ \E a \in Ageings : Age(a))
  BY DEF Deliver, Age
<1>6. ~ ParseQuery
  BY DEF ParseQuery
<1> QED
  BY <1>2, <1>3, <1>4, <1>5, <1>6 DEF MessageNext

(* What was found stays found.                                                *)
LEMMA QueryKept == EDNSFound /\ UNCHANGED mvars => EDNSFound'
<1> SUFFICES ASSUME EDNSFound, UNCHANGED mvars PROVE EDNSFound'
  OBVIOUS
<1>1. bld' = bld /\ added' = added /\ tainted' = tainted /\ stage' = stage /\ wire' = wire /\ qry' = qry
  BY DEF mvars
<1>2. SkipSections(wire, Questions(wire))' = SkipSections(wire, Questions(wire))
  BY <1>1 DEF SkipSections, Questions
<1>3. PICK options : options = FieldsEnd(wire, SkipSections(wire, Questions(wire)))
  OBVIOUS
<1>4. options = FieldsEnd(wire, SkipSections(wire, Questions(wire)))'
  BY <1>1, <1>2, <1>3
<1>5. FirstExtra' = FirstExtra /\ (IsCut' <=> IsCut)
  BY <1>1 DEF FirstExtra, IsCut
<1> QED
  BY <1>1, <1>3, <1>4, <1>5 DEF EDNSFound, FirstExtra

(* Every step keeps what a query's parsing found.                             *)
LEMMA QueryNext == MessageInv /\ EDNSFound /\ [MessageNext]_mvars => EDNSFound'
<1> SUFFICES ASSUME MessageInv, EDNSFound, [MessageNext]_mvars PROVE EDNSFound'
  OBVIOUS
<1>1. CASE UNCHANGED mvars
  BY <1>1, QueryKept
<1>2. CASE ParseQuery
  BY <1>2, QueryTells DEF MessageInv
<1>3. CASE MessageNext /\ ~ParseQuery
  <2>1. stage # "queried"
    BY <1>3, QueriedStays
  <2>2. stage' # "queried"
    BY <1>3, <2>1, QueriedOnce
  <2> QED
    BY <2>2 DEF EDNSFound
<1> QED
  BY <1>1, <1>2, <1>3

(* What a query says of its sender is found, and its address goes no          *)
(* further: a query read to its end with an additional record has its sizes   *)
(* and its hardware address taken from its OPT record, keeps no option with   *)
(* a full address, and is named as it was asked.  Past its question it is     *)
(* given up only when it was cut or when a name of it needs more pointers     *)
(* than are followed, and it is read for ever only when its first additional  *)
(* record is no OPT record (Query.parse, nutterECSOption).  The messages of   *)
(* a builder of which a call failed after it had changed the compression      *)
(* table (tainted) are left aside here and in the theorems above.             *)
THEOREM QueryIsUnderstood == MessageSpec => []EDNSFound
<1>1. MessageInit => EDNSFound
  BY DEF MessageInit, EDNSFound
<1> QED
  BY <1>1, QueryNext, MessageInvHolds, PTL DEF MessageSpec
==============================================================================
