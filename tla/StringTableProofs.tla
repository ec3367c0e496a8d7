-------------------------- MODULE StringTableProofs -------------------------
(***************************************************************************)
(* StringTable for every set of strings: no addition disturbs a string     *)
(* stored before it, and a reader finds each one whole.                    *)
(***************************************************************************)
EXTENDS StringTable, SequenceTheorems, TLAPS

(* The bytes after add_string, by position: what was there stays in front, *)
(* then come the string, its terminator and the old last byte.             *)
LEMMA AddStringBytes ==
    ASSUME NEW d \in Seq(Byte), Len(d) > 0, d[Len(d)] = NUL,
           NEW str \in Seq(1..255)
    PROVE  LET r == add_string_data(d, str)
               off == add_string_offset(d)
           IN  /\ r \in Seq(Byte)
               /\ off \in Nat /\ off > 0 /\ off <= Len(d)
               /\ Len(d) <= off + 1
               /\ Len(r) = off + Len(str) + 2
               /\ \A k \in 1..off : k <= Len(d) /\ r[k] = d[k]
               /\ \A k \in 1..Len(str) : r[off + k] = str[k]
               /\ r[off + Len(str) + 1] = NUL
               /\ r[Len(r)] = NUL
<1> DEFINE p == IF Len(d) < 2 THEN Append(d, NUL) ELSE d
           off == add_string_offset(d)
           front == SubSeq(p, 1, Len(p) - 1)
           r == add_string_data(d, str)
<1>1. NUL \in Byte /\ str \in Seq(Byte) /\ Len(d) \in Nat /\ Len(str) \in Nat
  BY LenProperties DEF Byte, NUL
<1>2. /\ p \in Seq(Byte) /\ Len(p) = off + 1 /\ off \in Nat /\ off > 0
      /\ off <= Len(d) /\ Len(d) <= off + 1 /\ p[Len(p)] = NUL
      /\ \A k \in 1..off : p[k] = d[k]
  <2>1. CASE Len(d) < 2
    <3>1. Len(d) = 1
      <4>1. \A n \in Nat : n > 0 /\ n < 2 => n = 1
        OBVIOUS
      <4> QED
        BY <1>1, <2>1, <4>1
    <3>2. off = 1
      BY <2>1 DEF add_string_offset
    <3>3. p = Append(d, NUL)
      BY <2>1
    <3>4. /\ p \in Seq(Byte) /\ Len(p) = Len(d) + 1 /\ p[Len(d) + 1] = NUL
          /\ \A k \in 1..Len(d) : p[k] = d[k]
      BY <1>1, <3>3, AppendProperties
    <3> QED
      BY <3>1, <3>2, <3>4
  <2>2. CASE ~(Len(d) < 2)
    BY <1>1, <2>2 DEF add_string_offset
  <2> QED
    BY <2>1, <2>2
<1>3. r = front \o str \o <<NUL>> \o <<NUL>>
  BY <1>2 DEF add_string_data
<1> HIDE DEF p, off, r
<1>4. /\ front \in Seq(Byte) /\ Len(front) = off
      /\ \A k \in 1..off : front[k] = p[k]
  <2>1. \A k \in 1..(Len(p) - 1) : p[k] \in Byte
    BY <1>2, ElementOfSeq
  <2> QED
    BY <1>2, <2>1, SubSeqProperties
<1> HIDE DEF front
<1> DEFINE fs == front \o str
           fsn == Append(fs, NUL)
<1>5. /\ fs \in Seq(Byte) /\ Len(fs) = off + Len(str)
      /\ \A k \in 1..(off + Len(str)) : fs[k] = IF k <= off THEN front[k] ELSE str[k - off]
  <2>1. front \in Seq(Byte) /\ str \in Seq(Byte)
    BY <1>1, <1>4
  <2>2. /\ fs \in Seq(Byte) /\ Len(fs) = Len(front) + Len(str)
        /\ \A k \in 1..(Len(front) + Len(str)) :
              fs[k] = IF k <= Len(front) THEN front[k] ELSE str[k - Len(front)]
    BY <2>1, ConcatProperties
  <2> QED
    BY <1>4, <2>2
<1>6. r = Append(fsn, NUL)
  <2>1. fsn = fs \o <<NUL>> /\ fsn \in Seq(Byte)
    BY <1>1, <1>5, AppendIsConcat, AppendProperties
  <2>2. Append(fsn, NUL) = fsn \o <<NUL>>
    BY <1>1, <2>1, AppendIsConcat
  <2> QED
    BY <1>3, <2>1, <2>2
<1> HIDE DEF fs
<1>7. /\ fsn \in Seq(Byte) /\ Len(fsn) = off + Len(str) + 1
      /\ \A k \in 1..(off + Len(str)) : fsn[k] = fs[k]
      /\ fsn[off + Len(str) + 1] = NUL
  BY <1>1, <1>5, AppendProperties
<1> HIDE DEF fsn
<1>8. /\ r \in Seq(Byte) /\ Len(r) = off + Len(str) + 2
      /\ \A k \in 1..(off + Len(str) + 1) : r[k] = fsn[k]
      /\ r[Len(r)] = NUL
  <2>1. /\ r \in Seq(Byte) /\ Len(r) = Len(fsn) + 1
        /\ \A k \in 1..Len(fsn) : r[k] = fsn[k]
        /\ r[Len(fsn) + 1] = NUL
    BY <1>1, <1>6, <1>7, AppendProperties
  <2> QED
    BY <1>1, <1>2, <1>7, <2>1
<1>9. ASSUME NEW k \in 1..off PROVE k <= Len(d) /\ r[k] = d[k]
  <2>1. k \in 1..(off + Len(str)) /\ k \in 1..(off + Len(str) + 1) /\ k <= off
    BY <1>1, <1>2
  <2>2. r[k] = fs[k] /\ fs[k] = front[k]
    BY <1>5, <1>7, <1>8, <2>1
  <2>3. front[k] = d[k] /\ k <= Len(d)
    BY <1>1, <1>2, <1>4
  <2> QED
    BY <2>2, <2>3
<1>10. \A k \in 1..Len(str) : r[off + k] = str[k]
  <2> SUFFICES ASSUME NEW k \in 1..Len(str) PROVE r[off + k] = str[k]
    OBVIOUS
  <2>1. off + k \in 1..(off + Len(str)) /\ ~(off + k <= off) /\ (off + k) - off = k
    BY <1>1, <1>2
  <2>2. fs[off + k] = str[k]
    BY <1>5, <2>1
  <2>3. off + k \in 1..(off + Len(str) + 1)
    BY <1>1, <1>2, <2>1
  <2>4. r[off + k] = fsn[off + k] /\ fsn[off + k] = fs[off + k]
    BY <1>7, <1>8, <2>1, <2>3
  <2> QED
    BY <2>2, <2>4
<1>11. r[off + Len(str) + 1] = NUL
  <2>1. off + Len(str) + 1 \in 1..(off + Len(str) + 1)
    BY <1>1, <1>2
  <2> QED
    BY <1>7, <1>8, <2>1
<1> QED
  BY <1>2, <1>8, <1>9, <1>10, <1>11 DEF r, off

(* The table r got from d by adding str at off: every string of d that     *)
(* stays clear of d's last byte is still there, and so is str.             *)
Kept(d, r, off, str) ==
    /\ r \in Seq(Byte) /\ Len(r) > 0 /\ r[1] = NUL /\ r[Len(r)] = NUL
    /\ off \in Nat /\ HoldsAt(r, off, str) /\ off + Len(str) + 1 < Len(r)
    /\ \A o \in Nat, s \in Seq(1..255) :
          HoldsAt(d, o, s) /\ o + Len(s) + 1 < Len(d) =>
             HoldsAt(r, o, s) /\ o + Len(s) + 1 < Len(r)

(* What add_string leaves is such a table. *)
LEMMA AddStringKeeps ==
    ASSUME NEW d \in Seq(Byte), Len(d) > 0, d[1] = NUL, d[Len(d)] = NUL,
           NEW str \in Seq(1..255)
    PROVE  Kept(d, add_string_data(d, str), add_string_offset(d), str)
<1> DEFINE r == add_string_data(d, str)
           off == add_string_offset(d)
<1>1. /\ r \in Seq(Byte)
      /\ off \in Nat /\ off > 0 /\ off <= Len(d)
      /\ Len(d) <= off + 1
      /\ Len(r) = off + Len(str) + 2
      /\ \A k \in 1..off : k <= Len(d) /\ r[k] = d[k]
      /\ \A k \in 1..Len(str) : r[off + k] = str[k]
      /\ r[off + Len(str) + 1] = NUL
      /\ r[Len(r)] = NUL
  BY AddStringBytes
<1>2. Len(str) \in Nat /\ Len(d) \in Nat
  OBVIOUS
<1> HIDE DEF r, off
<1>3. Len(r) > 0 /\ r[1] = NUL /\ off + Len(str) + 1 < Len(r)
  BY <1>1, <1>2
<1>4. HoldsAt(r, off, str)
  BY <1>1, <1>2 DEF HoldsAt
<1>5. ASSUME NEW o \in Nat, NEW s \in Seq(1..255),
             HoldsAt(d, o, s), o + Len(s) + 1 < Len(d)
      PROVE  HoldsAt(r, o, s) /\ o + Len(s) + 1 < Len(r)
  <2>1. Len(s) \in Nat
    OBVIOUS
  <2>2. o + Len(s) + 1 <= off
    BY <1>1, <1>2, <1>5, <2>1
  <2>3. ASSUME NEW k \in 1..Len(s) PROVE r[o + k] = s[k]
    <3>1. o + k \in 1..off
      BY <1>1, <2>1, <2>2
    <3>2. d[o + k] = s[k]
      BY <1>5 DEF HoldsAt
    <3> QED
      BY <1>1, <3>1, <3>2
  <2>4. r[o + Len(s) + 1] = NUL
    BY <1>1, <1>5, <2>1, <2>2 DEF HoldsAt
  <2> QED
    BY <1>1, <1>2, <2>1, <2>2, <2>3, <2>4 DEF HoldsAt
<1>6. Kept(d, r, off, str)
  BY <1>1, <1>3, <1>4, <1>5 DEF Kept
<1> QED
  BY <1>6 DEF r, off

(* The invariant holds of the empty table. *)
LEMMA InitIInv == Init => IInv
  BY DEF Init, IInv, TypeOK, HeaderTracksSize, TableClosed, StoredIntact, StoredInside,
         NUL, Byte

(* add_string preserves it. *)
LEMMA NextIInv == IInv /\ [Next]_vars => IInv'
<1> SUFFICES ASSUME IInv, [Next]_vars PROVE IInv'
  OBVIOUS
<1> USE DEF IInv
<1>1. CASE UNCHANGED vars
  BY <1>1 DEF vars, TypeOK, HeaderTracksSize, TableClosed, StoredIntact, StoredInside
<1>2. ASSUME NEW s \in String, add_string(s) PROVE IInv'
  <2> DEFINE off == add_string_offset(data)
  <2>1. Chars[s] \in Seq(1..255) /\ \A t \in String : Chars[t] \in Seq(1..255)
    BY CharsAssumption
  <2>2. /\ data' = add_string_data(data, Chars[s])
        /\ sh_size' = Len(data') /\ stored' = stored \cup {<<off, s>>}
    BY <1>2 DEF add_string
  <2>3. Kept(data, data', off, Chars[s])
    <3>1. /\ data \in Seq(Byte) /\ Len(data) > 0
          /\ data[1] = NUL /\ data[Len(data)] = NUL
      BY DEF TypeOK, TableClosed
    <3> QED
      BY <2>1, <2>2, <3>1, AddStringKeeps
  <2> HIDE DEF off
  <2>4. TypeOK'
    BY <2>2, <2>3 DEF TypeOK, Kept
  <2>5. HeaderTracksSize' /\ TableClosed'
    BY <2>2, <2>3 DEF HeaderTracksSize, TableClosed, Kept
  <2>6. ASSUME NEW e \in stored'
        PROVE  HoldsAt(data', e[1], Chars[e[2]]) /\ e[1] + Len(Chars[e[2]]) + 1 < Len(data')
    <3>1. CASE e = <<off, s>>
      BY <3>1, <2>3 DEF Kept
    <3>2. CASE e \in stored
      BY <3>2, <2>1, <2>3 DEF Kept, TypeOK, StoredIntact, StoredInside
    <3> QED
      BY <2>2, <2>6, <3>1, <3>2
  <2> QED
    BY <2>4, <2>5, <2>6 DEF StoredIntact, StoredInside
<1> QED
  BY <1>1, <1>2 DEF Next

(* Whatever strings are added and in whatever order, every offset handed   *)
(* out names its string and the header has the size of the bytes.          *)
THEOREM TableCorrect == Spec => []IInv
  BY InitIInv, NextIInv, PTL DEF Spec

(* strtab.h lines 8-9, for every set of strings: an offset returned goes   *)
(* on naming its string after any number of additions.                     *)
THEOREM StoredStaysIntact == Spec => []StoredIntact
<1>1. IInv => StoredIntact
  BY DEF IInv
<1> QED
  BY <1>1, TableCorrect, PTL

(* Where a string is stored, a scan to the next NUL returns it. *)
LEMMA ScanFindsString ==
    ASSUME NEW d \in Seq(Byte), NEW off \in Nat, NEW str \in Seq(1..255),
           HoldsAt(d, off, str)
    PROVE  get_string(d, off) = str
<1> DEFINE Ends(k) == d[k + 1] = NUL /\ \A j \in off..(k - 1) : d[j + 1] # NUL
           end == CHOOSE k \in off..(Len(d) - 1) : Ends(k)
<1>1. /\ Len(str) \in Nat /\ Len(d) \in Nat /\ off + Len(str) < Len(d)
      /\ \A k \in 1..Len(str) : d[off + k] = str[k] /\ str[k] # NUL
      /\ d[off + Len(str) + 1] = NUL
  <2>1. Len(str) \in Nat /\ Len(d) \in Nat
    BY LenProperties
  <2>2. \A k \in 1..Len(str) : str[k] # NUL
    <3>1. \A k \in 1..Len(str) : str[k] \in 1..255
      BY ElementOfSeq
    <3>2. NUL \notin 1..255
      BY DEF NUL
    <3> QED
      BY <3>1, <3>2
  <2> QED
    BY <2>1, <2>2 DEF HoldsAt
<1>2. \A j \in off..(off + Len(str) - 1) : d[j + 1] # NUL
  <2> SUFFICES ASSUME NEW j \in off..(off + Len(str) - 1) PROVE d[j + 1] # NUL
    OBVIOUS
  <2>1. j + 1 - off \in 1..Len(str) /\ off + (j + 1 - off) = j + 1
    BY <1>1
  <2> QED
    BY <1>1, <2>1
<1>3. off + Len(str) \in off..(Len(d) - 1) /\ Ends(off + Len(str))
  BY <1>1, <1>2
<1>4. end \in off..(Len(d) - 1) /\ Ends(end)
  BY <1>3
<1> HIDE DEF end
<1>5. end = off + Len(str)
  <2>1. ~(end < off + Len(str))
    BY <1>1, <1>2, <1>4
  <2>2. ~(end > off + Len(str))
    <3>1. SUFFICES ASSUME end > off + Len(str) PROVE FALSE
      OBVIOUS
    <3>2. off + Len(str) \in off..(end - 1)
      BY <1>1, <1>4, <3>1
    <3>3. d[(off + Len(str)) + 1] # NUL
      BY <1>4, <3>2
    <3> QED
      BY <1>1, <3>3
  <2> QED
    BY <1>1, <1>4, <2>1, <2>2
<1>6. get_string(d, off) = SubSeq(d, off + 1, end)
  BY DEF get_string, end
<1>7. SubSeq(d, off + 1, off + Len(str)) = str
  <2> DEFINE q == SubSeq(d, off + 1, off + Len(str))
  <2>1. \A k \in (off + 1)..(off + Len(str)) : d[k] \in Byte
    BY <1>1, ElementOfSeq
  <2>2. q \in Seq(Byte) /\ Len(q) = Len(str) /\ \A k \in 1..Len(str) : q[k] = d[off + k]
    BY <1>1, <2>1, SubSeqProperties
  <2>3. str \in Seq(Byte)
    BY DEF Byte
  <2> HIDE DEF q
  <2>4. q = str
    BY <1>1, <2>2, <2>3, SeqEqual
  <2> QED
    BY <2>4 DEF q
<1> QED
  BY <1>5, <1>6, <1>7

(* The table as its reader sees it: a scan from any offset handed out      *)
(* returns exactly the string that was added there.                        *)
THEOREM ReadersFindStrings == Spec => []ReadsBack
<1>1. IInv => ReadsBack
  <2> SUFFICES ASSUME IInv, NEW e \in stored PROVE get_string(data, e[1]) = Chars[e[2]]
    BY DEF ReadsBack
  <2>1. e[1] \in Nat /\ Chars[e[2]] \in Seq(1..255) /\ data \in Seq(Byte)
    BY CharsAssumption DEF IInv, TypeOK
  <2>2. HoldsAt(data, e[1], Chars[e[2]])
    BY DEF IInv, StoredIntact
  <2> QED
    BY <2>1, <2>2, ScanFindsString
<1> QED
  BY <1>1, TableCorrect, PTL
=============================================================================
