----------------------------- MODULE Wal_proofs -----------------------------
(***************************************************************************)
(* The log, for every set of records and any number of appends, errors,    *)
(* stops and restarts: a restart replays the records in order and without  *)
(* gaps, torn writes or not; and until a write is cut short, every step in *)
(* which the storage reports no error is one of DurableLog.                *)
(*                                                                         *)
(* OrderInv says how the file relates to what the running process knows:   *)
(* either torn bytes already hide everything after the latest recovery, or *)
(* file and buffer together are what the file held then and what was       *)
(* accepted since.                                                         *)
(***************************************************************************)
EXTENDS Wal, SequenceTheorems, WellFoundedInduction, TLAPS

HasTorn(file) == \E i \in 1 .. Len(file) : file[i] = Torn

\* Cut(n): the first n of the records that the file held or that were accepted.
Cut(n) == SubSeq(held \o accepted, 1, n)

OrderInv ==
  \/ HasTorn(disk) /\ Intact(disk) = held
  \/ /\ open /\ disk \in Seq(Records) /\ Len(disk) >= Len(held)
     /\ disk \o buffer = held \o accepted
  \/ /\ ~open /\ buffer = <<>>
     /\ \E n \in Len(held) .. Len(held) + Len(accepted) :
          Intact(disk) = Cut(n)

WalInv ==
  /\ WalTypeOK
  /\ ~open => buffer = <<>>
  /\ OrderInv
-----------------------------------------------------------------------------
LEMMA NatLeast ==
  ASSUME NEW T, T \subseteq Nat, T # {}
  PROVE  \E m \in T : \A j \in T : m <= j
<1>1. PICK m \in T : \A j \in T : ~(<<j, m>> \in OpToRel(<, Nat))
  BY NatLessThanWellFounded, WFMin
<1>2. \A j \in T : <<j, m>> \in Nat \X Nat
  OBVIOUS
<1>3. \A j \in T : ~(j < m)
  BY <1>1, <1>2 DEF OpToRel
<1> QED
  BY <1>3

LEMMA SeqFacts ==
  ASSUME NEW S, NEW s \in Seq(S)
  PROVE  /\ Len(s) \in Nat /\ DOMAIN s = 1 .. Len(s)
         /\ \A i \in 1 .. Len(s) : s[i] \in S
  BY LenProperties, ElementOfSeq

LEMMA PrefixType ==
  ASSUME NEW S, NEW s, NEW n \in Nat, \A i \in 1 .. n : s[i] \in S
  PROVE  /\ SubSeq(s, 1, n) \in Seq(S)
         /\ Len(SubSeq(s, 1, n)) = n
         /\ \A i \in 1 .. n : SubSeq(s, 1, n)[i] = s[i]
  BY SubSeqProperties

\* Without torn bytes recovery reads the whole file.
LEMMA IntactAll ==
  ASSUME NEW file \in Seq(Records \cup {Torn}), ~HasTorn(file)
  PROVE  Intact(file) = file /\ file \in Seq(Records)
<1>1. /\ Len(file) \in Nat /\ DOMAIN file = 1 .. Len(file)
      /\ \A i \in 1 .. Len(file) : file[i] \in Records
  BY SeqFacts DEF HasTorn
<1>2. {i \in DOMAIN file : file[i] = Torn} = {}
  BY <1>1 DEF HasTorn
<1>3. SubSeq(file, 1, Len(file)) = file
  BY SubSeqFull
<1> QED
  BY <1>1, <1>2, <1>3, PrefixType DEF Intact

LEMMA RecordsNotTorn ==
  ASSUME NEW file \in Seq(Records)
  PROVE  file \in Seq(Records \cup {Torn}) /\ ~HasTorn(file)
<1>1. \A i \in 1 .. Len(file) : file[i] \in Records
  BY SeqFacts
<1> QED
  BY <1>1, SeqMonotonic, WalAssumption DEF HasTorn

\* With torn bytes it reads the records in front of the first of them.
LEMMA IntactCut ==
  ASSUME NEW file \in Seq(Records \cup {Torn}), HasTorn(file)
  PROVE  \E n \in 1 .. Len(file) :
           /\ file[n] = Torn /\ \A i \in 1 .. n - 1 : file[i] # Torn
           /\ Intact(file) = SubSeq(file, 1, n - 1)
           /\ Intact(file) \in Seq(Records)
<1> DEFINE bad == {i \in DOMAIN file : file[i] = Torn}
           first == CHOOSE i \in bad : \A j \in bad : i <= j
<1>1. /\ Len(file) \in Nat /\ DOMAIN file = 1 .. Len(file)
      /\ \A i \in 1 .. Len(file) : file[i] \in Records \cup {Torn}
  BY SeqFacts
<1>2. bad # {} /\ bad \subseteq Nat
  BY <1>1 DEF HasTorn
<1>3. first \in bad /\ \A j \in bad : first <= j
  <2> HIDE DEF bad
  <2>1. \E i \in bad : \A j \in bad : i <= j
    BY <1>2, NatLeast
  <2> QED
    BY <2>1
<1>4. first \in 1 .. Len(file) /\ file[first] = Torn
  BY <1>1, <1>3
<1>5. \A i \in 1 .. first - 1 : file[i] # Torn
  <2> SUFFICES ASSUME NEW i \in 1 .. first - 1, file[i] = Torn PROVE FALSE
    OBVIOUS
  <2>1. i \in bad
    BY <1>1, <1>4
  <2> HIDE DEF bad, first
  <2> QED
    BY <1>1, <1>3, <1>4, <2>1
<1>6. Intact(file) = SubSeq(file, 1, first - 1)
  BY <1>2 DEF Intact
<1> HIDE DEF first, bad
<1>7. \A i \in 1 .. first - 1 : file[i] \in Records
  BY <1>1, <1>4, <1>5
<1>8. SubSeq(file, 1, first - 1) \in Seq(Records)
  BY <1>1, <1>4, <1>7, PrefixType
<1> QED
  BY <1>4, <1>5, <1>6, <1>8

LEMMA IntactType ==
  ASSUME NEW file \in Seq(Records \cup {Torn})
  PROVE  Intact(file) \in Seq(Records)
  BY IntactAll, IntactCut

\* What follows torn bytes is never read again.
LEMMA TornHides ==
  ASSUME NEW file \in Seq(Records \cup {Torn}), HasTorn(file),
         NEW more \in Seq(Records \cup {Torn})
  PROVE  HasTorn(file \o more) /\ Intact(file \o more) = Intact(file)
<1> DEFINE all == file \o more
<1>1. /\ Len(file) \in Nat /\ Len(more) \in Nat
      /\ all \in Seq(Records \cup {Torn}) /\ Len(all) = Len(file) + Len(more)
      /\ \A i \in 1 .. Len(file) : all[i] = file[i]
  BY SeqFacts, ConcatProperties
<1> HIDE DEF all
<1>2. HasTorn(all)
  BY <1>1 DEF HasTorn
<1>3. PICK n \in 1 .. Len(file) :
        /\ file[n] = Torn /\ \A i \in 1 .. n - 1 : file[i] # Torn
        /\ Intact(file) = SubSeq(file, 1, n - 1) /\ Intact(file) \in Seq(Records)
  BY IntactCut
<1>4. PICK m \in 1 .. Len(all) :
        /\ all[m] = Torn /\ \A i \in 1 .. m - 1 : all[i] # Torn
        /\ Intact(all) = SubSeq(all, 1, m - 1) /\ Intact(all) \in Seq(Records)
  BY <1>1, <1>2, IntactCut
<1>5. m = n
  <2>1. n \in 1 .. Len(all) /\ all[n] = Torn
    BY <1>1, <1>3
  <2>2. ~(n < m)
    <3> SUFFICES ASSUME n < m PROVE FALSE
      OBVIOUS
    <3>1. n \in 1 .. m - 1
      BY <1>1, <1>3, <1>4
    <3> QED
      BY <1>4, <2>1, <3>1
  <2>3. ~(m < n)
    <3> SUFFICES ASSUME m < n PROVE FALSE
      OBVIOUS
    <3>1. m \in 1 .. n - 1 /\ m \in 1 .. Len(file)
      BY <1>1, <1>3, <1>4
    <3> QED
      BY <1>1, <1>3, <1>4, <3>1
  <2> QED
    BY <1>1, <1>3, <1>4, <2>2, <2>3
<1>6. \A i \in 1 .. n - 1 : file[i] = all[i] /\ file[i] \in Records \cup {Torn}
  <2>1. \A i \in 1 .. Len(file) : file[i] \in Records \cup {Torn}
    BY SeqFacts
  <2> QED
    BY <1>1, <1>3, <2>1
<1>7. SubSeq(file, 1, n - 1) = SubSeq(all, 1, n - 1)
  <2>1. /\ Len(SubSeq(file, 1, n - 1)) = n - 1 /\ Len(SubSeq(all, 1, n - 1)) = n - 1
        /\ \A i \in 1 .. n - 1 : SubSeq(file, 1, n - 1)[i] = SubSeq(all, 1, n - 1)[i]
    BY <1>1, <1>3, <1>6, PrefixType
  <2> QED
    BY <1>3, <1>4, <1>5, <2>1, SeqEqual, SMTT(30)
<1> QED
  BY <1>2, <1>3, <1>4, <1>5, <1>7, SMTT(30) DEF all

\* A torn tail leaves the records in front of it.
LEMMA TornTail ==
  ASSUME NEW file \in Seq(Records)
  PROVE  /\ file \o <<Torn>> \in Seq(Records \cup {Torn})
         /\ HasTorn(file \o <<Torn>>) /\ Intact(file \o <<Torn>>) = file
<1> DEFINE all == file \o <<Torn>>
<1>0. file \in Seq(Records \cup {Torn}) /\ <<Torn>> \in Seq(Records \cup {Torn})
  BY RecordsNotTorn
<1>1. /\ Len(file) \in Nat /\ all \in Seq(Records \cup {Torn})
      /\ Len(all) = Len(file) + 1 /\ all[Len(file) + 1] = Torn
      /\ \A i \in 1 .. Len(file) : all[i] = file[i] /\ file[i] \in Records
  BY <1>0, SeqFacts, ConcatProperties
<1> HIDE DEF all
<1>2. HasTorn(all)
  BY <1>1 DEF HasTorn
<1>3. PICK n \in 1 .. Len(all) :
        /\ all[n] = Torn /\ \A i \in 1 .. n - 1 : all[i] # Torn
        /\ Intact(all) = SubSeq(all, 1, n - 1) /\ Intact(all) \in Seq(Records)
  BY <1>1, <1>2, IntactCut, SMTT(30)
<1>4. n = Len(file) + 1
  BY <1>1, <1>3, WalAssumption
<1>5. SubSeq(all, 1, Len(file)) = file
  <2>1. /\ Len(SubSeq(all, 1, Len(file))) = Len(file)
        /\ SubSeq(all, 1, Len(file)) \in Seq(Records)
        /\ \A i \in 1 .. Len(file) : SubSeq(all, 1, Len(file))[i] = file[i]
    BY <1>1, PrefixType
  <2> QED
    BY <2>1, SeqEqual
<1> QED
  BY <1>1, <1>2, <1>3, <1>4, <1>5, SMTT(30) DEF all

LEMMA SplitSeq ==
  ASSUME NEW S, NEW s \in Seq(S), NEW n \in 0 .. Len(s)
  PROVE  /\ SubSeq(s, 1, n) \in Seq(S) /\ Len(SubSeq(s, 1, n)) = n
         /\ SubSeq(s, n + 1, Len(s)) \in Seq(S)
         /\ SubSeq(s, 1, n) \o SubSeq(s, n + 1, Len(s)) = s
<1> DEFINE a == SubSeq(s, 1, n)
           b == SubSeq(s, n + 1, Len(s))
<1>1. Len(s) \in Nat /\ \A i \in 1 .. Len(s) : s[i] \in S
  BY SeqFacts
<1>2. /\ a \in Seq(S) /\ Len(a) = n /\ \A i \in 1 .. n : a[i] = s[i]
  BY <1>1, PrefixType
<1>3. /\ b \in Seq(S) /\ Len(b) = Len(s) - n
      /\ \A i \in 1 .. Len(s) - n : b[i] = s[n + i]
  <2>1. \A i \in (n + 1) .. Len(s) : s[i] \in S
    BY <1>1
  <2>2. /\ b \in Seq(S)
        /\ Len(b) = IF n + 1 <= Len(s) THEN Len(s) - (n + 1) + 1 ELSE 0
        /\ \A i \in 1 .. Len(s) - (n + 1) + 1 : b[i] = s[(n + 1) + i - 1]
    BY <1>1, <2>1, SubSeqProperties
  <2> HIDE DEF b
  <2> QED
    BY <1>1, <2>2
<1> HIDE DEF a, b
<1>4. /\ a \o b \in Seq(S) /\ Len(a \o b) = Len(s)
      /\ \A i \in 1 .. Len(s) : (a \o b)[i] = IF i <= n THEN a[i] ELSE b[i - n]
  BY <1>1, <1>2, <1>3, ConcatProperties
<1>5. \A i \in 1 .. Len(s) : (a \o b)[i] = s[i]
  <2> SUFFICES ASSUME NEW i \in 1 .. Len(s) PROVE (a \o b)[i] = s[i]
    OBVIOUS
  <2>1. CASE i <= n
    BY <1>1, <1>2, <1>4, <2>1
  <2>2. CASE ~(i <= n)
    <3>1. i - n \in 1 .. Len(s) - n /\ n + (i - n) = i
      BY <1>1, <2>2
    <3>2. b[i - n] = s[n + (i - n)]
      BY <1>3, <3>1
    <3> QED
      BY <1>4, <2>2, <3>1, <3>2
  <2> QED
    BY <2>1, <2>2
<1>6. a \o b = s
  BY <1>4, <1>5, SeqEqual
<1> QED
  BY <1>2, <1>3, <1>6 DEF a, b

\* Writing out the first n buffered records gives a prefix of file + buffer.
LEMMA ConcatCut ==
  ASSUME NEW S, NEW d \in Seq(S), NEW b \in Seq(S), NEW n \in 0 .. Len(b)
  PROVE  d \o SubSeq(b, 1, n) = SubSeq(d \o b, 1, Len(d) + n)
<1> DEFINE c == SubSeq(b, 1, n)
           all == d \o b
           x == d \o c
           y == SubSeq(all, 1, Len(d) + n)
<1>1. /\ Len(d) \in Nat /\ Len(b) \in Nat /\ c \in Seq(S) /\ Len(c) = n
      /\ \A i \in 1 .. n : c[i] = b[i]
  BY SeqFacts, SplitSeq, PrefixType
<1>2. /\ all \in Seq(S) /\ Len(all) = Len(d) + Len(b)
      /\ \A i \in 1 .. Len(d) + Len(b) : all[i] = IF i <= Len(d) THEN d[i] ELSE b[i - Len(d)]
  BY ConcatProperties
<1>3. \A i \in 1 .. Len(all) : all[i] \in S
  BY <1>2, SeqFacts
<1> HIDE DEF c, all
<1>4. /\ x \in Seq(S) /\ Len(x) = Len(d) + n
      /\ \A i \in 1 .. Len(d) + n : x[i] = IF i <= Len(d) THEN d[i] ELSE c[i - Len(d)]
  BY <1>1, ConcatProperties
<1>5. /\ y \in Seq(S) /\ Len(y) = Len(d) + n
      /\ \A i \in 1 .. Len(d) + n : y[i] = all[i]
  <2>1. \A i \in 1 .. Len(d) + n : all[i] \in S
    BY <1>1, <1>2, <1>3
  <2>2. Len(d) + n \in Nat
    BY <1>1
  <2> QED
    BY <2>1, <2>2, PrefixType
<1> HIDE DEF x, y
<1>6. \A i \in 1 .. Len(d) + n : x[i] = y[i]
  <2> SUFFICES ASSUME NEW i \in 1 .. Len(d) + n PROVE x[i] = y[i]
    OBVIOUS
  <2>1. CASE i <= Len(d)
    BY <1>1, <1>2, <1>4, <1>5, <2>1, SMTT(30)
  <2>2. CASE ~(i <= Len(d))
    <3>1. i - Len(d) \in 1 .. n /\ i \in 1 .. Len(d) + Len(b)
      BY <1>1, <2>2
    <3> QED
      BY <1>1, <1>2, <1>4, <1>5, <2>2, <3>1, SMTT(30)
  <2> QED
    BY <2>1, <2>2
<1>7. x = y
  BY <1>1, <1>4, <1>5, <1>6, SeqEqual, SMTT(30)
<1> QED
  BY <1>7 DEF x, y, c, all

LEMMA Assoc ==
  ASSUME NEW S, NEW a \in Seq(S), NEW b \in Seq(S), NEW c \in Seq(S)
  PROVE  (a \o b) \o c = a \o (b \o c)
  BY ConcatAssociative

LEMMA ConcatAppend ==
  ASSUME NEW S, NEW a \in Seq(S), NEW b \in Seq(S), NEW e \in S
  PROVE  a \o Append(b, e) = Append(a \o b, e)
<1>1. <<e>> \in Seq(S)
  OBVIOUS
<1>2. a \o b \in Seq(S)
  BY ConcatProperties
<1>3. Append(b, e) = b \o <<e>> /\ Append(a \o b, e) = (a \o b) \o <<e>>
  BY <1>2, AppendIsConcat
<1>4. (a \o b) \o <<e>> = a \o (b \o <<e>>)
  BY <1>1, Assoc
<1> QED
  BY <1>3, <1>4
-----------------------------------------------------------------------------
LEMMA WalBegins == WalInit => WalInv
<1> SUFFICES ASSUME WalInit PROVE WalInv
  OBVIOUS
<1>1. <<>> \in Seq(Records) /\ <<>> \in Seq(Records \cup {Torn}) /\ Len(<<>>) = 0
  BY EmptySeq
<1>2. WalTypeOK
  BY <1>1 DEF WalInit, WalTypeOK
<1>3. Intact(disk) = <<>>
  BY <1>1, IntactAll, RecordsNotTorn DEF WalInit
<1>4. Cut(0) = <<>>
  BY SubSeqEmpty DEF Cut
<1>5. OrderInv
  BY <1>1, <1>3, <1>4 DEF WalInit, OrderInv
<1> QED
  BY <1>1, <1>2, <1>5 DEF WalInit, WalInv

LEMMA RecoverInv == WalInv /\ recover => WalInv'
<1> SUFFICES ASSUME WalInv, recover PROVE WalInv'
  OBVIOUS
<1>1. /\ WalTypeOK /\ buffer = <<>> /\ disk \in Seq(Records \cup {Torn})
      /\ held' = Intact(disk) /\ accepted' = <<>> /\ open' = TRUE
      /\ UNCHANGED <<disk, buffer, graceful, appends, stops>>
  BY DEF WalInv, WalTypeOK, recover
<1>2. WalTypeOK'
  <2>1. Intact(disk) \in Seq(Records) /\ <<>> \in Seq(Records)
    BY <1>1, IntactType, EmptySeq
  <2>2. \A n \in 0 .. Len(Intact(disk)) : SubSeq(Intact(disk), 1, n) \in Seq(Records)
    BY <2>1, SplitSeq
  <2>3. recovered' \in Seq(Records)
    BY <2>1, <2>2, Zenon DEF recover
  <2>4. errors' \in Nat
    BY DEF recover, Error, WalInv, WalTypeOK
  <2> QED
    BY <1>1, <2>1, <2>3, <2>4 DEF WalTypeOK
<1>3. OrderInv'
  <2>1. CASE HasTorn(disk)
    BY <1>1, <2>1 DEF OrderInv, HasTorn
  <2>2. CASE ~HasTorn(disk)
    <3>1. disk \in Seq(Records) /\ Intact(disk) = disk
      BY <1>1, <2>2, IntactAll
    <3> QED
      BY <1>1, <3>1, SeqFacts DEF OrderInv
  <2> QED
    BY <2>1, <2>2
<1> QED
  BY <1>1, <1>2, <1>3 DEF WalInv

LEMMA AppendInv ==
  ASSUME WalInv, NEW r \in Records, append(r)
  PROVE  WalInv'
<1>1. /\ WalTypeOK /\ open /\ open' = open
      /\ UNCHANGED <<disk, recovered, held, graceful, stops>> /\ appends' = appends + 1
  BY DEF WalInv, append
<1>2. CASE buffer' = Append(buffer, r) /\ accepted' = Append(accepted, r) /\ errors' = errors
  <2>1. WalTypeOK'
    BY <1>1, <1>2 DEF WalTypeOK
  <2>2. OrderInv'
    <3>1. CASE HasTorn(disk) /\ Intact(disk) = held
      BY <1>1, <3>1 DEF OrderInv, HasTorn
    <3>2. CASE /\ disk \in Seq(Records) /\ Len(disk) >= Len(held)
               /\ disk \o buffer = held \o accepted
      <4>1. /\ buffer \in Seq(Records) /\ held \in Seq(Records)
            /\ accepted \in Seq(Records) /\ disk \in Seq(Records)
        BY <1>1, <3>2 DEF WalTypeOK
      <4>2. disk \o Append(buffer, r) = Append(disk \o buffer, r)
        BY <4>1, ConcatAppend
      <4>3. held \o Append(accepted, r) = Append(held \o accepted, r)
        BY <4>1, ConcatAppend
      <4> QED
        BY <1>1, <1>2, <3>2, <4>2, <4>3 DEF OrderInv
    <3> QED
      BY <1>1, <3>1, <3>2 DEF WalInv, OrderInv
  <2> QED
    BY <1>1, <2>1, <2>2 DEF WalInv
<1>3. CASE errors' = errors + 1 /\ UNCHANGED <<buffer, accepted>>
  <2>1. WalTypeOK'
    BY <1>1, <1>3 DEF WalTypeOK
  <2>2. OrderInv'
    BY <1>1, <1>3 DEF WalInv, OrderInv, HasTorn
  <2> QED
    BY <1>1, <1>3, <2>1, <2>2, SMTT(30) DEF WalInv
<1> QED
  BY <1>2, <1>3 DEF append, Error

\* Writing part of the buffer to the file changes neither their sum nor what
\* torn bytes hide.
LEMMA WriteOutStep ==
  ASSUME WalInv, open, NEW n \in 0 .. Len(buffer), WriteOut(n)
  PROVE  /\ disk' \in Seq(Records \cup {Torn}) /\ buffer' \in Seq(Records)
         /\ disk \in Seq(Records) =>
              /\ disk' \in Seq(Records) /\ Len(disk') = Len(disk) + n
              /\ disk' \o buffer' = disk \o buffer
         /\ HasTorn(disk) => HasTorn(disk') /\ Intact(disk') = Intact(disk)
<1> DEFINE out == SubSeq(buffer, 1, n)
<1>1. /\ WalTypeOK /\ disk' = disk \o out /\ buffer' = SubSeq(buffer, n + 1, Len(buffer))
      /\ disk \in Seq(Records \cup {Torn}) /\ buffer \in Seq(Records)
  BY DEF WalInv, WalTypeOK, WriteOut
<1>2. /\ out \in Seq(Records) /\ Len(out) = n /\ buffer' \in Seq(Records)
      /\ out \o buffer' = buffer
  BY <1>1, SplitSeq
<1> HIDE DEF out
<1>3. out \in Seq(Records \cup {Torn})
  BY <1>2, RecordsNotTorn
<1>4. disk' \in Seq(Records \cup {Torn})
  BY <1>1, <1>3, ConcatProperties
<1>5. ASSUME disk \in Seq(Records)
      PROVE  /\ disk' \in Seq(Records) /\ Len(disk') = Len(disk) + n
             /\ disk' \o buffer' = disk \o buffer
  <2>1. disk' \in Seq(Records) /\ Len(disk') = Len(disk) + n
    BY <1>1, <1>2, <1>5, ConcatProperties
  <2>2. disk \in Seq(Records) /\ out \in Seq(Records) /\ buffer' \in Seq(Records)
    BY <1>2, <1>5
  <2>3. (disk \o out) \o buffer' = disk \o (out \o buffer')
    BY <2>2, Assoc, SMTT(30)
  <2> QED
    BY <1>1, <1>2, <2>1, <2>3
<1>6. HasTorn(disk) => HasTorn(disk') /\ Intact(disk') = Intact(disk)
  BY <1>1, <1>3, TornHides
<1> QED
  BY <1>2, <1>4, <1>5, <1>6

\* Drain and flush.
LEMMA SyncInv ==
  ASSUME WalInv, open, NEW n \in 0 .. Len(buffer), WriteOut(n),
         errors' \in Nat, UNCHANGED <<open, recovered, held, accepted, graceful, appends, stops>>
  PROVE  WalInv'
<1>1. /\ disk' \in Seq(Records \cup {Torn}) /\ buffer' \in Seq(Records)
      /\ disk \in Seq(Records) =>
           /\ disk' \in Seq(Records) /\ Len(disk') = Len(disk) + n
           /\ disk' \o buffer' = disk \o buffer
      /\ HasTorn(disk) => HasTorn(disk') /\ Intact(disk') = Intact(disk)
  BY WriteOutStep, SMTT(30)
<1>2. WalTypeOK'
  BY <1>1 DEF WalInv, WalTypeOK
<1>3. OrderInv'
  <2>1. CASE HasTorn(disk) /\ Intact(disk) = held
    BY <1>1, <2>1 DEF OrderInv, HasTorn
  <2>2. CASE /\ disk \in Seq(Records) /\ Len(disk) >= Len(held)
             /\ disk \o buffer = held \o accepted
    <3>1. Len(disk) \in Nat /\ Len(held) \in Nat /\ n \in Nat
      BY <2>2, SeqFacts DEF WalInv, WalTypeOK
    <3>2. Len(disk') >= Len(held)
      BY <1>1, <2>2, <3>1
    <3> QED
      BY <1>1, <2>2, <3>2 DEF OrderInv
  <2> QED
    BY <2>1, <2>2 DEF WalInv, OrderInv
<1> QED
  BY <1>1, <1>2, <1>3 DEF WalInv

LEMMA DrainInv == WalInv /\ Drain => WalInv'
<1> SUFFICES ASSUME WalInv, Drain PROVE WalInv'
  OBVIOUS
<1>1. 1 \in 0 .. Len(buffer)
  BY EmptySeq DEF WalInv, WalTypeOK, Drain
<1> QED
  BY <1>1, SyncInv DEF Drain, WalInv, WalTypeOK

LEMMA FlushInv == WalInv /\ flush => WalInv'
<1> SUFFICES ASSUME WalInv, flush PROVE WalInv'
  OBVIOUS
<1>1. Len(buffer) \in 0 .. Len(buffer)
  BY SeqFacts DEF WalInv, WalTypeOK
<1>2. PICK n \in 0 .. Len(buffer) : WriteOut(n) /\ errors' \in Nat
  BY <1>1 DEF flush, Error, WalInv, WalTypeOK
<1> QED
  BY <1>2, SyncInv DEF flush

\* How a stop leaves the file: some of the buffer written, the rest lost,
\* perhaps with part of a record at the end.
LEMMA StopInv ==
  ASSUME WalInv, open, ~open', buffer' = <<>>, NEW n \in 0 .. Len(buffer),
         \/ disk' = disk \o SubSeq(buffer, 1, n)
         \/ TornCrash /\ disk' = (disk \o SubSeq(buffer, 1, n)) \o <<Torn>>,
         open' \in BOOLEAN, graceful' \in BOOLEAN, stops' \in Nat, errors' \in Nat,
         UNCHANGED <<recovered, held, accepted, appends>>
  PROVE  WalInv'
<1> DEFINE out == SubSeq(buffer, 1, n)
<1>1. /\ disk \in Seq(Records \cup {Torn}) /\ buffer \in Seq(Records)
      /\ held \in Seq(Records) /\ accepted \in Seq(Records)
      /\ <<Torn>> \in Seq(Records \cup {Torn}) /\ <<>> \in Seq(Records)
  BY EmptySeq DEF WalInv, WalTypeOK
<1>2. out \in Seq(Records) /\ Len(out) = n
  BY <1>1, SplitSeq
<1> HIDE DEF out
<1>3. out \in Seq(Records \cup {Torn})
  BY <1>2, RecordsNotTorn
<1>4. disk \o out \in Seq(Records \cup {Torn})
  BY <1>1, <1>3, ConcatProperties
<1>5. (disk \o out) \o <<Torn>> \in Seq(Records \cup {Torn})
  BY <1>1, <1>4, ConcatProperties
<1>6. disk' = disk \o out \/ (TornCrash /\ disk' = (disk \o out) \o <<Torn>>)
  BY DEF out
<1>7. disk' \in Seq(Records \cup {Torn})
  BY <1>4, <1>5, <1>6
<1>8. WalTypeOK'
  BY <1>1, <1>7 DEF WalInv, WalTypeOK
<1>9. OrderInv'
  <2>1. CASE HasTorn(disk) /\ Intact(disk) = held
    <3>1. HasTorn(disk \o out) /\ Intact(disk \o out) = held
      BY <1>1, <1>3, <2>1, TornHides
    <3>2. HasTorn((disk \o out) \o <<Torn>>) /\ Intact((disk \o out) \o <<Torn>>) = held
      BY <1>1, <1>4, <3>1, TornHides
    <3>3. HasTorn(disk') /\ Intact(disk') = held
      BY <1>6, <3>1, <3>2
    <3> QED
      BY <3>3 DEF OrderInv, HasTorn
  <2>2. CASE /\ disk \in Seq(Records) /\ Len(disk) >= Len(held)
             /\ disk \o buffer = held \o accepted
    <3>1. disk \o out = Cut(Len(disk) + n)
      BY <1>1, <2>2, ConcatCut DEF out, Cut
    <3>2. disk \o out \in Seq(Records)
      BY <1>2, <2>2, ConcatProperties
    <3>3. Intact(disk') = Cut(Len(disk) + n)
      <4>1. Intact(disk \o out) = disk \o out
        BY <3>2, RecordsNotTorn, IntactAll
      <4>2. Intact((disk \o out) \o <<Torn>>) = disk \o out
        BY <3>2, TornTail
      <4> QED
        BY <1>6, <3>1, <4>1, <4>2
    <3>4. Len(disk) + n \in Len(held) .. Len(held) + Len(accepted)
      <4>1. /\ Len(disk) \in Nat /\ Len(buffer) \in Nat
            /\ Len(held) \in Nat /\ Len(accepted) \in Nat
        BY <1>1, <2>2, SeqFacts, SMTT(30)
      <4>2. Len(disk) + Len(buffer) = Len(held) + Len(accepted)
        <5>1. Len(disk \o buffer) = Len(disk) + Len(buffer)
          BY <1>1, <2>2, ConcatProperties, SMTT(30)
        <5>2. Len(held \o accepted) = Len(held) + Len(accepted)
          BY <1>1, ConcatProperties, SMTT(30)
        <5> QED
          BY <2>2, <5>1, <5>2, SMTT(30)
      <4> QED
        BY <2>2, <4>1, <4>2
    <3>5. Cut(Len(disk) + n) = SubSeq(held' \o accepted', 1, Len(disk) + n)
      BY DEF Cut
    <3> QED
      BY <3>3, <3>4, <3>5 DEF OrderInv, Cut
  <2> QED
    BY <2>1, <2>2, SMTT(30) DEF WalInv, OrderInv
<1> QED
  BY <1>8, <1>9, WalAssumption, SMTT(30) DEF WalInv

LEMMA WriteSomeInv ==
  ASSUME WalInv, Stops, WriteSome, graceful' \in BOOLEAN, errors' \in Nat,
         UNCHANGED <<recovered, held, accepted, appends>>
  PROVE  WalInv'
<1>1. PICK n \in 0 .. Len(buffer) :
        \/ disk' = disk \o SubSeq(buffer, 1, n)
        \/ TornCrash /\ disk' = (disk \o SubSeq(buffer, 1, n)) \o <<Torn>>
  BY SMTT(30) DEF WriteSome
<1>2. open /\ open' = FALSE /\ buffer' = <<>> /\ stops' \in Nat
  BY DEF Stops, WriteSome, WalInv, WalTypeOK
<1> QED
  BY <1>1, <1>2, StopInv

LEMMA ShutdownInv == WalInv /\ Shutdown => WalInv'
<1> SUFFICES ASSUME WalInv, Shutdown PROVE WalInv'
  OBVIOUS
<1>1. Len(buffer) \in 0 .. Len(buffer) /\ Len(buffer) \in Nat
  BY SeqFacts DEF WalInv, WalTypeOK
<1>2. SubSeq(buffer, Len(buffer) + 1, Len(buffer)) = <<>>
  BY <1>1, SubSeqEmpty
<1>3. /\ open /\ open' = FALSE /\ stops' \in Nat /\ errors' \in Nat
      /\ UNCHANGED <<recovered, held, accepted, appends>>
  BY DEF Shutdown, Stops, Error, WalInv, WalTypeOK
<1>4. graceful' \in BOOLEAN
  BY Zenon DEF Shutdown
<1>5. CASE WriteOut(Len(buffer))
  <2>1. buffer' = <<>> /\ disk' = disk \o SubSeq(buffer, 1, Len(buffer))
    BY <1>2, <1>5 DEF WriteOut
  <2> QED
    BY <1>1, <1>3, <1>4, <2>1, StopInv
<1>6. CASE WriteSome
  BY <1>3, <1>4, <1>6, WriteSomeInv DEF Shutdown
<1> QED
  BY <1>5, <1>6 DEF Shutdown

LEMMA CrashInv == WalInv /\ Crash => WalInv'
<1> SUFFICES ASSUME WalInv, Crash PROVE WalInv'
  OBVIOUS
<1>1. graceful' \in BOOLEAN
  BY Zenon DEF Crash
<1> QED
  BY <1>1, WriteSomeInv DEF Crash, WalInv, WalTypeOK

LEMMA WalSteps == WalInv /\ [WalNext]_walVars => WalInv'
<1> SUFFICES ASSUME WalInv, [WalNext]_walVars PROVE WalInv'
  OBVIOUS
<1>1. CASE UNCHANGED walVars
  BY <1>1 DEF walVars, log_vars, WalInv, WalTypeOK, OrderInv, HasTorn, Cut
<1>2. ASSUME NEW r \in Records, append(r) PROVE WalInv'
  BY <1>2, AppendInv
<1> QED
  BY <1>1, <1>2, RecoverInv, DrainInv, FlushInv, ShutdownInv, CrashInv DEF WalNext
-----------------------------------------------------------------------------
\* Every reachable state of the log satisfies the inductive invariant.
THEOREM WalInvariance == WalSpec => []WalInv
  BY WalBegins, WalSteps, PTL DEF WalSpec

\* The file holds records and torn bytes, the buffer only records.
THEOREM WalTypeCorrect == WalSpec => []WalTypeOK
<1>1. WalInv => WalTypeOK
  BY DEF WalInv
<1> QED
  BY <1>1, WalInvariance, PTL

LEMMA CutBegins ==
  ASSUME NEW a \in Seq(Records), NEW b \in Seq(Records),
         NEW n \in Len(a) .. Len(a) + Len(b)
  PROVE  /\ Begins(a, SubSeq(a \o b, 1, n))
         /\ Begins(SubSeq(a \o b, 1, n), a \o b)
<1> DEFINE all == a \o b
           c == SubSeq(all, 1, n)
<1>1. /\ Len(a) \in Nat /\ Len(b) \in Nat /\ n \in Nat
      /\ all \in Seq(Records) /\ Len(all) = Len(a) + Len(b)
      /\ \A i \in 1 .. Len(a) : all[i] = a[i]
  BY SeqFacts, ConcatProperties
<1>2. \A i \in 1 .. Len(all) : all[i] \in Records
  BY <1>1, SeqFacts, SMTT(30)
<1> HIDE DEF all
<1>3. /\ c \in Seq(Records) /\ Len(c) = n /\ \A i \in 1 .. n : c[i] = all[i]
  <2>1. \A i \in 1 .. n : all[i] \in Records
    BY <1>1, <1>2
  <2> QED
    BY <1>1, <2>1, PrefixType, SMTT(30)
<1>4. SubSeq(a, 1, Len(a)) = a /\ SubSeq(c, 1, Len(c)) = c
  BY <1>3, SubSeqFull
<1> HIDE DEF c
<1>5. SubSeq(c, 1, Len(a)) = a
  <2>1. \A i \in 1 .. Len(a) : c[i] \in Records
    BY <1>1, <1>2, <1>3
  <2>2. /\ SubSeq(c, 1, Len(a)) \in Seq(Records) /\ Len(SubSeq(c, 1, Len(a))) = Len(a)
        /\ \A i \in 1 .. Len(a) : SubSeq(c, 1, Len(a))[i] = c[i]
    BY <1>1, <2>1, PrefixType, SMTT(30)
  <2>3. \A i \in 1 .. Len(a) : SubSeq(c, 1, Len(a))[i] = a[i]
    BY <1>1, <1>3, <2>2, SMTT(30)
  <2> QED
    BY <2>2, <2>3, SeqEqual
<1>6. Begins(a, c)
  BY <1>1, <1>3, <1>4, <1>5, SMTT(30) DEF Begins
<1>7. Begins(c, all)
  BY <1>1, <1>3, <1>4 DEF Begins, c
<1> QED
  BY <1>6, <1>7 DEF c, all

\* A front part of a front part is one.
LEMMA BeginsPart ==
  ASSUME NEW s \in Seq(Records), NEW t \in Seq(Records), Begins(s, t),
         NEW n \in 0 .. Len(s)
  PROVE  Begins(SubSeq(s, 1, n), t)
<1> DEFINE c == SubSeq(s, 1, n)
<1>1. /\ Len(s) \in Nat /\ Len(t) \in Nat /\ Len(s) <= Len(t)
      /\ \A i \in 1 .. Len(t) : t[i] \in Records
  BY SeqFacts DEF Begins
<1>2. /\ c \in Seq(Records) /\ Len(c) = n
  BY SplitSeq
<1>3. \A i \in 1 .. n : c[i] = s[i]
  BY <1>1, SeqFacts, PrefixType
<1>4. \A i \in 1 .. Len(s) : s[i] = t[i]
  <2>1. \A i \in 1 .. Len(s) : SubSeq(t, 1, Len(s))[i] = t[i]
    BY <1>1, PrefixType
  <2> QED
    BY <2>1 DEF Begins
<1>5. /\ SubSeq(t, 1, n) \in Seq(Records) /\ Len(SubSeq(t, 1, n)) = n
      /\ \A i \in 1 .. n : SubSeq(t, 1, n)[i] = t[i]
  <2>1. n \in Nat /\ \A i \in 1 .. n : t[i] \in Records
    BY <1>1
  <2> QED
    BY <2>1, PrefixType
<1> HIDE DEF c
<1>6. \A i \in 1 .. n : c[i] = SubSeq(t, 1, n)[i]
  BY <1>1, <1>3, <1>4, <1>5
<1>7. SubSeq(t, 1, n) = c
  BY <1>2, <1>5, <1>6, SeqEqual
<1> QED
  BY <1>1, <1>2, <1>7 DEF Begins, c

\* Torn writes and storage errors or not, a restart replays, in order and
\* without a gap, records the file held at the restart before or taken since
\* then; without an error of its own, at least all the file held then.
THEOREM RecoveryInOrder == WalSpec => RecoversInOrder
<1>1. ASSUME WalInv, recover
      PROVE  /\ Begins(recovered', held \o accepted)
             /\ errors' = errors => Begins(held, recovered')
  <2> USE <1>1
  <2>1. /\ held \in Seq(Records) /\ accepted \in Seq(Records)
        /\ held' = Intact(disk) /\ ~open
    BY DEF WalInv, WalTypeOK, recover
  <2>2. Len(held) \in Nat /\ Len(accepted) \in Nat
    BY <2>1, SeqFacts
  <2>3. PICK n \in Len(held) .. Len(held) + Len(accepted) :
          Intact(disk) = Cut(n)
    <3>1. CASE Intact(disk) = held
      <4>1. Len(held) \in 0 .. Len(held) + Len(accepted)
        BY <2>2
      <4>2. Cut(Len(held)) = held
        <5>1. 0 \in 0 .. Len(accepted) /\ Len(held) + 0 = Len(held)
          BY <2>2
        <5>2. SubSeq(accepted, 1, 0) = <<>>
          BY SubSeqEmpty
        <5>3. held \o SubSeq(accepted, 1, 0)
                = SubSeq(held \o accepted, 1, Len(held) + 0)
          BY <2>1, <5>1, ConcatCut, SMTT(30)
        <5>4. held \o <<>> = held
          BY <2>1, ConcatEmptySeq, SMTT(30)
        <5> QED
          BY <5>1, <5>2, <5>3, <5>4 DEF Cut
      <4> QED
        BY <2>2, <3>1, <4>2
    <3> QED
      BY <2>1, <3>1 DEF WalInv, OrderInv
  <2>4. Begins(held, Intact(disk)) /\ Begins(Intact(disk), held \o accepted)
    BY <2>1, <2>3, CutBegins DEF Cut
  <2>5. CASE recovered' = Intact(disk)
    BY <2>4, <2>5
  <2>6. CASE Error /\ \E k \in 0 .. Len(Intact(disk)) : recovered' = SubSeq(Intact(disk), 1, k)
    <3>1. Intact(disk) \in Seq(Records) /\ held \o accepted \in Seq(Records)
      BY <2>1, IntactType, ConcatProperties DEF WalInv, WalTypeOK
    <3>2. Begins(recovered', held \o accepted)
      BY <2>4, <2>6, <3>1, BeginsPart
    <3>3. errors' # errors
      BY <2>6 DEF Error, WalInv, WalTypeOK
    <3> QED
      BY <3>2, <3>3
  <2> QED
    BY <2>5, <2>6 DEF recover
<1>2. WalInv /\ [WalNext]_walVars =>
        [recover => /\ Begins(recovered', held \o accepted)
                    /\ errors' = errors => Begins(held, recovered')]_walVars
  BY <1>1
<1> QED
  BY <1>2, WalInvariance, PTL DEF WalSpec, RecoversInOrder
-----------------------------------------------------------------------------
\* The abstract log is the file followed by the buffer.
LEMMA WholeFile ==
  ASSUME Whole, WalInv
  PROVE  /\ disk \in Seq(Records) /\ buffer \in Seq(Records)
         /\ Intact(disk) = disk /\ Len(disk) \in Nat /\ Len(buffer) \in Nat
         /\ disk \o buffer \in Seq(Records)
         /\ Len(disk \o buffer) = Len(disk) + Len(buffer)
<1>1. disk \in Seq(Records \cup {Torn}) /\ buffer \in Seq(Records)
  BY DEF WalInv, WalTypeOK
<1>2. \A i \in 1 .. Len(disk) : disk[i] \in Records
  BY <1>1, SeqFacts DEF Whole
<1>3. disk \in Seq(Records)
  BY <1>1, <1>2, SeqFacts, IsASeq
<1> QED
  BY <1>1, <1>3, RecordsNotTorn, IntactAll, SeqFacts, ConcatProperties, SMTT(30)

LEMMA SyncRefines ==
  ASSUME Whole, WalInv, open, NEW n \in 0 .. Len(buffer), WriteOut(n)
  PROVE  /\ Intact(disk') \o buffer' = Intact(disk) \o buffer
         /\ Len(Intact(disk')) = Len(disk) + n
<1>1. disk \in Seq(Records) /\ Intact(disk) = disk
  BY WholeFile
<1>2. disk' \in Seq(Records) /\ Len(disk') = Len(disk) + n
      /\ disk' \o buffer' = disk \o buffer
  BY <1>1, WriteOutStep, SMTT(30)
<1>3. Intact(disk') = disk'
  BY <1>2, RecordsNotTorn, IntactAll
<1> QED
  BY <1>1, <1>2, <1>3, SMTT(30)

LEMMA StepRefines ==
  ASSUME Whole, WalInv, WalNext, errors' = errors
  PROVE  Promise!Next \/ UNCHANGED Promise!vars
<1> USE DEF Promise!Next, Promise!vars
<1>0. ~Error
  BY DEF Error, WalInv, WalTypeOK
<1>1. /\ disk \in Seq(Records) /\ buffer \in Seq(Records)
      /\ Intact(disk) = disk /\ Len(disk) \in Nat /\ Len(buffer) \in Nat
      /\ disk \o buffer \in Seq(Records)
      /\ Len(disk \o buffer) = Len(disk) + Len(buffer)
  BY WholeFile
<1>2. CASE recover
  <2>1. buffer = <<>> /\ disk \o <<>> = disk
    BY <1>1, <1>2, ConcatEmptySeq, SMTT(30) DEF recover, WalInv
  <2>2. Promise!Recover
    BY <1>0, <1>1, <1>2, <2>1 DEF recover, Promise!Recover
  <2> QED
    BY <2>2, SMTT(30)
<1>3. ASSUME NEW r \in Records, append(r) PROVE Promise!Next
  <2>1. /\ open /\ UNCHANGED <<disk, open, recovered, graceful>>
        /\ buffer' \in {Append(buffer, r), buffer}
    BY <1>3 DEF append
  <2>2. disk \o Append(buffer, r) = Append(disk \o buffer, r)
    BY <1>1, <1>3, ConcatAppend, SMTT(30)
  <2>3. Promise!Append_(r)
    BY <1>1, <2>1, <2>2 DEF Promise!Append_
  <2> QED
    BY <1>3, <2>3
<1>4. ASSUME NEW n \in 0 .. Len(buffer), open, WriteOut(n),
             UNCHANGED <<open, recovered, graceful>>
      PROVE  Promise!Sync
  <2>1. /\ Intact(disk') \o buffer' = Intact(disk) \o buffer
        /\ Len(Intact(disk')) = Len(disk) + n
    BY <1>4, SyncRefines
  <2>2. Len(disk) + n \in Len(Intact(disk)) .. Len(Intact(disk) \o buffer)
    BY <1>1
  <2> QED
    BY <1>4, <2>1, <2>2 DEF Promise!Sync
<1>5. CASE Drain
  <2>1. 1 \in 0 .. Len(buffer)
    BY <1>1, <1>5, EmptySeq, SMTT(30) DEF Drain
  <2> QED
    BY <1>4, <1>5, <2>1 DEF Drain
<1>6. CASE flush
  <2>1. Len(buffer) \in 0 .. Len(buffer)
    BY <1>1
  <2> QED
    BY <1>0, <1>4, <1>6, <2>1 DEF flush
<1>7. CASE Shutdown
  <2>1. Len(buffer) \in 0 .. Len(buffer) /\ open /\ WriteOut(Len(buffer))
    BY <1>0, <1>1, <1>7, SMTT(30) DEF Shutdown, Stops
  <2>2. /\ Intact(disk') \o buffer' = Intact(disk) \o buffer
        /\ Len(Intact(disk')) = Len(disk) + Len(buffer)
    BY <2>1, SyncRefines, SMTT(30)
  <2>3. Promise!Shutdown
    BY <1>1, <1>7, <2>2 DEF Shutdown, Stops, Promise!Shutdown
  <2> QED
    BY <2>3
<1>8. CASE Crash
  <2>1. PICK n \in 0 .. Len(buffer) :
          \/ disk' = disk \o SubSeq(buffer, 1, n)
          \/ disk' = (disk \o SubSeq(buffer, 1, n)) \o <<Torn>>
    BY <1>8, SMTT(30) DEF Crash, WriteSome
  <2> DEFINE left == disk \o SubSeq(buffer, 1, n)
  <2>2. SubSeq(buffer, 1, n) \in Seq(Records) /\ Len(SubSeq(buffer, 1, n)) = n
    BY <1>1, SplitSeq
  <2>3. left \in Seq(Records) /\ Len(left) = Len(disk) + n
    BY <1>1, <2>2, ConcatProperties, SMTT(30)
  <2>4. Intact(disk') = left
    <3>1. Intact(left) = left
      BY <2>3, RecordsNotTorn, IntactAll
    <3>2. Intact(left \o <<Torn>>) = left
      BY <2>3, TornTail
    <3> QED
      BY <2>1, <3>1, <3>2
  <2>5. left = SubSeq(disk \o buffer, 1, Len(disk) + n)
    BY <1>1, ConcatCut, SMTT(30)
  <2> HIDE DEF left
  <2>6. left \o <<>> = left
    BY <2>3, ConcatEmptySeq, SMTT(30)
  <2>7. Len(disk) + n \in Len(disk) .. Len(disk \o buffer)
    BY <1>1
  <2>8. buffer' = <<>> /\ open /\ open' = FALSE
        /\ graceful' = FALSE /\ recovered' = recovered
    BY <1>8 DEF Crash, Stops, WriteSome
  <2>9. Promise!Crash
    BY <1>1, <2>3, <2>4, <2>5, <2>6, <2>7, <2>8, ZenonT(40) DEF Promise!Crash
  <2> QED
    BY <2>9
<1> QED
  BY <1>2, <1>3, <1>5, <1>6, <1>7, <1>8, SMTT(30) DEF WalNext

\* The file, its buffer and recovery implement the durable log of the README
\* until a write is cut short, the stop that does so included, in every step
\* in which the storage reports no error.
THEOREM PromiseKept == WalSpec => KeepsPromise
<1>1. WalInit => Promise!Init
  <2> SUFFICES ASSUME WalInit PROVE Promise!Init
    OBVIOUS
  <2>1. <<>> \in Seq(Records) /\ Len(<<>>) = 0 /\ <<>> \o <<>> = <<>>
    BY EmptySeq, ConcatEmptySeq
  <2>2. Intact(disk) = <<>>
    BY <2>1, RecordsNotTorn, IntactAll DEF WalInit
  <2> QED
    BY <2>1, <2>2 DEF WalInit, Promise!Init
<1>2. WalInv /\ [WalNext]_walVars => [Whole /\ errors' = errors => Promise!Next]_(Promise!vars)
  <2>1. UNCHANGED walVars => UNCHANGED Promise!vars
    BY DEF walVars, log_vars, Promise!vars, Intact
  <2> QED
    BY <2>1, StepRefines
<1> QED
  BY <1>1, <1>2, WalInvariance, PTL DEF WalSpec, KeepsPromise
=============================================================================
