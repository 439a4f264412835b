---------------------------- MODULE SessionProofs ----------------------------
(***************************************************************************)
(* A client and a server of this library, proved about: what the packages  *)
(* tokenrequest, clientcredentials and tokenresponse return, and what      *)
(* holds of every session of module ClientSession.                         *)
(***************************************************************************)
EXTENDS ClientSession, TokenRequestProofs, FiniteSetTheorems,
        SequenceTheorems, WellFoundedInduction

-----------------------------------------------------------------------------
(***************************************************************************)
(* Numbers: a lifetime loses its part of a second on the way to the client *)
(* and nothing else, whatever the width of an int64 (tokenresponse/        *)
(* encoder.go:84, decoder.go:84).                                          *)
(***************************************************************************)
LEMMA Widths ==
    /\ Int64Max \in Nat /\ Second \in 1 .. Int64Max
    /\ MaxBodyBytes \in 1 .. Int64Max /\ MaxPayloadBytes \in 1 .. Int64Max
BY Zenon, ResponseAssumption

LEMMA Int64OfDuration ==
    ASSUME NEW d \in Durations
    PROVE  Int64(d) = d
BY Widths DEF Durations, Int64

LEMMA Division ==
    ASSUME NEW d \in Nat, NEW s \in Nat \ {0}
    PROVE  d \div s \in Nat /\ d - (d \div s) * s \in 0 .. s - 1
OBVIOUS

LEMMA LifetimeKept ==
    ASSUME NEW d \in Durations
    PROVE  LET l == Lifetime(WholeSeconds(d)) IN
           /\ WholeSeconds(d) \in Durations /\ l \in Durations
           /\ d >= 0 => l >= 0 /\ d - l \in 0 .. Second - 1
           /\ d < 0 => l <= 0 /\ l - d \in 0 .. Second - 1
<1>1. Int64Max \in Nat /\ Second \in Nat \ {0} /\ d \in Int
      /\ d >= -(Int64Max + 1) /\ d <= Int64Max
  BY Widths DEF Durations
<1>2. CASE d >= 0
  <2> DEFINE q == d \div Second
  <2>1. q \in Nat /\ d - q * Second \in 0 .. Second - 1
    <3>1. d \in Nat
      BY <1>1, <1>2
    <3> QED
      BY <1>1, <3>1, Division
  <2>2. WholeSeconds(d) = q
    BY <1>1, <1>2 DEF WholeSeconds
  <2> HIDE DEF q
  <2>3. q * Second \in Int /\ q * Second >= q
    BY <1>1, <2>1
  <2>4. q * Second \in Durations /\ q \in Durations
    BY <1>1, <2>1, <2>3 DEF Durations
  <2> QED
    BY <1>1, <1>2, <2>1, <2>2, <2>3, <2>4, Int64OfDuration DEF Lifetime
<1>3. CASE d < 0
  <2> DEFINE q == (-d) \div Second
  <2>1. q \in Nat /\ (-d) - q * Second \in 0 .. Second - 1
    <3>1. -d \in Nat
      BY <1>1, <1>3
    <3> QED
      BY <1>1, <3>1, Division
  <2>2. WholeSeconds(d) = -q
    BY <1>1, <1>3 DEF WholeSeconds
  <2> HIDE DEF q
  <2>3. q * Second \in Nat /\ q * Second >= q /\ (-q) * Second = -(q * Second)
    BY <1>1, <2>1
  <2>4. -(q * Second) \in Durations /\ -q \in Durations
    BY <1>1, <2>1, <2>3 DEF Durations
  <2> QED
    BY <1>1, <1>3, <2>1, <2>2, <2>3, <2>4, Int64OfDuration DEF Lifetime
<1> QED
  BY <1>1, <1>2, <1>3

-----------------------------------------------------------------------------
(***************************************************************************)
(* Bodies of one and of two documents, as sequences.                       *)
(***************************************************************************)
LEMMA TupleOfOne ==
    ASSUME NEW S, NEW s \in Seq(S), Len(s) = 1
    PROVE  s = <<s[1]>>
<1>1. s[1] \in S
  OBVIOUS
<1>2. <<s[1]>> \in Seq(S) /\ Len(<<s[1]>>) = 1 /\ <<s[1]>>[1] = s[1]
  BY <1>1
<1> QED
  BY <1>2, SeqEqual

LEMMA TupleOfTwo ==
    ASSUME NEW S, NEW s \in Seq(S), Len(s) = 2
    PROVE  s = <<s[1], s[2]>>
<1>1. s \in [1 .. Len(s) -> S]
  BY LenProperties
<1>2. s[1] \in S /\ s[2] \in S
  BY <1>1
<1>3. /\ <<s[1], s[2]>> \in Seq(S) /\ Len(<<s[1], s[2]>>) = 2
      /\ <<s[1], s[2]>>[1] = s[1] /\ <<s[1], s[2]>>[2] = s[2]
  BY <1>2
<1>4. \A i \in 1 .. Len(s) : s[i] = <<s[1], s[2]>>[i]
  BY <1>3
<1> QED
  BY <1>3, <1>4, SeqEqual

LEMMA FirstOfSequence ==
    ASSUME NEW d, NEW s, s[1] = d
    PROVE  SubSeq(s, 1, 0) = <<>> /\ SubSeq(s, 1, 1) = <<d>>
<1>1. SubSeq(s, 1, 1) \in Seq({d}) /\ Len(SubSeq(s, 1, 1)) = 1 /\ SubSeq(s, 1, 1)[1] = d
  BY SubSeqProperties
<1>2. SubSeq(s, 1, 0) = <<>>
  BY SubSeqEmpty
<1> QED
  BY <1>1, <1>2, TupleOfOne

LEMMA FirstTwoOfSequence ==
    ASSUME NEW d, NEW e, NEW s, s[1] = d, s[2] = e
    PROVE  SubSeq(s, 1, 2) = <<d, e>>
<1> DEFINE t == SubSeq(s, 1, 2)
<1>1. \A i \in 1 .. 2 : s[i] \in {d, e}
  OBVIOUS
<1>2. t \in Seq({d, e}) /\ Len(t) = 2 - 1 + 1 /\ \A i \in 1 .. 2 - 1 + 1 : t[i] = s[1 + i - 1]
  BY <1>1, SubSeqProperties
<1> HIDE DEF t
<1>3. Len(t) = 2 /\ t[1] = d /\ t[2] = e
  BY <1>2
<1>4. t = <<d, e>>
  BY <1>2, <1>3, TupleOfTwo
<1> QED
  BY <1>4 DEF t

LEMMA AppendedToOne ==
    ASSUME NEW d, NEW e
    PROVE  Append(<<d>>, e) = <<d, e>> /\ <<d>> \o <<e>> = <<d, e>>
<1>1. /\ <<d>> \in Seq({d, e}) /\ Len(<<d>>) = 1 /\ <<d>>[1] = d
      /\ <<e>> \in Seq({d, e}) /\ Len(<<e>>) = 1 /\ <<e>>[1] = e
  OBVIOUS
<1>2. /\ Append(<<d>>, e) \in Seq({d, e}) /\ Len(Append(<<d>>, e)) = 2
      /\ Append(<<d>>, e)[1] = d /\ Append(<<d>>, e)[2] = e
  BY <1>1, AppendProperties
<1>3. Append(<<d>>, e) = <<d>> \o <<e>>
  BY <1>1, AppendIsConcat
<1> QED
  BY <1>2, <1>3, TupleOfTwo

-----------------------------------------------------------------------------
(***************************************************************************)
(* Bytes: how long a body of up to two documents is, and how much of it    *)
(* io.LimitReader lets through.                                            *)
(***************************************************************************)
LEMMA BytesInNone == BytesIn(<<>>) = 0
<1> DEFINE Sum(g) == g = [s \in SUBSET {} |->
                IF s = {} THEN 0
                ELSE g[s \ {CHOOSE x \in s : TRUE}] + <<>>[CHOOSE x \in s : TRUE].bytes]
           g == CHOOSE g : Sum(g)
<1>1. DOMAIN <<>> = {}
  OBVIOUS
<1>2. BytesIn(<<>>) = g[{}]
  BY <1>1, Zenon DEF BytesIn, FoldSeq, FoldFunction, FoldFunctionOnSet, MapThenFoldSet
<1>3. Sum([s \in SUBSET {} |-> 0])
  OBVIOUS
<1>4. Sum(g)
  BY <1>3
<1> HIDE DEF g
<1> QED
  BY <1>2, <1>4

LEMMA BytesInOne ==
    ASSUME NEW d, d.bytes \in Nat
    PROVE  BytesIn(<<d>>) = d.bytes
<1> DEFINE documents == <<d>>
           Sum(g) == g = [s \in SUBSET {1} |->
                IF s = {} THEN 0
                ELSE g[s \ {CHOOSE x \in s : TRUE}] + documents[CHOOSE x \in s : TRUE].bytes]
           g == CHOOSE g : Sum(g)
           total == [s \in SUBSET {1} |-> IF s = {} THEN 0 ELSE d.bytes]
<1>1. DOMAIN documents = {1} /\ documents[1] = d
  OBVIOUS
<1>2. (CHOOSE x \in {1} : TRUE) = 1 /\ \A s \in SUBSET {1} : s # {} => s = {1}
  OBVIOUS
<1> HIDE DEF documents
<1>3. BytesIn(documents) = g[{1}]
  BY <1>1, Zenon DEF BytesIn, FoldSeq, FoldFunction, FoldFunctionOnSet, MapThenFoldSet
<1>4. Sum(total)
  BY <1>1, <1>2
<1>5. Sum(g)
  BY <1>4
<1> HIDE DEF g
<1>6. g[{}] = 0 /\ g[{1}] = g[{}] + documents[1].bytes
  BY <1>2, <1>5
<1> QED
  BY <1>1, <1>3, <1>6 DEF documents

LEMMA BytesInTwo ==
    ASSUME NEW d, NEW e, d.bytes \in Nat, e.bytes \in Nat
    PROVE  BytesIn(<<d, e>>) = d.bytes + e.bytes
<1> DEFINE documents == <<d, e>>
           both == {1, 2}
           pick(s) == CHOOSE x \in s : TRUE
           Sum(g) == g = [s \in SUBSET both |->
                IF s = {} THEN 0 ELSE g[s \ {pick(s)}] + documents[pick(s)].bytes]
           g == CHOOSE g : Sum(g)
           total == [s \in SUBSET both |-> IF s = {} THEN 0 ELSE IF s = {1} THEN d.bytes
                        ELSE IF s = {2} THEN e.bytes ELSE d.bytes + e.bytes]
<1>1. DOMAIN documents = both /\ documents[1] = d /\ documents[2] = e
  OBVIOUS
<1>2. pick({1}) = 1 /\ pick({2}) = 2 /\ (pick(both) = 1 \/ pick(both) = 2)
  OBVIOUS
<1>3. /\ {1} # {} /\ {2} # {} /\ {1} # {2} /\ both # {} /\ both # {1} /\ both # {2}
      /\ {1} \ {1} = {} /\ {2} \ {2} = {} /\ both \ {1} = {2} /\ both \ {2} = {1}
      /\ {} \in SUBSET both /\ {1} \in SUBSET both /\ {2} \in SUBSET both
      /\ both \in SUBSET both
  OBVIOUS
<1>4. ASSUME NEW s \in SUBSET both
      PROVE  s = {} \/ s = {1} \/ s = {2} \/ s = both
  OBVIOUS
<1>5. ASSUME NEW f
      PROVE  /\ f[{1} \ {1}] = f[{}] /\ f[{2} \ {2}] = f[{}]
             /\ f[both \ {1}] = f[{2}] /\ f[both \ {2}] = f[{1}]
  BY <1>3, Zenon
<1> HIDE DEF documents
<1>6. BytesIn(documents) = g[both]
  BY <1>1, Zenon DEF BytesIn, FoldSeq, FoldFunction, FoldFunctionOnSet, MapThenFoldSet
<1> HIDE DEF both, pick
<1>7. Sum(total)
  <2>1. total[{}] = 0 /\ total[{1}] = d.bytes /\ total[{2}] = e.bytes
        /\ total[both] = d.bytes + e.bytes
    BY <1>3
  <2>2. total = [s \in SUBSET both |-> total[s]]
    OBVIOUS
  <2> HIDE DEF total
  <2> DEFINE Summed(s, x) == total[s] = total[s \ {x}] + documents[x].bytes
  <2>3. Summed({1}, 1) /\ Summed({2}, 2)
    BY <1>1, <1>5, <2>1
  <2>4. Summed(both, 1) /\ Summed(both, 2)
    <3>1. total[both \ {1}] = e.bytes /\ total[both \ {2}] = d.bytes
      BY <1>5, <2>1, Zenon
    <3> QED
      BY <1>1, <2>1, <3>1
  <2> HIDE DEF Summed
  <2>5. ASSUME NEW s \in SUBSET both, s # {}
        PROVE  Summed(s, pick(s))
    <3>1. s = {1} \/ s = {2} \/ s = both
      BY <1>4, <2>5
    <3> QED
      BY <1>2, <2>3, <2>4, <3>1, Zenon
  <2>6. ASSUME NEW s \in SUBSET both
        PROVE  total[s] = IF s = {} THEN 0
                          ELSE total[s \ {pick(s)}] + documents[pick(s)].bytes
    BY <2>1, <2>5, Zenon DEF Summed
  <2> QED
    BY <2>2, <2>6
<1>8. Sum(g)
  BY <1>7
<1> HIDE DEF g
<1>9. /\ g[{}] = 0 /\ g[{1}] = g[{}] + documents[1].bytes
      /\ g[{2}] = g[{}] + documents[2].bytes
      /\ g[both] = g[both \ {pick(both)}] + documents[pick(both)].bytes
  <2>1. ASSUME NEW s \in SUBSET both
        PROVE  g[s] = IF s = {} THEN 0 ELSE g[s \ {pick(s)}] + documents[pick(s)].bytes
    BY <1>8
  <2>2. g[{}] = 0
    BY <1>3, <2>1, Zenon
  <2>3. ASSUME NEW s \in SUBSET both, s # {}
        PROVE  g[s] = g[s \ {pick(s)}] + documents[pick(s)].bytes
    BY <2>1, <2>3, Zenon
  <2>4. /\ g[{1}] = g[{1} \ {1}] + documents[1].bytes
        /\ g[{2}] = g[{2} \ {2}] + documents[2].bytes
    BY <1>2, <1>3, <2>3, Zenon
  <2>5. g[both] = g[both \ {pick(both)}] + documents[pick(both)].bytes
    BY <1>3, <2>3, Zenon
  <2> QED
    BY <1>5, <2>2, <2>4, <2>5, Zenon
<1>10. CASE pick(both) = 1
  <2>1. g[both] = g[both \ {1}] + documents[1].bytes
    BY <1>9, <1>10, Zenon
  <2> QED
    BY <1>1, <1>5, <1>6, <1>9, <2>1 DEF documents
<1>11. CASE pick(both) = 2
  <2>1. g[both] = g[both \ {2}] + documents[2].bytes
    BY <1>9, <1>11, Zenon
  <2> QED
    BY <1>1, <1>5, <1>6, <1>9, <2>1 DEF documents
<1> QED
  BY <1>2, <1>10, <1>11

LEMMA LimitReaderOfNone ==
    ASSUME NEW n \in Int
    PROVE  LimitReader(<<>>, n) = <<>>
<1> DEFINE whole == {k \in 0 .. Len(<<>>) : k = 0 \/ BytesIn(SubSeq(<<>>, 1, k)) <= n}
           kept == CHOOSE k \in whole : \A j \in whole : j <= k
<1>1. Len(<<>>) = 0 /\ SubSeq(<<>>, 1, 0) = <<>>
  OBVIOUS
<1>2. whole = {0}
  BY <1>1
<1> HIDE DEF whole
<1>3. kept = 0
  BY <1>2
<1> HIDE DEF kept
<1> QED
  BY <1>1, <1>3, Zenon DEF LimitReader, whole, kept

LEMMA LimitReaderOfOne ==
    ASSUME NEW d, d.bytes \in Nat, NEW n \in Int
    PROVE  LimitReader(<<d>>, n) = IF d.bytes <= n THEN <<d>>
                                   ELSE IF n <= 0 THEN <<>> ELSE <<PartOf(d, n)>>
<1> DEFINE documents == <<d>>
           first(k) == SubSeq(documents, 1, k)
           size(k) == BytesIn(first(k))
           whole == {k \in 0 .. Len(documents) : k = 0 \/ size(k) <= n}
           kept == CHOOSE k \in whole : \A j \in whole : j <= k
           rest == n - size(kept)
<1>1. Len(documents) = 1 /\ documents[1] = d
  OBVIOUS
<1>2. first(0) = <<>> /\ first(1) = documents
  BY <1>1, FirstOfSequence
<1>3. size(0) = 0 /\ size(1) = d.bytes
  BY <1>2, BytesInNone, BytesInOne
<1>4. \A p : Append(<<>>, p) = <<p>>
  OBVIOUS
<1>5. LimitReader(documents, n) =
        IF kept = Len(documents) \/ rest <= 0 THEN first(kept)
        ELSE Append(first(kept), PartOf(documents[kept + 1], rest))
  BY Zenon DEF LimitReader
<1> HIDE DEF documents, first, size
<1>6. 0 \in whole /\ whole \subseteq {0, 1} /\ (1 \in whole <=> d.bytes <= n)
  BY <1>1, <1>3
<1> HIDE DEF whole
<1>7. kept = IF d.bytes <= n THEN 1 ELSE 0
  <2>1. \E k \in whole : \A j \in whole : j <= k
    BY <1>6
  <2>2. kept \in whole /\ \A j \in whole : j <= kept
    BY <2>1
  <2> HIDE DEF kept
  <2> QED
    BY <1>6, <2>2
<1> HIDE DEF kept
<1>8. CASE d.bytes <= n
  BY <1>1, <1>2, <1>5, <1>7, <1>8 DEF documents
<1>9. CASE ~(d.bytes <= n)
  <2>1. kept = 0 /\ rest = n
    BY <1>3, <1>7, <1>9
  <2> HIDE DEF rest
  <2>2. LimitReader(documents, n) = IF n <= 0 THEN <<>> ELSE <<PartOf(d, n)>>
    <3>1. kept # Len(documents) /\ first(kept) = <<>> /\ documents[kept + 1] = d
      BY <1>1, <1>2, <2>1
    <3> QED
      BY <1>4, <1>5, <2>1, <3>1, Zenon
  <2> QED
    BY <1>9, <2>2 DEF documents
<1> QED
  BY <1>8, <1>9

LEMMA LimitReaderOfTwo ==
    ASSUME NEW d, NEW e, d.bytes \in Nat, e.bytes \in Nat, NEW n \in Int
    PROVE  LimitReader(<<d, e>>, n) =
              IF d.bytes + e.bytes <= n THEN <<d, e>>
              ELSE IF d.bytes < n THEN <<d, PartOf(e, n - d.bytes)>>
              ELSE IF d.bytes = n THEN <<d>>
              ELSE IF n <= 0 THEN <<>> ELSE <<PartOf(d, n)>>
<1> DEFINE documents == <<d, e>>
           first(k) == SubSeq(documents, 1, k)
           size(k) == BytesIn(first(k))
           whole == {k \in 0 .. Len(documents) : k = 0 \/ size(k) <= n}
           kept == CHOOSE k \in whole : \A j \in whole : j <= k
           rest == n - size(kept)
<1>1. Len(documents) = 2 /\ documents[1] = d /\ documents[2] = e
  OBVIOUS
<1>2. first(0) = <<>> /\ first(1) = <<d>> /\ first(2) = documents
  BY <1>1, FirstOfSequence, FirstTwoOfSequence
<1>3. size(0) = 0 /\ size(1) = d.bytes /\ size(2) = d.bytes + e.bytes
  BY <1>2, BytesInNone, BytesInOne, BytesInTwo
<1>4. \A p : Append(<<>>, p) = <<p>>
  OBVIOUS
<1>5. \A p : Append(<<d>>, p) = <<d, p>>
  BY AppendedToOne
<1>6. LimitReader(documents, n) =
        IF kept = Len(documents) \/ rest <= 0 THEN first(kept)
        ELSE Append(first(kept), PartOf(documents[kept + 1], rest))
  BY Zenon DEF LimitReader
<1> HIDE DEF documents, first, size
<1>7. /\ 0 \in whole /\ whole \subseteq {0, 1, 2}
      /\ 1 \in whole <=> d.bytes <= n
      /\ 2 \in whole <=> d.bytes + e.bytes <= n
  BY <1>1, <1>3
<1> HIDE DEF whole
<1>8. kept = IF d.bytes + e.bytes <= n THEN 2 ELSE IF d.bytes <= n THEN 1 ELSE 0
  <2>1. \E k \in whole : \A j \in whole : j <= k
    BY <1>7
  <2>2. kept \in whole /\ \A j \in whole : j <= kept
    BY <2>1
  <2> HIDE DEF kept
  <2> QED
    BY <1>7, <2>2
<1> HIDE DEF kept
<1>9. CASE d.bytes + e.bytes <= n
  BY <1>1, <1>2, <1>6, <1>8, <1>9 DEF documents
<1>10. CASE ~(d.bytes + e.bytes <= n) /\ d.bytes <= n
  <2>1. kept = 1 /\ rest = n - d.bytes /\ (rest <= 0 <=> d.bytes = n)
    BY <1>3, <1>8, <1>10
  <2> HIDE DEF rest
  <2>2. LimitReader(documents, n) = IF d.bytes = n THEN <<d>> ELSE <<d, PartOf(e, rest)>>
    <3>1. kept # Len(documents) /\ first(kept) = <<d>> /\ documents[kept + 1] = e
      BY <1>1, <1>2, <2>1
    <3> QED
      BY <1>5, <1>6, <2>1, <3>1, Zenon
  <2>3. d.bytes = n \/ d.bytes < n
    BY <1>10
  <2> QED
    BY <1>10, <2>1, <2>2, <2>3 DEF documents
<1>11. CASE ~(d.bytes <= n)
  <2>1. kept = 0 /\ rest = n /\ ~(d.bytes + e.bytes <= n)
    BY <1>3, <1>8, <1>11
  <2> HIDE DEF rest
  <2>2. LimitReader(documents, n) = IF n <= 0 THEN <<>> ELSE <<PartOf(d, n)>>
    <3>1. kept # Len(documents) /\ first(kept) = <<>> /\ documents[kept + 1] = d
      BY <1>1, <1>2, <2>1
    <3> QED
      BY <1>4, <1>6, <2>1, <3>1, Zenon
  <2> QED
    BY <1>11, <2>1, <2>2 DEF documents
<1> QED
  BY <1>9, <1>10, <1>11

-----------------------------------------------------------------------------
(***************************************************************************)
(* What the client's reader makes of a body (tokenresponse/reader.go,      *)
(* readArtifact; decoder.go, Decode).                                      *)
(***************************************************************************)
Documents == [what : {"response", "error", "part"}, says : Representations, bytes : Nat]
Bodies == {<<>>} \cup {<<d>> : d \in Documents} \cup {<<d, e>> : d, e \in Documents}

LEMMA BytesAskedFor ==
    Int64(MaxBodyBytes + 1) = IF MaxBodyBytes < Int64Max THEN MaxBodyBytes + 1
                              ELSE -(Int64Max + 1)
<1>1. CASE MaxBodyBytes < Int64Max
  <2>1. MaxBodyBytes + 1 \in Durations
    BY <1>1, Widths DEF Durations
  <2> QED
    BY <1>1, <2>1, Int64OfDuration
<1>2. CASE ~(MaxBodyBytes < Int64Max)
  <2>1. MaxBodyBytes = Int64Max
    BY <1>2, Widths
  <2>2. (2 * (Int64Max + 1)) % (2 * (Int64Max + 1)) = 0
    BY Widths
  <2>3. Int64Max + 1 + Int64Max + 1 = 2 * (Int64Max + 1)
    BY Widths
  <2> QED
    BY <1>2, <2>1, <2>2, <2>3, Widths DEF Int64
<1> QED
  BY <1>1, <1>2

LEMMA ReadIsOfOneDocument ==
    ASSUME NEW documents \in Bodies, NEW n \in Int,
           Len(LimitReader(documents, n)) = 1, LimitReader(documents, n)[1].what # "part",
           BytesIn(LimitReader(documents, n)) # n
    PROVE  \E d \in Documents : documents = <<d>> /\ LimitReader(documents, n) = <<d>>
<1>1. \A d : /\ Len(<<>>) # 1 /\ Len(<<d>>) = 1 /\ <<d>>[1] = d
             /\ \A e : Len(<<d, e>>) # 1
  OBVIOUS
<1>2. \A d, m : <<PartOf(d, m)>>[1].what = "part"
  BY DEF PartOf
<1>3. documents # <<>>
  BY <1>1, LimitReaderOfNone
<1>4. ASSUME NEW d \in Documents, documents = <<d>>
      PROVE  LimitReader(documents, n) = <<d>>
  <2>1. d.bytes \in Nat
    BY DEF Documents
  <2>2. LimitReader(documents, n) = IF d.bytes <= n THEN <<d>>
                                   ELSE IF n <= 0 THEN <<>> ELSE <<PartOf(d, n)>>
    BY <1>4, <2>1, LimitReaderOfOne
  <2>3. LimitReader(documents, n) # <<>>
    BY <1>1
  <2>4. LimitReader(documents, n) # <<PartOf(d, n)>>
    BY <1>2
  <2> QED
    BY <2>2, <2>3, <2>4, Zenon
<1>5. ASSUME NEW d \in Documents, NEW e \in Documents, documents = <<d, e>>
      PROVE  FALSE
  <2>1. d.bytes \in Nat /\ e.bytes \in Nat
    BY DEF Documents
  <2>2. LimitReader(documents, n) =
              IF d.bytes + e.bytes <= n THEN <<d, e>>
              ELSE IF d.bytes < n THEN <<d, PartOf(e, n - d.bytes)>>
              ELSE IF d.bytes = n THEN <<d>>
              ELSE IF n <= 0 THEN <<>> ELSE <<PartOf(d, n)>>
    BY <1>5, <2>1, LimitReaderOfTwo
  <2>3. /\ LimitReader(documents, n) # <<>>
        /\ LimitReader(documents, n) # <<d, e>>
        /\ LimitReader(documents, n) # <<d, PartOf(e, n - d.bytes)>>
    BY <1>1
  <2>4. LimitReader(documents, n) # <<PartOf(d, n)>>
    BY <1>2
  <2>5. d.bytes = n => LimitReader(documents, n) # <<d>>
    BY <2>1, BytesInOne
  <2> QED
    BY <2>2, <2>3, <2>4, <2>5, Zenon
<1> QED
  BY <1>3, <1>4, <1>5 DEF Bodies

LEMMA NothingBelowZero ==
    ASSUME NEW documents \in Bodies, NEW n \in Int, n < 0
    PROVE  LimitReader(documents, n) = <<>>
<1>1. n <= 0 /\ \A m \in Nat : ~(m <= n) /\ ~(m < n) /\ m # n
  OBVIOUS
<1>2. ASSUME NEW d \in Documents, documents = <<d>>
      PROVE  LimitReader(documents, n) = <<>>
  <2>1. d.bytes \in Nat
    BY DEF Documents
  <2> QED
    BY <1>1, <1>2, <2>1, LimitReaderOfOne
<1>3. ASSUME NEW d \in Documents, NEW e \in Documents, documents = <<d, e>>
      PROVE  LimitReader(documents, n) = <<>>
  <2>1. d.bytes \in Nat /\ e.bytes \in Nat /\ d.bytes + e.bytes \in Nat
    BY DEF Documents
  <2>2. LimitReader(<<d, e>>, n) =
              IF d.bytes + e.bytes <= n THEN <<d, e>>
              ELSE IF d.bytes < n THEN <<d, PartOf(e, n - d.bytes)>>
              ELSE IF d.bytes = n THEN <<d>>
              ELSE IF n <= 0 THEN <<>> ELSE <<PartOf(d, n)>>
    BY <2>1, LimitReaderOfTwo
  <2> QED
    BY <1>1, <1>3, <2>1, <2>2, Zenon
<1> QED
  BY <1>2, <1>3, LimitReaderOfNone DEF Bodies

(***************************************************************************)
(* What the reader accepts is one whole document, and not with the largest *)
(* limit there is: then it accepts nothing.                                *)
(***************************************************************************)
LEMMA ReadIsWhole ==
    ASSUME NEW documents \in Bodies, NEW broken \in BOOLEAN,
           ReadResponse(documents, broken) # Failure({"Malformed"}, EmptyResponse)
    PROVE  /\ ~broken /\ MaxBodyBytes < Int64Max
           /\ \E d \in Documents : /\ documents = <<d>> /\ d.what # "part"
                                   /\ ReadResponse(documents, broken) = DecodeResponse(d.says)
<1> DEFINE n == Int64(MaxBodyBytes + 1)
           read == LimitReader(documents, n)
           size == BytesIn(read)
<1>1. ReadResponse(documents, broken) =
        IF broken \/ size > MaxBodyBytes \/ size > MaxPayloadBytes
        THEN Failure({"Malformed"}, EmptyResponse)
        ELSE IF Len(read) # 1 \/ read[1].what = "part"
        THEN Failure({"Malformed"}, EmptyResponse)
        ELSE DecodeResponse(read[1].says)
  BY Zenon DEF ReadResponse
<1>2. n \in Int /\ n = IF MaxBodyBytes < Int64Max THEN MaxBodyBytes + 1 ELSE -(Int64Max + 1)
  BY BytesAskedFor, Widths
<1> HIDE DEF n, read, size
<1>3. /\ ~broken /\ ~(size > MaxBodyBytes) /\ Len(read) = 1 /\ read[1].what # "part"
      /\ ReadResponse(documents, broken) = DecodeResponse(read[1].says)
  BY <1>1, Zenon
<1>4. MaxBodyBytes < Int64Max
  <2>1. CASE ~(MaxBodyBytes < Int64Max)
    <3>1. n < 0
      BY <1>2, <2>1, Widths
    <3>2. read = <<>>
      BY <1>2, <3>1, NothingBelowZero DEF read
    <3> QED
      BY <1>3, <3>2
  <2> QED
    BY <2>1
<1>5. size # n
  <2>1. n > MaxBodyBytes
    BY <1>2, <1>4, Widths
  <2> QED
    BY <1>3, <2>1
<1>6. PICK d \in Documents : documents = <<d>> /\ read = <<d>>
  BY <1>2, <1>3, <1>5, ReadIsOfOneDocument DEF read, size
<1>7. read[1] = d
  BY <1>6
<1> QED
  BY <1>3, <1>4, <1>6, <1>7

LEMMA WholeIsRead ==
    ASSUME NEW d \in Documents, d.what # "part", MaxBodyBytes < Int64Max,
           d.bytes <= MaxBodyBytes, d.bytes <= MaxPayloadBytes
    PROVE  ReadResponse(<<d>>, FALSE) = DecodeResponse(d.says)
<1> DEFINE n == Int64(MaxBodyBytes + 1)
           read == LimitReader(<<d>>, n)
           size == BytesIn(read)
<1>1. ReadResponse(<<d>>, FALSE) =
        IF FALSE \/ size > MaxBodyBytes \/ size > MaxPayloadBytes
        THEN Failure({"Malformed"}, EmptyResponse)
        ELSE IF Len(read) # 1 \/ read[1].what = "part"
        THEN Failure({"Malformed"}, EmptyResponse)
        ELSE DecodeResponse(read[1].says)
  BY Zenon DEF ReadResponse
<1>2. n = MaxBodyBytes + 1 /\ n \in Int /\ d.bytes \in Nat /\ d.bytes <= n
  BY BytesAskedFor, Widths DEF Documents
<1> HIDE DEF n
<1>3. read = <<d>>
  BY <1>2, LimitReaderOfOne
<1>4. size = d.bytes
  BY <1>2, <1>3, BytesInOne
<1> HIDE DEF read, size
<1>5. Len(read) = 1 /\ read[1] = d /\ ~(size > MaxBodyBytes) /\ ~(size > MaxPayloadBytes)
  BY <1>2, <1>3, <1>4, Widths
<1> QED
  BY <1>1, <1>5, Zenon

-----------------------------------------------------------------------------
(***************************************************************************)
(* Of several checks in their order the first one that fails decides, and  *)
(* there is no fault only when none of them fails.                         *)
(***************************************************************************)
LEMMA FirstFaultFound ==
    ASSUME NEW faults \in Seq(Errors)
    PROVE  /\ FirstFault(faults) \in Errors
           /\ FirstFault(faults) = NoError <=> \A i \in DOMAIN faults : faults[i] = NoError
<1> DEFINE failing == {i \in 1 .. Len(faults) : faults[i] # NoError}
<1>1. Len(faults) \in Nat /\ DOMAIN faults = 1 .. Len(faults)
      /\ \A i \in DOMAIN faults : faults[i] \in Errors
  BY LenProperties
<1>2. NoError \in Errors
  BY DEF NoError, Errors
<1>3. CASE failing = {}
  BY <1>1, <1>2, <1>3 DEF FirstFault
<1>4. CASE failing # {}
  <2>1. failing \subseteq Nat
    BY <1>1
  <2>2. PICK first \in failing : \A j \in failing : ~(<<j, first>> \in OpToRel(<, Nat))
    BY <1>4, <2>1, NatLessThanWellFounded, WFMin
  <2>3. ASSUME NEW j \in failing PROVE first <= j
    <3>1. ~(j < first)
      BY <2>1, <2>2 DEF OpToRel
    <3> QED
      BY <2>1, <3>1
  <2>4. Min(failing) \in failing
    BY <2>3 DEF Min
  <2>5. SelectInSeq(faults, LAMBDA fault : fault # NoError) = Min(failing)
    BY <1>4, Zenon DEF SelectInSeq
  <2>6. ~(\A i \in DOMAIN faults : faults[i] = NoError)
    BY <1>1, <1>4
  <2>7. FirstFault(faults) = faults[Min(failing)]
    BY <2>5, <2>6, Zenon DEF FirstFault
  <2> QED
    BY <1>1, <2>4, <2>6, <2>7
<1> QED
  BY <1>3, <1>4

-----------------------------------------------------------------------------
(***************************************************************************)
(* What the encoder and the decoder of a token response return             *)
(* (tokenresponse/encoder.go, Encode; decoder.go, decode).                 *)
(***************************************************************************)
LEMMA EmptyAnswers ==
    EmptyResponse \in TokenResponses /\ EmptyRepresentation \in Representations
<1>1. NoTokenTexts \in [TokenKinds -> Text] /\ "" \in Text
  BY TextAssumption DEF NoTokenTexts
<1>2. 0 \in Durations
  BY Widths DEF Durations
<1>3. EmptyResponse \in TokenResponses
  BY <1>1, <1>2 DEF EmptyResponse, TokenResponses
<1>4. EmptyRepresentation \in Representations
  BY <1>1, <1>2 DEF EmptyRepresentation, Representations
<1> QED
  BY <1>3, <1>4

LEMMA LifetimeIsADuration ==
    ASSUME NEW seconds \in Int
    PROVE  Lifetime(seconds) \in Durations
<1> DEFINE m == 2 * (Int64Max + 1)
           n == seconds * Second + Int64Max + 1
<1>1. m \in Nat \ {0} /\ n \in Int
  BY Widths
<1>2. n % m \in 0 .. m - 1
  BY <1>1
<1>3. Lifetime(seconds) = (n % m) - (Int64Max + 1)
  BY DEF Lifetime, Int64
<1> HIDE DEF n
<1> QED
  BY <1>2, <1>3, Widths DEF Durations

EncodedFrom(r) ==
    [tokens |-> r.tokens, token_type |-> r.token_type, expires_in |-> WholeSeconds(r.lifetime),
     scope |-> r.scope, issued_type |-> r.issued_type]
DecodedFrom(rep) ==
    [tokens |-> rep.tokens, token_type |-> rep.token_type, lifetime |-> Lifetime(rep.expires_in),
     scope |-> rep.scope, issued_type |-> rep.issued_type]

LEMMA EncodedIsWhole ==
    ASSUME NEW r \in TokenResponses, EncodeResponse(r).err = NoError
    PROVE  /\ EncodeResponse(r).value = EncodedFrom(r)
           /\ EncodeResponse(r).value \in Representations
           /\ EncodeResponse(r) = Success(EncodedFrom(r))
           /\ r.tokens # NoTokenTexts
<1>1. {"Malformed"} # NoError
      /\ \A faults : NewErrorCategory("Malformed", faults) # NoError
  BY DEF NoError, NewErrorCategory
<1>2. EncodeResponse(r) = Success(EncodedFrom(r)) /\ r.tokens # NoTokenTexts
  BY <1>1 DEF EncodeResponse, EncodedFrom, Failure, Success
<1>3. EncodedFrom(r) \in Representations
  BY LifetimeKept DEF TokenResponses, Representations, EncodedFrom
<1> QED
  BY <1>2, <1>3 DEF Success

LEMMA DecodedIsWhole ==
    ASSUME NEW rep \in Representations
    PROVE  /\ DecodeResponse(rep) \in [err : Errors, value : TokenResponses]
           /\ DecodeResponse(rep).err = NoError =>
                /\ DecodeResponse(rep) = Success(DecodedFrom(rep))
                /\ rep.tokens # NoTokenTexts
           /\ /\ rep.tokens # NoTokenTexts
              /\ \A k \in TokenKinds : DecodeFault[rep.tokens[k]] = NoError
              => DecodeResponse(rep) = Success(DecodedFrom(rep))
<1> DEFINE fault(k) == DecodeFault[rep.tokens[k]]
           faults == <<fault("access_token"), fault("refresh_token"), fault("id_token")>>
           first == FirstFault(faults)
<1>1. DecodeResponse(rep) =
        IF first # NoError THEN Failure(NewErrorCategory("Malformed", first), EmptyResponse)
        ELSE IF rep.tokens = NoTokenTexts THEN Failure({"Malformed"}, EmptyResponse)
        ELSE Success(DecodedFrom(rep))
  BY Zenon DEF DecodeResponse, DecodedFrom
<1>2. \A k \in TokenKinds : fault(k) \in Errors
  BY TextAssumption DEF Representations
<1>3. faults \in Seq(Errors)
  BY <1>2 DEF TokenKinds
<1>4. DOMAIN faults = {1, 2, 3} /\ faults[1] = fault("access_token")
      /\ faults[2] = fault("refresh_token") /\ faults[3] = fault("id_token")
  OBVIOUS
<1> HIDE DEF faults
<1>5. /\ first \in Errors
      /\ first = NoError <=> \A i \in DOMAIN faults : faults[i] = NoError
  BY <1>3, FirstFaultFound
<1>6. (\A k \in TokenKinds : fault(k) = NoError) => first = NoError
  BY <1>4, <1>5 DEF TokenKinds
<1>7. DecodedFrom(rep) \in TokenResponses
  <2>1. rep.expires_in \in Int
    BY Widths DEF Representations, Durations
  <2>2. Lifetime(rep.expires_in) \in Durations
    BY <2>1, LifetimeIsADuration
  <2> QED
    BY <2>2 DEF Representations, TokenResponses, DecodedFrom
<1>8. /\ {"Malformed"} \in Errors /\ {"Malformed"} # NoError /\ NoError \in Errors
      /\ NewErrorCategory("Malformed", first) \in Errors
      /\ NewErrorCategory("Malformed", first) # NoError
  BY <1>5 DEF NewErrorCategory, Errors, Categories, NoError
<1> HIDE DEF first
<1>9. CASE first # NoError
  <2>1. DecodeResponse(rep) = Failure(NewErrorCategory("Malformed", first), EmptyResponse)
    BY <1>1, <1>9
  <2> QED
    BY <1>6, <1>8, <1>9, <2>1, EmptyAnswers DEF Failure
<1>10. CASE first = NoError /\ rep.tokens = NoTokenTexts
  <2>1. DecodeResponse(rep) = Failure({"Malformed"}, EmptyResponse)
    BY <1>1, <1>10
  <2> QED
    BY <1>8, <1>10, <2>1, EmptyAnswers DEF Failure
<1>11. CASE first = NoError /\ rep.tokens # NoTokenTexts
  <2>1. DecodeResponse(rep) = Success(DecodedFrom(rep))
    BY <1>1, <1>11
  <2> QED
    BY <1>7, <1>8, <1>11, <2>1 DEF Success
<1> QED
  BY <1>9, <1>10, <1>11

(***************************************************************************)
(* The validator of responses accepts what none of its checks objects to   *)
(* (tokenresponse/validator.go, validate).                                 *)
(***************************************************************************)
VerdictOf(r, k) == IF r.tokens[k] # "" THEN TokenFault[k][r.tokens[k]] ELSE NoError

NothingWrong(r) ==
    LET has(k) == r.tokens[k] # "" IN
    /\ ~(RequireAccessToken /\ ~has("access_token"))
    /\ ~(has("access_token") /\ r.token_type = "")
    /\ ~(r.token_type # "" /\ LowerCase(r.token_type) \notin AllowedTokenTypes)
    /\ ~(r.lifetime < 0)
    /\ ~IllFormedScope(r.scope)
    /\ ~(RequireIssuedType /\ r.issued_type = "")
    /\ ~(r.issued_type # "" /\ ~has("access_token"))
    /\ ~(r.issued_type \in RelativeTypes)
    /\ ~(r.issued_type # "" /\ AllowedIssuedTypes # {} /\ r.issued_type \notin AllowedIssuedTypes)
    /\ ~(has("id_token") /\ ~AllowIDToken)
    /\ ~(~has("id_token") /\ RequireIDToken)
    /\ VerdictOf(r, "access_token") = NoError
    /\ VerdictOf(r, "refresh_token") = NoError
    /\ VerdictOf(r, "id_token") = NoError

LEMMA ValidatorFindsNothingWrong ==
    ASSUME NEW r \in TokenResponses
    PROVE  /\ ValidateResponse(r) \in Errors
           /\ ValidateResponse(r) = NoError <=> NothingWrong(r)
<1> DEFINE has(k) == r.tokens[k] # ""
           type == r.issued_type
           c1 == Refuse(RequireAccessToken /\ ~has("access_token"), "Malformed")
           c2 == Refuse(has("access_token") /\ r.token_type = "", "Malformed")
           c3 == Refuse(r.token_type # "" /\ LowerCase(r.token_type) \notin AllowedTokenTypes,
                        "PolicyRejected")
           c4 == Refuse(r.lifetime < 0, "Malformed")
           c5 == Refuse(IllFormedScope(r.scope), "Malformed")
           c6 == Refuse(RequireIssuedType /\ type = "", "Malformed")
           c7 == Refuse(type # "" /\ ~has("access_token"), "Malformed")
           c8 == Refuse(type \in RelativeTypes, "Malformed")
           c9 == Refuse(type # "" /\ AllowedIssuedTypes # {} /\ type \notin AllowedIssuedTypes,
                        "PolicyRejected")
           c10 == Refuse(has("id_token") /\ ~AllowIDToken, "PolicyRejected")
           c11 == Refuse(~has("id_token") /\ RequireIDToken, "Malformed")
           v1 == VerdictOf(r, "access_token")
           v2 == VerdictOf(r, "refresh_token")
           v3 == VerdictOf(r, "id_token")
           checks == <<c1, c2, c3, c4, c5, c6, c7, c8, c9, c10, c11, v1, v2, v3>>
<1>1. ValidateResponse(r) = FirstFault(checks)
  BY Zenon DEF ValidateResponse, VerdictOf
<1>2. \A wrong, category : category \in {"Malformed", "PolicyRejected"} =>
          /\ Refuse(wrong, category) \in Errors
          /\ Refuse(wrong, category) = NoError <=> ~wrong
  BY DEF Refuse, Errors, Categories, NoError
<1>3. \A k \in TokenKinds : VerdictOf(r, k) \in Errors
  <2>1. TokenFault \in [TokenKinds -> [Text -> Errors]] /\ r.tokens \in [TokenKinds -> Text]
        /\ NoError \in Errors
    BY Zenon, ResponseAssumption DEF TokenResponses, Errors, NoError
  <2> QED
    BY <2>1 DEF VerdictOf
<1>4. /\ c1 \in Errors /\ c2 \in Errors /\ c3 \in Errors /\ c4 \in Errors /\ c5 \in Errors
      /\ c6 \in Errors /\ c7 \in Errors /\ c8 \in Errors /\ c9 \in Errors /\ c10 \in Errors
      /\ c11 \in Errors /\ v1 \in Errors /\ v2 \in Errors /\ v3 \in Errors
  BY <1>2, <1>3 DEF TokenKinds
<1>5. NothingWrong(r) <=>
        /\ c1 = NoError /\ c2 = NoError /\ c3 = NoError /\ c4 = NoError /\ c5 = NoError
        /\ c6 = NoError /\ c7 = NoError /\ c8 = NoError /\ c9 = NoError /\ c10 = NoError
        /\ c11 = NoError /\ v1 = NoError /\ v2 = NoError /\ v3 = NoError
  BY <1>2, Zenon DEF NothingWrong
<1> HIDE DEF c1, c2, c3, c4, c5, c6, c7, c8, c9, c10, c11, v1, v2, v3
<1>6. /\ DOMAIN checks = 1 .. 14
      /\ checks[1] = c1 /\ checks[2] = c2 /\ checks[3] = c3 /\ checks[4] = c4
      /\ checks[5] = c5 /\ checks[6] = c6 /\ checks[7] = c7 /\ checks[8] = c8
      /\ checks[9] = c9 /\ checks[10] = c10 /\ checks[11] = c11 /\ checks[12] = v1
      /\ checks[13] = v2 /\ checks[14] = v3
  OBVIOUS
<1>7. checks \in Seq(Errors)
  BY <1>4
<1> HIDE DEF checks
<1>8. /\ FirstFault(checks) \in Errors
      /\ FirstFault(checks) = NoError <=> \A i \in 1 .. 14 : checks[i] = NoError
  BY <1>6, <1>7, FirstFaultFound
<1>9. (\A i \in 1 .. 14 : checks[i] = NoError) <=>
        /\ c1 = NoError /\ c2 = NoError /\ c3 = NoError /\ c4 = NoError /\ c5 = NoError
        /\ c6 = NoError /\ c7 = NoError /\ c8 = NoError /\ c9 = NoError /\ c10 = NoError
        /\ c11 = NoError /\ v1 = NoError /\ v2 = NoError /\ v3 = NoError
  BY <1>6
<1> QED
  BY <1>1, <1>5, <1>8, <1>9, Zenon

-----------------------------------------------------------------------------
(***************************************************************************)
(* What the writers leave in the carrier (clientcredentials/writer.go,     *)
(* tokenrequest/writer.go, writeArtifact).                                 *)
(***************************************************************************)
FormOf(a) ==
    [f \in FormFields |->
        IF f = "grant_type" THEN a.grant_type
        ELSE IF f \in FieldsWritten(a.grant_type) /\ a.fields[f] # ""
        THEN IF f \in TokenFields THEN Encoded[a.fields[f]] ELSE a.fields[f]
        ELSE CredentialForm(a.credentials)[f]]

LEMMA CredentialFormIs ==
    ASSUME NEW c \in Credentials
    PROVE  /\ CredentialForm(c) \in [FormFields -> Text]
           /\ CredentialForm(c)["client_id"] = c.client_id
           /\ CredentialForm(c)["client_secret"] = c.client_secret
           /\ CredentialForm(c)["client_assertion"] = Encoded[c.assertion]
           /\ CredentialForm(c)["client_assertion_type"] =
                 IF c.assertion = "" THEN "" ELSE c.assertion_type
           /\ CredentialForm(c)["grant_type"] = ""
           /\ \A f \in GrantFields : CredentialForm(c)[f] = ""
<1> DEFINE text(f) == IF f = "client_id" THEN c.client_id
                      ELSE IF f = "client_secret" THEN c.client_secret
                      ELSE IF f = "client_assertion" THEN Encoded[c.assertion]
                      ELSE IF f = "client_assertion_type"
                           THEN IF c.assertion = "" THEN "" ELSE c.assertion_type
                      ELSE ""
<1>1. /\ "" \in Text /\ Encoded \in [Text -> Text] /\ c.client_id \in Text
      /\ c.client_secret \in Text /\ c.assertion \in Text /\ c.assertion_type \in Text
  BY TextAssumption, EncoderAssumption DEF Credentials
<1>2. CredentialForm(c) = [f \in FormFields |-> text(f)]
  BY DEF CredentialForm, NoForm, FormFields
<1>3. \A f \in GrantFields : /\ f \in FormFields /\ f # "client_id" /\ f # "client_secret"
                             /\ f # "client_assertion" /\ f # "client_assertion_type"
  BY DEF GrantFields, FormFields
<1>4. \A f : text(f) \in Text
  BY <1>1
<1>5. /\ text("client_id") = c.client_id /\ text("client_secret") = c.client_secret
      /\ text("client_assertion") = Encoded[c.assertion]
      /\ text("client_assertion_type") = IF c.assertion = "" THEN "" ELSE c.assertion_type
      /\ text("grant_type") = ""
      /\ \A f \in GrantFields : text(f) = ""
  BY <1>3
<1>6. {"client_id", "client_secret", "client_assertion", "client_assertion_type",
       "grant_type"} \cup GrantFields \subseteq FormFields
  BY DEF FormFields, GrantFields
<1> HIDE DEF text
<1>7. \A f \in FormFields : CredentialForm(c)[f] = text(f)
  BY <1>2, Zenon
<1>8. CredentialForm(c) \in [FormFields -> Text]
  BY <1>2, <1>4
<1>9. \A f \in GrantFields : CredentialForm(c)[f] = ""
  BY <1>5, <1>6, <1>7
<1> QED
  BY <1>5, <1>6, <1>7, <1>8, <1>9

LEMMA FieldsWrittenAreGrantFields ==
    ASSUME NEW grant
    PROVE  FieldsWritten(grant) \subseteq GrantFields /\ FieldsWritten(grant) = FieldsRead(grant)
BY DEF FieldsWritten, FieldsRead, GrantFields

LEMMA FormIsOfTexts ==
    ASSUME NEW a \in TokenRequests
    PROVE  FormOf(a) \in [FormFields -> Text]
<1>1. /\ a.grant_type \in Text /\ a.credentials \in Credentials
      /\ a.fields \in [GrantFields -> Text] /\ Encoded \in [Text -> Text]
  BY EncoderAssumption DEF TokenRequests
<1>2. CredentialForm(a.credentials) \in [FormFields -> Text]
  BY <1>1, CredentialFormIs
<1>3. FieldsWritten(a.grant_type) \subseteq GrantFields
  BY FieldsWrittenAreGrantFields
<1> QED
  BY <1>1, <1>2, <1>3 DEF FormOf

LEMMA BodyReplaced ==
    ASSUME NEW http \in HTTPRequests, NEW form \in [FormFields -> Text]
    PROVE  /\ WithBody(http, form) \in HTTPRequests
           /\ WithBody(http, form).parses /\ WithBody(http, form).form = form
           /\ WithBody(http, form).basic = http.basic
           /\ \A g : WithBody(WithBody(http, g), form) = WithBody(http, form)
BY DEF WithBody, HTTPRequests

LEMMA CredentialsWritten ==
    ASSUME NEW http \in HTTPRequests, NEW c \in Credentials
    PROVE  LET result == WriteClientCredentials(http, c) IN
           /\ result.err \in Errors
           /\ result.err # NoError => result.carrier = http
           /\ result.err = NoError => result.carrier = WithBody(http, CredentialForm(c))
<1>1. EncodeFault[c.assertion] \in Errors
  BY EncoderAssumption DEF Credentials
<1>2. /\ NewErrorCategory("Malformed", EncodeFault[c.assertion]) \in Errors
      /\ NewErrorCategory("Malformed", EncodeFault[c.assertion]) # NoError
      /\ NoError \in Errors
  BY <1>1 DEF NewErrorCategory, Errors, Categories, NoError
<1> QED
  BY <1>2 DEF WriteClientCredentials, Wrote

LEMMA RequestWritten ==
    ASSUME NEW http \in HTTPRequests, NEW a \in TokenRequests
    PROVE  LET result == WriteTokenRequest(http, a) IN
           /\ result.err \in Errors
           /\ result.err # NoError =>
                result.carrier = http \/ result.carrier = WithBody(http, NoForm)
           /\ result.err = NoError => result.carrier = WithBody(http, FormOf(a))
<1> DEFINE first == WriteClientCredentials(http, a.credentials)
           form == first.carrier.form
           fields == FieldsWritten(a.grant_type)
           text(f) == IF f \in TokenFields THEN Encoded[a.fields[f]] ELSE a.fields[f]
           faults == UNION {EncodeFault[a.fields[f]] : f \in fields \cap TokenFields}
           made == [f \in FormFields |-> IF f = "grant_type" THEN a.grant_type
                                         ELSE IF f \in fields /\ a.fields[f] # "" THEN text(f)
                                         ELSE form[f]]
<1>1. a.credentials \in Credentials /\ a.fields \in [GrantFields -> Text]
  BY DEF TokenRequests
<1>2. WriteTokenRequest(http, a) =
        IF first.err # NoError THEN first
        ELSE IF faults # NoError
        THEN Wrote(NewErrorCategory("Malformed", faults), WithBody(http, NoForm))
        ELSE Wrote(NoError, WithBody(http, made))
  BY Zenon DEF WriteTokenRequest
<1>3. /\ first.err \in Errors
      /\ first.err # NoError => first.carrier = http
      /\ first.err = NoError => first.carrier = WithBody(http, CredentialForm(a.credentials))
  BY <1>1, CredentialsWritten
<1>4. faults \in Errors
  <2>1. \A f \in TokenFields : EncodeFault[a.fields[f]] \in Errors
    BY <1>1, EncoderAssumption DEF TokenFields, GrantFields
  <2> QED
    BY <2>1 DEF Errors
<1>5. first.err = NoError => made = FormOf(a)
  <2>1. CredentialForm(a.credentials) \in [FormFields -> Text]
    BY <1>1, CredentialFormIs
  <2>2. ASSUME first.err = NoError PROVE form = CredentialForm(a.credentials)
    BY <1>3, <2>1, <2>2, BodyReplaced
  <2> HIDE DEF form, first
  <2> QED
    BY <2>2 DEF FormOf
<1>6. /\ NewErrorCategory("Malformed", faults) \in Errors
      /\ NewErrorCategory("Malformed", faults) # NoError /\ NoError \in Errors
  BY <1>4 DEF NewErrorCategory, Errors, Categories, NoError
<1> HIDE DEF first, faults, made
<1> QED
  BY <1>2, <1>3, <1>5, <1>6 DEF Wrote

-----------------------------------------------------------------------------
(***************************************************************************)
(* What the server reads of a form that the writers made.  A form carries  *)
(* credentials, whichever writer put them there.                           *)
(***************************************************************************)
FormCarries(form, c) ==
    /\ form["client_id"] = c.client_id
    /\ form["client_secret"] = c.client_secret
    /\ form["client_assertion"] = Encoded[c.assertion]
    /\ form["client_assertion_type"] = IF c.assertion = "" THEN "" ELSE c.assertion_type

LEMMA FormsCarry ==
    /\ \A c \in Credentials : FormCarries(CredentialForm(c), c)
    /\ \A a \in TokenRequests : FormCarries(FormOf(a), a.credentials)
<1>1. \A c \in Credentials : FormCarries(CredentialForm(c), c)
  BY CredentialFormIs DEF FormCarries
<1>2. ASSUME NEW a \in TokenRequests PROVE FormCarries(FormOf(a), a.credentials)
  <2> DEFINE own == FieldsWritten(a.grant_type)
             names == {"client_id", "client_secret", "client_assertion", "client_assertion_type"}
  <2>1. own \subseteq GrantFields
    BY FieldsWrittenAreGrantFields
  <2>2. \A f \in names : f \in FormFields /\ f \notin GrantFields /\ f # "grant_type"
    BY DEF FormFields, GrantFields
  <2> HIDE DEF own
  <2>3. \A f \in names : FormOf(a)[f] = CredentialForm(a.credentials)[f]
    BY <2>1, <2>2 DEF FormOf, own
  <2>4. a.credentials \in Credentials
    BY DEF TokenRequests
  <2>5. FormCarries(CredentialForm(a.credentials), a.credentials)
    BY <1>1, <2>4
  <2> QED
    BY <2>3, <2>5 DEF FormCarries
<1> QED
  BY <1>1, <1>2

LEMMA FieldsReadBack ==
    ASSUME NEW a \in TokenRequests
    PROVE  /\ FormOf(a)["grant_type"] = a.grant_type
           /\ [f \in GrantFields |-> IF f \in FieldsRead(a.grant_type) THEN FormOf(a)[f] ELSE ""]
                  = FieldsOf(a)
           /\ \A f \in GrantFields \cap FieldsRead(a.grant_type) : FormOf(a)[f] = FieldsOf(a)[f]
<1> DEFINE fields == FieldsRead(a.grant_type)
           text(f) == IF f \in TokenFields THEN Encoded[a.fields[f]] ELSE a.fields[f]
<1>1. /\ a.grant_type \in Text /\ a.credentials \in Credentials
      /\ a.fields \in [GrantFields -> Text] /\ Encoded[""] = ""
  BY TextAssumption, EncoderAssumption DEF TokenRequests
<1>2. FieldsWritten(a.grant_type) = fields
  BY FieldsWrittenAreGrantFields
<1>3. /\ "grant_type" \in FormFields
      /\ \A f \in GrantFields : f \in FormFields /\ f # "grant_type"
  BY DEF FormFields, GrantFields
<1>4. \A f \in GrantFields : CredentialForm(a.credentials)[f] = ""
  BY <1>1, CredentialFormIs
<1>5. FormOf(a)["grant_type"] = a.grant_type
  BY <1>3 DEF FormOf
<1>6. \A f \in GrantFields : a.grant_type \in UsedBy[f] <=> f \in fields
  BY DEF UsedBy, FieldsRead, GrantFields
<1> HIDE DEF fields
<1>7. ASSUME NEW f \in GrantFields, f \in fields PROVE FormOf(a)[f] = text(f)
  <2>1. FormOf(a)[f] = IF a.fields[f] # "" THEN text(f) ELSE ""
    BY <1>2, <1>3, <1>4, <1>7 DEF FormOf
  <2>2. a.fields[f] = "" => text(f) = ""
    BY <1>1
  <2> QED
    BY <2>1, <2>2
<1>8. \A f \in GrantFields : FieldsOf(a)[f] = IF f \in fields THEN text(f) ELSE ""
  BY <1>6 DEF FieldsOf
<1>9. FieldsOf(a) = [f \in GrantFields |-> IF f \in fields THEN text(f) ELSE ""]
  BY <1>6 DEF FieldsOf
<1> HIDE DEF text
<1>10. [f \in GrantFields |-> IF f \in fields THEN FormOf(a)[f] ELSE ""] = FieldsOf(a)
  BY <1>7, <1>9
<1> QED
  BY <1>5, <1>7, <1>8, <1>10 DEF fields

LEMMA ProofsCounted ==
    ASSUME NEW c
    PROVE  /\ c.client_secret = "" /\ c.assertion = "" =>
                Proofs(c) = {} /\ Cardinality(Proofs(c)) = 0
           /\ c.client_secret # "" /\ c.assertion = "" =>
                Proofs(c) = {"client_secret"} /\ Cardinality(Proofs(c)) = 1
           /\ c.client_secret = "" /\ c.assertion # "" =>
                Proofs(c) = {"assertion"} /\ Cardinality(Proofs(c)) = 1
           /\ c.client_secret # "" /\ c.assertion # "" =>
                Proofs(c) = {"client_secret", "assertion"} /\ Cardinality(Proofs(c)) = 2
<1>1. /\ Cardinality({}) = 0 /\ Cardinality({"client_secret"}) = 1
      /\ Cardinality({"assertion"}) = 1 /\ IsFiniteSet({"assertion"})
  BY FS_EmptySet, FS_Singleton
<1>2. Cardinality({"client_secret", "assertion"}) = 2
  <2>1. Cardinality({"assertion"} \cup {"client_secret"}) = 1 + 1
    BY <1>1, FS_AddElement
  <2>2. {"assertion"} \cup {"client_secret"} = {"client_secret", "assertion"}
    OBVIOUS
  <2> QED
    BY <2>1, <2>2
<1>3. /\ c.client_secret = "" /\ c.assertion = "" => Proofs(c) = {}
      /\ c.client_secret # "" /\ c.assertion = "" => Proofs(c) = {"client_secret"}
      /\ c.client_secret = "" /\ c.assertion # "" => Proofs(c) = {"assertion"}
      /\ c.client_secret # "" /\ c.assertion # "" => Proofs(c) = {"client_secret", "assertion"}
  BY DEF Proofs
<1> QED
  BY <1>1, <1>2, <1>3, Zenon

LEMMA MethodsOfACarrier ==
    ASSUME NEW http \in HTTPRequests, NEW c \in Credentials, FormCarries(http.form, c)
    PROVE  \A m : m \in PresentedMethods(http) <=>
               \/ m = "client_secret_basic" /\ http.basic.set
               \/ m = "client_secret_post" /\ c.client_secret # ""
               \/ m = "private_key_jwt" /\ c.assertion # ""
<1>1. Encoded[c.assertion] = "" <=> c.assertion = ""
  BY EncoderAssumption DEF Credentials
<1> QED
  BY <1>1 DEF FormCarries, PresentedMethods, ClientAuthMethods

LEMMA TwoProofsRefused ==
    ASSUME NEW http \in HTTPRequests, http.parses, NEW c \in Credentials,
           FormCarries(http.form, c),
           Cardinality(Proofs(c)) + (IF http.basic.set THEN 1 ELSE 0) > 1
    PROVE  /\ ReadClientCredentials(http).err = {"Unauthenticated"}
           /\ ReadTokenRequest(http).err = {"Unauthenticated"}
<1> DEFINE presented == PresentedMethods(http)
           credentials == ReadClientCredentials(http)
<1>1. \E m, n \in presented : m # n
  <2>1. \/ http.basic.set /\ c.client_secret # ""
        \/ http.basic.set /\ c.assertion # ""
        \/ c.client_secret # "" /\ c.assertion # ""
    <3> DEFINE n == Cardinality(Proofs(c))
    <3>1. /\ c.client_secret = "" /\ c.assertion = "" => n = 0
          /\ ~(c.client_secret # "" /\ c.assertion # "") => n = 0 \/ n = 1
      BY ProofsCounted, Zenon
    <3> HIDE DEF n
    <3>2. n + (IF http.basic.set THEN 1 ELSE 0) > 1
      BY DEF n
    <3>3. CASE http.basic.set
      <4>1. n # 0
        BY <3>2, <3>3
      <4> QED
        BY <3>1, <3>3, <4>1
    <3>4. CASE ~http.basic.set
      <4>1. n # 0 /\ n # 1
        BY <3>2, <3>4
      <4> QED
        BY <3>1, <4>1
    <3> QED
      BY <3>3, <3>4
  <2>2. /\ http.basic.set => "client_secret_basic" \in presented
        /\ c.client_secret # "" => "client_secret_post" \in presented
        /\ c.assertion # "" => "private_key_jwt" \in presented
    BY MethodsOfACarrier
  <2> HIDE DEF presented
  <2> QED
    BY <2>1, <2>2
<1>2. presented # {}
  BY <1>1
<1> HIDE DEF presented
<1>3. ClientAuthMethod(http) = Failure({"Unauthenticated"}, "")
  BY <1>1, <1>2 DEF ClientAuthMethod, presented
<1>4. credentials.err = {"Unauthenticated"}
  <2>1. /\ Failure({"Unauthenticated"}, "").err = {"Unauthenticated"}
        /\ Failure({"Unauthenticated"}, NoCredentials).err = {"Unauthenticated"}
        /\ {"Unauthenticated"} # NoError
    BY DEF Failure, NoError
  <2>2. credentials = Failure({"Unauthenticated"}, NoCredentials)
    BY <1>3, <2>1, Zenon DEF ReadClientCredentials
  <2> QED
    BY <2>1, <2>2
<1> HIDE DEF credentials
<1>5. {"Unauthenticated"} # NoError /\ "NotApplicable" \notin {"Unauthenticated"}
  BY DEF NoError
<1>6. ReadTokenRequest(http) = Failure(credentials.err, EmptyRequest)
  BY <1>4, <1>5, Zenon DEF ReadTokenRequest, credentials
<1> QED
  BY <1>4, <1>6 DEF Failure, credentials

LEMMA OneProofReadBack ==
    ASSUME NEW http \in HTTPRequests, http.parses, ~http.basic.set, NEW c \in Credentials,
           FormCarries(http.form, c), ~(Cardinality(Proofs(c)) > 1),
           DecodeFault[Encoded[c.assertion]] = NoError
    PROVE  /\ ReadClientCredentials(http).value = CredentialsOf(c)
           /\ ReadClientCredentials(http).err # NoError =>
                "NotApplicable" \in ReadClientCredentials(http).err
<1> DEFINE presented == PresentedMethods(http)
           method == ClientAuthMethod(http)
           posted == [NoCredentials EXCEPT !.auth_method = method.value,
                                           !.client_id = http.form["client_id"]]
           viaBasic == [NoCredentials EXCEPT !.auth_method = method.value,
                                             !.client_id = http.basic.id,
                                             !.client_secret = http.basic.secret]
           viaPost == [posted EXCEPT !.client_secret = http.form["client_secret"]]
           viaJwt == [posted EXCEPT !.assertion_type = http.form["client_assertion_type"],
                                    !.assertion = http.form["client_assertion"]]
<1>1. ReadClientCredentials(http) =
        IF method.err # NoError THEN Failure(method.err, NoCredentials)
        ELSE IF method.value = "client_secret_basic"
        THEN IF http.basic.escaped THEN Success(viaBasic)
             ELSE Failure({"Malformed"}, NoCredentials)
        ELSE IF method.value = "client_secret_post" THEN Success(viaPost)
        ELSE IF DecodeFault[http.form["client_assertion"]] # NoError
        THEN Failure(NewErrorCategory("Malformed", DecodeFault[http.form["client_assertion"]]),
                     NoCredentials)
        ELSE Success(viaJwt)
  BY Zenon DEF ReadClientCredentials
<1>2. method = IF presented = {} THEN Failure({"NotApplicable"}, "")
               ELSE IF \E m, n \in presented : m # n THEN Failure({"Unauthenticated"}, "")
               ELSE Success(CHOOSE m \in presented : TRUE)
  BY Zenon DEF ClientAuthMethod
<1>3. /\ http.form["client_id"] = c.client_id /\ http.form["client_secret"] = c.client_secret
      /\ http.form["client_assertion"] = Encoded[c.assertion]
      /\ c.assertion # "" => http.form["client_assertion_type"] = c.assertion_type
  BY DEF FormCarries
<1>4. \A m : m \in presented <=> \/ m = "client_secret_post" /\ c.client_secret # ""
                                 \/ m = "private_key_jwt" /\ c.assertion # ""
  BY MethodsOfACarrier
<1>5. \A m : {m} # {} /\ (\A k, n \in {m} : k = n) /\ (CHOOSE k \in {m} : TRUE) = m
  OBVIOUS
<1> HIDE DEF presented
<1>6. \A e, v : Failure(e, v).value = v /\ Success(v).value = v /\ Failure(e, v).err = e
               /\ Success(v).err = NoError
  BY DEF Failure, Success
<1>7. CASE c.client_secret = "" /\ c.assertion = ""
  <2>1. presented = {}
    BY <1>4, <1>7
  <2>2. method = Failure({"NotApplicable"}, "")
    BY <1>2, <2>1
  <2>3. {"NotApplicable"} # NoError
    BY DEF NoError
  <2> HIDE DEF method
  <2>4. ReadClientCredentials(http) = Failure({"NotApplicable"}, NoCredentials)
    BY <1>1, <1>6, <2>2, <2>3
  <2>5. Proofs(c) = {}
    BY <1>7, ProofsCounted
  <2>6. CredentialsOf(c) = NoCredentials
    BY <2>5 DEF CredentialsOf
  <2> QED
    BY <1>6, <2>4, <2>6
<1>8. CASE c.client_secret # "" /\ c.assertion = ""
  <2>1. presented = {"client_secret_post"}
    BY <1>4, <1>8
  <2>2. method = Success("client_secret_post")
    BY <1>2, <1>5, <2>1
  <2>3. method.value = "client_secret_post" /\ method.err = NoError
    BY <1>6, <2>2
  <2>4. ReadClientCredentials(http) = Success(viaPost)
    <3> HIDE DEF method, viaPost, viaBasic, viaJwt
    <3> QED
      BY <1>1, <2>3
  <2>5. Proofs(c) = {"client_secret"} /\ Proofs(c) # {}
    BY <1>8, ProofsCounted
  <2> HIDE DEF method
  <2>6. viaPost = CredentialsOf(c)
    BY <1>3, <2>3, <2>5 DEF CredentialsOf, NoCredentials
  <2> HIDE DEF viaPost
  <2> QED
    BY <1>6, <2>4, <2>6
<1>9. CASE c.client_secret = "" /\ c.assertion # ""
  <2>1. presented = {"private_key_jwt"}
    BY <1>4, <1>9
  <2>2. method = Success("private_key_jwt")
    BY <1>2, <1>5, <2>1
  <2>3. method.value = "private_key_jwt" /\ method.err = NoError
    BY <1>6, <2>2
  <2>4. ReadClientCredentials(http) = Success(viaJwt)
    <3> HIDE DEF method, viaPost, viaBasic, viaJwt
    <3> QED
      BY <1>1, <1>3, <2>3
  <2>5. Proofs(c) # {"client_secret"} /\ Proofs(c) # {}
    BY <1>9, ProofsCounted
  <2> HIDE DEF method
  <2>6. viaJwt = CredentialsOf(c)
    BY <1>3, <1>9, <2>3, <2>5 DEF CredentialsOf, NoCredentials
  <2> HIDE DEF viaJwt
  <2> QED
    BY <1>6, <2>4, <2>6
<1>10. ~(c.client_secret # "" /\ c.assertion # "")
  <2>1. 2 > 1
    OBVIOUS
  <2> QED
    BY <2>1, ProofsCounted, Zenon
<1> QED
  BY <1>7, <1>8, <1>9, <1>10

LEMMA ReadsWhatWasWritten ==
    ASSUME NEW http \in HTTPRequests, http.parses, NEW a \in TokenRequests,
           http.form = FormOf(a), Decodable(a)
    PROVE  IF Cardinality(Proofs(a.credentials)) + (IF http.basic.set THEN 1 ELSE 0) > 1
           THEN ReadTokenRequest(http).err = {"Unauthenticated"}
           ELSE ~http.basic.set =>
                   ReadTokenRequest(http) =
                       Success([grant_type |-> a.grant_type,
                                credentials |-> CredentialsOf(a.credentials),
                                fields |-> FieldsOf(a)])
<1> DEFINE c == a.credentials
<1>1. c \in Credentials /\ FormCarries(http.form, c) /\ a.fields \in [GrantFields -> Text]
  BY FormsCarry DEF TokenRequests
<1>2. CASE Cardinality(Proofs(c)) + (IF http.basic.set THEN 1 ELSE 0) > 1
  BY <1>1, <1>2, TwoProofsRefused
<1>3. CASE ~(Cardinality(Proofs(c)) + (IF http.basic.set THEN 1 ELSE 0) > 1) /\ ~http.basic.set
  <2> DEFINE fields == FieldsRead(a.grant_type)
             credentials == ReadClientCredentials(http)
             faults == {DecodeFault[http.form[f]] :
                            f \in {t \in TokenFields \cap fields : http.form[t] # ""}}
  <2>1. ~(Cardinality(Proofs(c)) > 1)
    <3>1. Cardinality(Proofs(c)) \in {0, 1, 2}
      BY ProofsCounted, Zenon
    <3> QED
      BY <1>3, <3>1
  <2>2. DecodeFault[Encoded[c.assertion]] = NoError
    BY DEF Decodable
  <2>3. /\ credentials.value = CredentialsOf(c)
        /\ credentials.err # NoError => "NotApplicable" \in credentials.err
    BY <1>1, <1>3, <2>1, <2>2, OneProofReadBack
  <2>4. /\ http.form["grant_type"] = a.grant_type
        /\ [f \in GrantFields |-> IF f \in fields THEN http.form[f] ELSE ""] = FieldsOf(a)
        /\ \A f \in GrantFields \cap fields : http.form[f] = FieldsOf(a)[f]
    BY FieldsReadBack
  <2>5. \A f \in TokenFields \cap fields : DecodeFault[http.form[f]] = NoError
    <3>1. \A f \in TokenFields : f \in GrantFields
      BY DEF TokenFields, GrantFields
    <3>2. \A f \in GrantFields : a.grant_type \in UsedBy[f] <=> f \in fields
      BY DEF UsedBy, FieldsRead, GrantFields
    <3> HIDE DEF fields
    <3>3. \A f \in TokenFields \cap fields : http.form[f] = Encoded[a.fields[f]]
      BY <2>4, <3>1, <3>2 DEF FieldsOf
    <3>4. \A f \in TokenFields : DecodeFault[Encoded[a.fields[f]]] = NoError
      BY DEF TokenFields, Decodable
    <3> QED
      BY <3>3, <3>4
  <2>6. UNION faults = NoError
    BY <2>5 DEF NoError
  <2>7. ReadTokenRequest(http) =
          IF ~http.parses THEN Failure({"Malformed"}, EmptyRequest)
          ELSE IF credentials.err # NoError /\ "NotApplicable" \notin credentials.err
          THEN Failure(credentials.err, EmptyRequest)
          ELSE IF UNION faults # NoError
          THEN Failure(NewErrorCategory("Malformed", UNION faults), EmptyRequest)
          ELSE Success([grant_type |-> a.grant_type, credentials |-> credentials.value,
                        fields |-> [f \in GrantFields |->
                                       IF f \in fields THEN http.form[f] ELSE ""]])
    BY <2>4, Zenon DEF ReadTokenRequest
  <2> HIDE DEF credentials, faults, fields
  <2>8. ReadTokenRequest(http) =
          Success([grant_type |-> a.grant_type, credentials |-> credentials.value,
                   fields |-> [f \in GrantFields |-> IF f \in fields THEN http.form[f] ELSE ""]])
    BY <2>3, <2>6, <2>7, Zenon
  <2>9. ReadTokenRequest(http) =
          Success([grant_type |-> a.grant_type, credentials |-> CredentialsOf(c),
                   fields |-> FieldsOf(a)])
    BY <2>3, <2>4, <2>8, Zenon
  <2> QED
    BY <1>3, <2>9
<1> QED
  BY <1>2, <1>3

-----------------------------------------------------------------------------
(***************************************************************************)
(* A client that is vouched for showed its only proof along with its id    *)
(* (clientcredentials/authenticator.go, authenticate).                     *)
(***************************************************************************)
LEMMA PrincipalProved ==
    ASSUME NEW http \in HTTPRequests, NEW c \in Credentials, FormCarries(http.form, c),
           ValidateClientCredentials(ReadClientCredentials(http).value) = NoError
    PROVE  LET id == ReadClientCredentials(http).value.client_id IN
           IF http.basic.set
           THEN Proofs(c) = {} /\ id = http.basic.id /\ http.basic.secret # ""
           ELSE Cardinality(Proofs(c)) = 1 /\ id = c.client_id
<1> DEFINE id == ReadClientCredentials(http).value.client_id
<1>1. PICK m \in AllowedMethods : /\ PresentedMethods(http) = {m}
                                  /\ id = IdOf(http, m) /\ ProofOf(http, m) # ""
  BY CredentialsAreOfTheMethod
<1> HIDE DEF id
<1>2. /\ http.basic.set => "client_secret_basic" \in PresentedMethods(http)
      /\ c.client_secret # "" => "client_secret_post" \in PresentedMethods(http)
      /\ c.assertion # "" => "private_key_jwt" \in PresentedMethods(http)
      /\ m = "client_secret_basic" => http.basic.set
      /\ m = "client_secret_post" => c.client_secret # ""
      /\ m = "private_key_jwt" => c.assertion # ""
      /\ m \in {"client_secret_basic", "client_secret_post", "private_key_jwt"}
  BY <1>1, MethodsOfACarrier
<1>3. CASE http.basic.set
  <2>1. m = "client_secret_basic" /\ c.client_secret = "" /\ c.assertion = ""
    BY <1>1, <1>2, <1>3
  <2>2. Proofs(c) = {}
    BY <2>1, ProofsCounted
  <2>3. id = http.basic.id /\ http.basic.secret # ""
    BY <1>1, <2>1 DEF IdOf, ProofOf
  <2> QED
    BY <1>3, <2>2, <2>3 DEF id
<1>4. CASE ~http.basic.set
  <2>1. m # "client_secret_basic"
    BY <1>2, <1>4
  <2>2. \/ c.client_secret # "" /\ c.assertion = ""
        \/ c.client_secret = "" /\ c.assertion # ""
    BY <1>1, <1>2, <2>1
  <2>3. Cardinality(Proofs(c)) = 1
    BY <2>2, ProofsCounted
  <2>4. id = c.client_id
    BY <1>1, <2>1 DEF IdOf, FormCarries
  <2> QED
    BY <1>4, <2>3, <2>4 DEF id
<1> QED
  BY <1>3, <1>4

-----------------------------------------------------------------------------
(***************************************************************************)
(* The client's reading of a body (tokenresponse/reader.go, readArtifact;  *)
(* authenticator.go, authenticate: read, then validate).                   *)
(***************************************************************************)
LEMMA ReadResponseType ==
    ASSUME NEW documents \in Bodies, NEW broken \in BOOLEAN
    PROVE  /\ ReadResponse(documents, broken).err \in Errors
           /\ ReadResponse(documents, broken).value \in TokenResponses
<1>1. CASE ReadResponse(documents, broken) = Failure({"Malformed"}, EmptyResponse)
  <2>1. {"Malformed"} \in Errors
    BY DEF Errors, Categories
  <2> QED
    BY <1>1, <2>1, EmptyAnswers DEF Failure
<1>2. CASE ReadResponse(documents, broken) # Failure({"Malformed"}, EmptyResponse)
  <2>1. PICK d \in Documents : ReadResponse(documents, broken) = DecodeResponse(d.says)
    BY <1>2, ReadIsWhole
  <2>2. d.says \in Representations
    BY DEF Documents
  <2>3. DecodeResponse(d.says) \in [err : Errors, value : TokenResponses]
    BY <2>2, DecodedIsWhole
  <2> QED
    BY <2>1, <2>3
<1> QED
  BY <1>1, <1>2

(* The outcome of Receive *)
Outcome(documents, broken) ==
    LET read == ReadResponse(documents, broken)
        fault == IF read.err # NoError THEN read.err ELSE ValidateResponse(read.value)
    IN  IF fault = NoError THEN read ELSE Failure(fault, EmptyResponse)

(* The documents that may come where an answer says rep, and their bodies *)
Meant(rep) ==
    {d \in Documents : /\ d.what = "response" => d.says = rep
                       /\ d.what = "error" => d.says = EmptyRepresentation}

BodiesOf(D) == {<<>>} \cup {<<d>> : d \in D} \cup {<<d, e>> : d, e \in D}

LEMMA OutcomeType ==
    ASSUME NEW documents \in Bodies, NEW broken \in BOOLEAN
    PROVE  /\ Outcome(documents, broken).err \in Errors
           /\ Outcome(documents, broken).value \in TokenResponses
<1> DEFINE read == ReadResponse(documents, broken)
           fault == IF read.err # NoError THEN read.err ELSE ValidateResponse(read.value)
<1>1. read.err \in Errors /\ read.value \in TokenResponses
  BY ReadResponseType
<1>2. fault \in Errors
  BY <1>1, ValidatorFindsNothingWrong
<1>3. Outcome(documents, broken) = IF fault = NoError THEN read ELSE Failure(fault, EmptyResponse)
  BY Zenon DEF Outcome
<1> HIDE DEF read, fault
<1> QED
  BY <1>1, <1>2, <1>3, EmptyAnswers DEF Failure

LEMMA WhatIsAccepted ==
    ASSUME NEW rep \in Representations, NEW documents \in BodiesOf(Meant(rep)),
           NEW broken \in BOOLEAN, Outcome(documents, broken).err = NoError
    PROVE  /\ ~broken /\ MaxBodyBytes < Int64Max
           /\ \E d \in Meant(rep) : documents = <<d>> /\ d.what = "response"
           /\ Outcome(documents, broken) = Success(DecodedFrom(rep))
           /\ NothingWrong(DecodedFrom(rep)) /\ rep.tokens # NoTokenTexts
<1> DEFINE read == ReadResponse(documents, broken)
           fault == IF read.err # NoError THEN read.err ELSE ValidateResponse(read.value)
<1>1. documents \in Bodies
  BY DEF BodiesOf, Meant, Bodies
<1>2. Outcome(documents, broken) = IF fault = NoError THEN read ELSE Failure(fault, EmptyResponse)
  BY Zenon DEF Outcome
<1>3. read.err = NoError /\ ValidateResponse(read.value) = NoError
      /\ Outcome(documents, broken) = read
  <2> HIDE DEF fault
  <2>1. fault = NoError
    BY <1>2 DEF Failure
  <2> QED
    BY <1>2, <2>1 DEF fault
<1>4. Failure({"Malformed"}, EmptyResponse).err # NoError
  BY DEF Failure, NoError
<1>5. read # Failure({"Malformed"}, EmptyResponse)
  BY <1>3, <1>4
<1>6. PICK d \in Documents : documents = <<d>> /\ d.what # "part" /\ read = DecodeResponse(d.says)
  BY <1>1, <1>5, ReadIsWhole
<1>7. d \in Meant(rep)
  BY <1>6 DEF BodiesOf
<1>8. d.says \in Representations
  BY DEF Documents
<1> HIDE DEF read, fault
<1>9. DecodeResponse(d.says) = Success(DecodedFrom(d.says)) /\ d.says.tokens # NoTokenTexts
  BY <1>3, <1>6, <1>8, DecodedIsWhole
<1>10. d.what = "response" /\ d.says = rep
  <2>1. EmptyRepresentation.tokens = NoTokenTexts
    BY DEF EmptyRepresentation
  <2>2. d.what # "error"
    BY <1>7, <1>9, <2>1 DEF Meant
  <2> QED
    BY <1>6, <1>7, <2>2 DEF Meant, Documents
<1>11. read.value = DecodedFrom(rep) /\ read = Success(DecodedFrom(rep))
  BY <1>6, <1>9, <1>10 DEF Success
<1>12. ~broken /\ MaxBodyBytes < Int64Max
  BY <1>1, <1>5, ReadIsWhole DEF read
<1>13. read.value \in TokenResponses
  BY <1>1, ReadResponseType DEF read
<1>14. NothingWrong(DecodedFrom(rep))
  BY <1>3, <1>11, <1>13, ValidatorFindsNothingWrong
<1> QED
  BY <1>3, <1>6, <1>7, <1>9, <1>10, <1>11, <1>12, <1>14

LEMMA WhatMustBeAccepted ==
    ASSUME NEW rep \in Representations, NEW d \in Documents, d.what = "response", d.says = rep,
           MaxBodyBytes < Int64Max, d.bytes <= MaxBodyBytes, d.bytes <= MaxPayloadBytes,
           rep.tokens # NoTokenTexts, NothingWrong(DecodedFrom(rep)),
           \A k \in TokenKinds : DecodeFault[rep.tokens[k]] = NoError
    PROVE  Outcome(<<d>>, FALSE) = Success(DecodedFrom(rep))
<1> DEFINE read == ReadResponse(<<d>>, FALSE)
<1>1. read = DecodeResponse(rep)
  BY WholeIsRead
<1>2. DecodeResponse(rep) = Success(DecodedFrom(rep))
      /\ DecodeResponse(rep).value \in TokenResponses
  BY DecodedIsWhole
<1> HIDE DEF read
<1>3. read.err = NoError /\ read.value = DecodedFrom(rep) /\ DecodedFrom(rep) \in TokenResponses
  BY <1>1, <1>2 DEF Success
<1>4. ValidateResponse(read.value) = NoError
  BY <1>3, ValidatorFindsNothingWrong
<1> QED
  BY <1>1, <1>2, <1>3, <1>4, Zenon DEF Outcome, read

(***************************************************************************)
(* What a server's writer leaves of its answer on the way                  *)
(* (tokenresponse/writer.go, writeArtifact; tokenendpoint/endpoint.go,     *)
(* handleError).                                                           *)
(***************************************************************************)
LEMMA DeliveredInTwo ==
    ASSUME NEW d, NEW documents \in Deliveries(d), documents # <<d>>
    PROVE  \E before \in {<<>>, <<d>>} \cup {<<PartOf(d, n)>> : n \in 1 .. d.bytes - 1} :
           \E after \in {<<>>, <<ErrorDocument>>, <<PartOf(ErrorDocument, 1)>>} :
               documents = before \o after
BY SMT DEF Deliveries

LEMMA WhatIsDelivered ==
    ASSUME NEW rep, NEW document \in Meant(rep), NEW documents \in Deliveries(document)
    PROVE  documents \in BodiesOf(Meant(rep))
<1>1. ErrorBytes \in Nat
  BY Zenon, SessionAssumption
<1>2. ErrorDocument \in Meant(rep)
  BY <1>1, EmptyAnswers DEF Meant, Documents, ErrorDocument
<1>3. ASSUME NEW d, NEW n \in Nat PROVE PartOf(d, n) \in Meant(rep)
  BY EmptyAnswers DEF Meant, Documents, PartOf
<1>4. \A n \in 1 .. document.bytes - 1 : PartOf(document, n) \in Meant(rep)
  BY <1>3
<1>5. PartOf(ErrorDocument, 1) \in Meant(rep)
  BY <1>3
<1>6. \A d \in Meant(rep) : <<d>> \in BodiesOf(Meant(rep))
  BY DEF BodiesOf
<1>7. CASE documents = <<document>>
  BY <1>6, <1>7
<1>8. ASSUME NEW before \in {<<>>} \cup {<<d>> : d \in Meant(rep)},
             NEW after \in {<<>>} \cup {<<d>> : d \in Meant(rep)}
      PROVE  before \o after \in BodiesOf(Meant(rep))
  <2>1. before = <<>> \/ \E d \in Meant(rep) : before = <<d>>
    OBVIOUS
  <2>2. after = <<>> \/ \E d \in Meant(rep) : after = <<d>>
    OBVIOUS
  <2>3. after \in Seq(Meant(rep)) /\ before \in Seq(Meant(rep))
    <3>1. <<>> \in Seq(Meant(rep)) /\ \A d \in Meant(rep) : <<d>> \in Seq(Meant(rep))
      OBVIOUS
    <3> QED
      BY <2>1, <2>2, <3>1
  <2>4. CASE before = <<>>
    <3>1. before \o after = after
      BY <2>3, <2>4, ConcatEmptySeq
    <3> QED
      BY <2>2, <3>1 DEF BodiesOf
  <2>5. CASE after = <<>>
    <3>1. before \o after = before
      BY <2>3, <2>5, ConcatEmptySeq
    <3> QED
      BY <2>1, <3>1 DEF BodiesOf
  <2>6. ASSUME NEW d \in Meant(rep), NEW e \in Meant(rep), before = <<d>>, after = <<e>>
        PROVE  before \o after \in BodiesOf(Meant(rep))
    <3>1. before \o after = <<d, e>>
      BY <2>6, AppendedToOne
    <3> QED
      BY <3>1 DEF BodiesOf
  <2> QED
    BY <2>1, <2>2, <2>4, <2>5, <2>6
<1>9. CASE documents # <<document>>
  <2> DEFINE Before == {<<>>, <<document>>} \cup
                       {<<PartOf(document, n)>> : n \in 1 .. document.bytes - 1}
             After == {<<>>, <<ErrorDocument>>, <<PartOf(ErrorDocument, 1)>>}
  <2>1. \E before \in Before : \E after \in After : documents = before \o after
    BY <1>9, DeliveredInTwo
  <2>2. PICK before \in Before : \E after \in After : documents = before \o after
    BY <2>1
  <2>3. PICK after \in After : documents = before \o after
    BY <2>2
  <2>4. before \in {<<>>} \cup {<<d>> : d \in Meant(rep)}
    BY <1>4
  <2>5. after \in {<<>>} \cup {<<d>> : d \in Meant(rep)}
    BY <1>2, <1>5
  <2> QED
    BY <1>8, <2>3, <2>4, <2>5
<1> QED
  BY <1>7, <1>9

-----------------------------------------------------------------------------
(***************************************************************************)
(* The invariant.  What the carrier holds is what the last WriteArtifact   *)
(* that succeeded put there, until it is sent; an answer is that of the    *)
(* response it was encoded from, and so is the body that arrives.          *)
(***************************************************************************)
CarrierIsAsWritten ==
    /\ carrier.parses
    /\ pc = "request" => carrier.form = FormOf(written)
    /\ pc = "credentials" => carrier.form = CredentialForm(written.credentials)
    /\ pc = "serve" => seen = ReadTokenRequest(WithBody(carrier, FormOf(written)))

AnswerIsOfTheResponse ==
    /\ pc \in {"request", "credentials", "serve"} => response = EmptyResponse
    /\ pc \in {"request", "credentials", "serve", "deliver"} => body = NoBody
    /\ sent \in Representations
    /\ response # EmptyResponse => EncodeResponse(response) = Success(sent)
    /\ body.documents \in BodiesOf(Meant(sent)) /\ body.broken \in BOOLEAN
    /\ pc = "received" => got = Outcome(body.documents, body.broken)

SessionInv == TypeOK /\ CarrierIsAsWritten /\ AnswerIsOfTheResponse /\ PrincipalHasTheProof

LEMMA EmptyBody ==
    ASSUME NEW rep
    PROVE  NoBody.documents \in BodiesOf(Meant(rep)) /\ NoBody.broken \in BOOLEAN
BY DEF NoBody, BodiesOf

LEMMA NothingYet ==
    /\ NotRead.err \in Errors /\ NotRead.value \in TokenRequests
    /\ NotAsked.err \in Errors \ {NoError} /\ NotAsked.value \in Text
    /\ NotReceived.err \in Errors /\ NotReceived.value \in TokenResponses
    /\ EmptyRequest \in TokenRequests /\ "" \in Text /\ NoForm \in [FormFields -> Text]
<1>1. /\ {"uncategorised"} \in Errors \ {NoError} /\ "" \in Text
      /\ NoForm \in [FormFields -> Text]
  BY TextAssumption DEF Errors, Categories, NoError, NoForm
<1>2. EmptyRequest \in TokenRequests
  <2>1. NoCredentials \in Credentials
    BY <1>1 DEF NoCredentials, Credentials
  <2> QED
    BY <1>1, <2>1 DEF EmptyRequest, TokenRequests
<1> QED
  BY <1>1, <1>2, EmptyAnswers DEF NotRead, NotAsked, NotReceived, Failure

LEMMA SessionInit == Init => SessionInv
<1> SUFFICES ASSUME Init PROVE SessionInv
  OBVIOUS
<1>1. Headers \subseteq BasicHeaders /\ 0 \in 0 .. MaxWrites
  <2>1. Headers \subseteq BasicHeaders
    BY Zenon, SessionAssumption
  <2>2. MaxWrites \in Nat
    BY Zenon, SessionAssumption
  <2>3. 0 \in 0 .. MaxWrites
    BY <2>2
  <2> QED
    BY <2>1, <2>3
<1> USE DEF Init
<1>2. carrier \in HTTPRequests /\ carrier.parses
  BY <1>1, NothingYet DEF HTTPRequests
<1>3. TypeOK
  BY <1>1, <1>2, NothingYet, EmptyAnswers DEF TypeOK
<1>4. CarrierIsAsWritten
  BY <1>2 DEF CarrierIsAsWritten
<1>5. AnswerIsOfTheResponse
  BY EmptyBody, EmptyAnswers DEF AnswerIsOfTheResponse
<1>6. PrincipalHasTheProof
  BY NothingYet DEF PrincipalHasTheProof
<1> QED
  BY <1>3, <1>4, <1>5, <1>6 DEF SessionInv

(***************************************************************************)
(* The application writes: a writer that fails may leave the old body, an  *)
(* empty one, or the whole of the new one.                                 *)
(***************************************************************************)
LEMMA WritingKeeps ==
    ASSUME SessionInv, NEW result, NEW artifact \in TokenRequests,
           NEW next \in {"request", "credentials"},
           Written(result, artifact, next),
           result.err \in Errors, result.carrier \in HTTPRequests, result.carrier.parses,
           result.err = NoError /\ next = "request" => result.carrier.form = FormOf(artifact),
           result.err = NoError /\ next = "credentials" =>
               result.carrier.form = CredentialForm(artifact.credentials)
    PROVE  SessionInv'
<1> USE DEF Written
<1>1. /\ carrier' = result.carrier /\ seen' = NotRead /\ principal' = NotAsked
      /\ got' = NotReceived /\ response' = EmptyResponse /\ sent' = EmptyRepresentation
      /\ body' = NoBody /\ held' = held /\ handed' = handed /\ writes' = writes + 1
  OBVIOUS
<1>2. \/ result.err = NoError /\ written' = artifact /\ pc' = next
      \/ result.err # NoError /\ written' = EmptyRequest /\ pc' = "idle"
  OBVIOUS
<1>3. writes' \in 0 .. MaxWrites
  <2>1. MaxWrites \in Nat /\ writes \in 0 .. MaxWrites
    BY Zenon, SessionAssumption DEF SessionInv, TypeOK
  <2> QED
    BY <2>1
<1> USE DEF SessionInv
<1>4. TypeOK'
  BY <1>1, <1>2, <1>3, NothingYet, EmptyAnswers DEF TypeOK
<1>5. CarrierIsAsWritten'
  BY <1>1, <1>2 DEF CarrierIsAsWritten
<1>6. AnswerIsOfTheResponse'
  BY <1>1, <1>2, EmptyBody, EmptyAnswers DEF AnswerIsOfTheResponse
<1>7. PrincipalHasTheProof'
  BY <1>1, NothingYet DEF PrincipalHasTheProof
<1> QED
  BY <1>4, <1>5, <1>6, <1>7

LEMMA WriteRequestKeeps == SessionInv /\ WriteRequest => SessionInv'
<1> SUFFICES ASSUME SessionInv, WriteRequest PROVE SessionInv'
  OBVIOUS
<1>1. PICK a \in Artifacts \cup (IF held = "" THEN {} ELSE {Refreshing}) :
          Written(WriteTokenRequest(carrier, a), a, "request")
  BY DEF WriteRequest
<1>2. carrier \in HTTPRequests /\ carrier.parses /\ held \in Text
  BY DEF SessionInv, TypeOK, CarrierIsAsWritten
<1>3. Artifacts \subseteq TokenRequests /\ ClientOf \in Credentials
  BY Zenon, SessionAssumption
<1>4. Refreshing \in TokenRequests
  <2>1. GrantTypes \subseteq Text
    BY Zenon, GrantAssumption
  <2>2. "refresh_token" \in Text
    BY <2>1 DEF GrantTypes
  <2> QED
    BY <1>2, <1>3, <2>2, NothingYet DEF Refreshing, EmptyRequest, TokenRequests
<1>5. a \in TokenRequests
  BY <1>1, <1>3, <1>4
<1> DEFINE result == WriteTokenRequest(carrier, a)
<1>6. /\ result.err \in Errors
      /\ result.err # NoError =>
            result.carrier = carrier \/ result.carrier = WithBody(carrier, NoForm)
      /\ result.err = NoError => result.carrier = WithBody(carrier, FormOf(a))
  BY <1>2, <1>5, RequestWritten
<1>7. /\ WithBody(carrier, NoForm) \in HTTPRequests /\ WithBody(carrier, NoForm).parses
      /\ WithBody(carrier, FormOf(a)) \in HTTPRequests /\ WithBody(carrier, FormOf(a)).parses
      /\ WithBody(carrier, FormOf(a)).form = FormOf(a)
  BY <1>2, <1>5, BodyReplaced, FormIsOfTexts, NothingYet
<1>8. Written(result, a, "request")
  BY <1>1
<1> HIDE DEF result
<1> QED
  BY <1>2, <1>5, <1>6, <1>7, <1>8, WritingKeeps

LEMMA WriteCredentialsKeeps == SessionInv /\ WriteCredentials => SessionInv'
<1> SUFFICES ASSUME SessionInv, WriteCredentials PROVE SessionInv'
  OBVIOUS
<1>1. PICK a \in Artifacts :
          Written(WriteClientCredentials(carrier, a.credentials),
                  [EmptyRequest EXCEPT !.credentials = a.credentials], "credentials")
  BY DEF WriteCredentials
<1>2. carrier \in HTTPRequests /\ carrier.parses
  BY DEF SessionInv, TypeOK, CarrierIsAsWritten
<1>3. a.credentials \in Credentials
  <2>1. Artifacts \subseteq TokenRequests
    BY Zenon, SessionAssumption
  <2> QED
    BY <2>1 DEF TokenRequests
<1> DEFINE result == WriteClientCredentials(carrier, a.credentials)
           artifact == [EmptyRequest EXCEPT !.credentials = a.credentials]
<1>4. artifact \in TokenRequests /\ artifact.credentials = a.credentials
  BY <1>3, NothingYet DEF EmptyRequest, TokenRequests
<1>5. /\ result.err \in Errors
      /\ result.err # NoError => result.carrier = carrier
      /\ result.err = NoError => result.carrier = WithBody(carrier, CredentialForm(a.credentials))
  BY <1>2, <1>3, CredentialsWritten
<1>6. CredentialForm(a.credentials) \in [FormFields -> Text]
  BY <1>3, CredentialFormIs
<1>7. LET http == WithBody(carrier, CredentialForm(a.credentials)) IN
      http \in HTTPRequests /\ http.parses /\ http.form = CredentialForm(a.credentials)
  BY <1>2, <1>6, BodyReplaced
<1>8. Written(result, artifact, "credentials")
  BY <1>1
<1> HIDE DEF result, artifact
<1> QED
  BY <1>2, <1>4, <1>5, <1>7, <1>8, WritingKeeps

(***************************************************************************)
(* net/http takes the body out of the carrier and leaves its header.       *)
(***************************************************************************)
LEMMA Drained ==
    ASSUME SessionInv, Drain
    PROVE  /\ carrier' \in HTTPRequests /\ carrier'.parses
           /\ carrier'.basic = carrier.basic
           /\ \A form \in [FormFields -> Text] : carrier.form = form =>
                  WithBody(carrier', form) = carrier
<1>1. carrier \in HTTPRequests /\ carrier.parses /\ carrier' = WithBody(carrier, NoForm)
  BY DEF SessionInv, TypeOK, CarrierIsAsWritten, Drain
<1>2. ASSUME NEW form \in [FormFields -> Text], carrier.form = form
      PROVE  WithBody(carrier', form) = carrier
  <2>1. WithBody(carrier', form) = WithBody(carrier, form)
    BY <1>1, BodyReplaced
  <2>2. WithBody(carrier, form) = carrier
    BY <1>1, <1>2 DEF WithBody, HTTPRequests
  <2> QED
    BY <2>1, <2>2
<1> QED
  BY <1>1, <1>2, BodyReplaced, NothingYet

LEMMA PrincipalKept ==
    ASSUME PrincipalHasTheProof, UNCHANGED <<written, principal>>,
           carrier'.basic = carrier.basic
    PROVE  PrincipalHasTheProof'
BY DEF PrincipalHasTheProof

LEMMA LoseKeeps == SessionInv /\ Lose => SessionInv'
<1> SUFFICES ASSUME SessionInv, Lose PROVE SessionInv'
  OBVIOUS
<1>1. /\ pc' = "idle" /\ (carrier' = carrier \/ Drain)
      /\ UNCHANGED <<written, writes, seen, principal, answer, got, held, handed>>
  BY DEF Lose
<1>2. carrier' \in HTTPRequests /\ carrier'.parses /\ carrier'.basic = carrier.basic
  BY <1>1, Drained DEF SessionInv, TypeOK, CarrierIsAsWritten
<1> USE <1>1, <1>2 DEF SessionInv, answer
<1>3. TypeOK'
  BY DEF TypeOK
<1>4. CarrierIsAsWritten'
  BY DEF CarrierIsAsWritten
<1>5. AnswerIsOfTheResponse'
  BY DEF AnswerIsOfTheResponse
<1>6. PrincipalHasTheProof'
  BY PrincipalKept
<1> QED
  BY <1>3, <1>4, <1>5, <1>6

LEMMA SendKeeps == SessionInv /\ Send => SessionInv'
<1> SUFFICES ASSUME SessionInv, Send PROVE SessionInv'
  OBVIOUS
<1>1. /\ pc = "request" /\ pc' = "serve" /\ Drain /\ seen' = ReadTokenRequest(carrier)
      /\ UNCHANGED <<written, writes, principal, answer, got, held, handed>>
  BY DEF Send
<1>2. /\ carrier \in HTTPRequests /\ carrier.form = FormOf(written)
      /\ written \in TokenRequests
  BY <1>1 DEF SessionInv, TypeOK, CarrierIsAsWritten
<1>3. FormOf(written) \in [FormFields -> Text]
  BY <1>2, FormIsOfTexts
<1>4. /\ carrier' \in HTTPRequests /\ carrier'.parses /\ carrier'.basic = carrier.basic
      /\ WithBody(carrier', FormOf(written)) = carrier
  BY <1>1, <1>2, <1>3, Drained
<1>5. seen'.err \in Errors /\ seen'.value \in TokenRequests
  BY <1>1, <1>2, ReadType
<1>6. FormOf(written)' = FormOf(written)
  BY <1>1 DEF FormOf
<1> USE <1>1 DEF SessionInv, answer
<1>7. TypeOK'
  BY <1>4, <1>5 DEF TypeOK
<1>8. CarrierIsAsWritten'
  BY <1>4 DEF CarrierIsAsWritten
<1>9. AnswerIsOfTheResponse'
  BY DEF AnswerIsOfTheResponse
<1>10. PrincipalHasTheProof'
  BY <1>4, PrincipalKept
<1> QED
  BY <1>7, <1>8, <1>9, <1>10

LEMMA AuthenticateKeeps == SessionInv /\ Authenticate => SessionInv'
<1> SUFFICES ASSUME SessionInv, Authenticate PROVE SessionInv'
  OBVIOUS
<1> DEFINE read == ReadClientCredentials(carrier)
           c == written.credentials
           refused == principal'.err \in Errors \ {NoError} /\ principal'.value \in Text
<1>1. /\ pc = "credentials" /\ pc' = "idle" /\ Drain
      /\ UNCHANGED <<written, writes, seen, answer, got, held, handed>>
  BY DEF Authenticate
<1>2. /\ carrier \in HTTPRequests /\ c \in Credentials
      /\ carrier.form = CredentialForm(c)
  BY <1>1 DEF SessionInv, TypeOK, CarrierIsAsWritten, TokenRequests
<1>3. read.err \in Errors /\ read.value \in Credentials
  BY <1>2, ReadCredentialsType
<1>4. ValidateClientCredentials(read.value) \in Errors
  BY <1>3, TextAssumption DEF ValidateClientCredentials, Credentials, Errors, Categories, NoError
<1>5. ClientErrors \subseteq Errors
  BY Zenon, SessionAssumption
<1>6. \A err \in Errors :
          /\ NewErrorCategory("Unauthenticated", err) \in Errors \ {NoError}
          /\ Failure(NewErrorCategory("Unauthenticated", err), "").err \in Errors \ {NoError}
          /\ Failure(NewErrorCategory("Unauthenticated", err), "").value \in Text
          /\ err # NoError => /\ Failure(err, "").err \in Errors \ {NoError}
                              /\ Failure(err, "").value \in Text
  BY NothingYet DEF NewErrorCategory, Failure, Errors, Categories, NoError
<1>7. {"Misconfigured"} \in Errors /\ NoError \in Errors
  BY DEF Errors, Categories, NoError
<1>8. \/ refused
      \/ /\ read.err = NoError /\ ValidateClientCredentials(read.value) = NoError
         /\ principal' = Success(read.value.client_id)
  <2> HIDE DEF read
  <2>1. \/ read.err # NoError /\ principal' = Failure(read.err, "")
        \/ read.err # NoError
           /\ principal' = Failure(NewErrorCategory("Unauthenticated", read.err), "")
        \/ principal' = Failure(NewErrorCategory("Unauthenticated",
                                                 ValidateClientCredentials(read.value)), "")
        \/ principal' = Failure(NewErrorCategory("Unauthenticated", {"Misconfigured"}), "")
        \/ \E err \in ClientErrors \cup {NoError} :
               principal' = Failure(NewErrorCategory("Unauthenticated", err), "")
        \/ /\ read.err = NoError /\ ValidateClientCredentials(read.value) = NoError
           /\ principal' = Success(read.value.client_id)
    BY Zenon DEF Authenticate, read
  <2> QED
    BY <1>3, <1>4, <1>5, <1>6, <1>7, <2>1
<1>9. /\ carrier' \in HTTPRequests /\ carrier'.parses /\ carrier'.basic = carrier.basic
  BY <1>1, Drained
<1>10. principal'.err \in Errors /\ principal'.value \in Text
  <2>1. Success(read.value.client_id).err = NoError
        /\ Success(read.value.client_id).value = read.value.client_id
    BY DEF Success
  <2>2. read.value.client_id \in Text
    BY <1>3 DEF Credentials
  <2> HIDE DEF read
  <2> QED
    BY <1>7, <1>8, <2>1, <2>2
<1>11. PrincipalHasTheProof'
  <2>1. CASE refused
    BY <2>1 DEF PrincipalHasTheProof
  <2>2. CASE /\ read.err = NoError /\ ValidateClientCredentials(read.value) = NoError
             /\ principal' = Success(read.value.client_id)
    <3>1. FormCarries(carrier.form, c)
      BY <1>2, FormsCarry
    <3>2. IF carrier.basic.set
          THEN Proofs(c) = {} /\ read.value.client_id = carrier.basic.id
               /\ carrier.basic.secret # ""
          ELSE Cardinality(Proofs(c)) = 1 /\ read.value.client_id = c.client_id
      BY <1>2, <2>2, <3>1, PrincipalProved
    <3>3. principal'.value = read.value.client_id
      BY <2>2 DEF Success
    <3>4. written' = written
      BY <1>1
    <3> HIDE DEF read
    <3> QED
      BY <1>9, <3>2, <3>3, <3>4 DEF PrincipalHasTheProof
  <2> QED
    BY <1>8, <2>1, <2>2
<1> HIDE DEF read, refused
<1> USE <1>1, <1>9, <1>10 DEF SessionInv, answer
<1>12. TypeOK'
  BY DEF TypeOK
<1>13. CarrierIsAsWritten'
  BY DEF CarrierIsAsWritten
<1>14. AnswerIsOfTheResponse'
  BY DEF AnswerIsOfTheResponse
<1> QED
  BY <1>11, <1>12, <1>13, <1>14

(***************************************************************************)
(* The server answers, another one does, or nobody is granted anything.    *)
(***************************************************************************)
LEMMA ServeKeeps == SessionInv /\ Serve => SessionInv'
<1> SUFFICES ASSUME SessionInv, Serve PROVE SessionInv'
  OBVIOUS
<1>1. /\ pc = "serve" /\ UNCHANGED <<request, seen, principal, got, held>>
      /\ response = EmptyResponse /\ body = NoBody /\ sent \in Representations
      /\ handed \subseteq Text \ {""}
  BY DEF Serve, SessionInv, AnswerIsOfTheResponse, TypeOK
<1>2. \/ RefuseRequest
      \/ \E r \in Responses : /\ EncodeResponse(r).err = NoError
                              /\ pc' = "deliver" /\ response' = r
                              /\ sent' = EncodeResponse(r).value
                              /\ handed' = (handed \cup {r.tokens["refresh_token"]}) \ {""}
                              /\ UNCHANGED body
      \/ AnswerOfAnother
  BY Zenon DEF Serve, Grant
<1> DEFINE Answered ==
        /\ pc' \in {"deliver", "receive"} /\ response' \in TokenResponses
        /\ handed' \subseteq Text \ {""} /\ sent' \in Representations
        /\ response' # EmptyResponse => EncodeResponse(response') = Success(sent')
        /\ body'.documents \in BodiesOf(Meant(sent')) /\ body'.broken \in BOOLEAN
        /\ pc' = "deliver" => body' = NoBody
<1>3. Answered
  <2>1. CASE RefuseRequest
    <3>1. ErrorDocument \in Meant(sent)
      <4>1. ErrorBytes \in Nat
        BY Zenon, SessionAssumption
      <4> QED
        BY <4>1, EmptyAnswers DEF Meant, Documents, ErrorDocument
    <3>2. <<ErrorDocument>> \in BodiesOf(Meant(sent))
      BY <3>1 DEF BodiesOf
    <3> QED
      BY <1>1, <2>1, <3>2, EmptyAnswers DEF RefuseRequest
  <2>2. ASSUME NEW r \in Responses, EncodeResponse(r).err = NoError,
               pc' = "deliver", response' = r, sent' = EncodeResponse(r).value,
               handed' = (handed \cup {r.tokens["refresh_token"]}) \ {""}, UNCHANGED body
        PROVE  Answered
    <3>1. Responses \subseteq TokenResponses
      BY Zenon, SessionAssumption
    <3>2. r \in TokenResponses
      BY <3>1
    <3>3. r.tokens["refresh_token"] \in Text
      BY <3>2 DEF TokenResponses, TokenKinds
    <3>4. EncodeResponse(r).value \in Representations
          /\ EncodeResponse(r) = Success(EncodeResponse(r).value)
      BY <2>2, <3>2, EncodedIsWhole
    <3> QED
      BY <1>1, <2>2, <3>2, <3>3, <3>4, EmptyBody
  <2>3. CASE AnswerOfAnother
    <3>1. Foreign \subseteq Representations
      BY Zenon, SessionAssumption
    <3> QED
      BY <1>1, <2>3, <3>1, EmptyAnswers, EmptyBody DEF AnswerOfAnother
  <2> QED
    BY <1>2, <2>1, <2>2, <2>3
<1> USE <1>1, <1>3 DEF SessionInv, request
<1>4. TypeOK'
  BY DEF TypeOK
<1>5. CarrierIsAsWritten'
  BY DEF CarrierIsAsWritten
<1>6. AnswerIsOfTheResponse'
  BY DEF AnswerIsOfTheResponse
<1>7. PrincipalHasTheProof'
  BY PrincipalKept
<1> QED
  BY <1>4, <1>5, <1>6, <1>7

LEMMA DeliverKeeps == SessionInv /\ Deliver => SessionInv'
<1> SUFFICES ASSUME SessionInv, Deliver PROVE SessionInv'
  OBVIOUS
<1>1. /\ pc = "deliver" /\ pc' = "receive" /\ sent \in Representations
      /\ UNCHANGED <<request, seen, principal, response, sent, got, held, handed>>
  BY DEF Deliver, SessionInv, AnswerIsOfTheResponse
<1>2. PICK bytes \in PayloadSizes, broken \in BOOLEAN :
        \E documents \in Deliveries([what |-> "response", says |-> sent, bytes |-> bytes]) :
            body' = [documents |-> documents, broken |-> broken]
  BY Zenon DEF Deliver
<1> DEFINE document == [what |-> "response", says |-> sent, bytes |-> bytes]
<1>3. PICK documents \in Deliveries(document) :
            body' = [documents |-> documents, broken |-> broken]
  BY <1>2
<1>4. document \in Meant(sent)
  <2>1. PayloadSizes \subseteq Nat
    BY Zenon, SessionAssumption
  <2> QED
    BY <1>1, <2>1 DEF Meant, Documents
<1> HIDE DEF document
<1>5. documents \in BodiesOf(Meant(sent))
  BY <1>4, WhatIsDelivered
<1>6. body'.documents \in BodiesOf(Meant(sent')) /\ body'.broken \in BOOLEAN
  BY <1>1, <1>3, <1>5
<1> USE <1>1, <1>6 DEF SessionInv, request
<1>7. TypeOK'
  BY DEF TypeOK
<1>8. CarrierIsAsWritten'
  BY DEF CarrierIsAsWritten
<1>9. AnswerIsOfTheResponse'
  BY DEF AnswerIsOfTheResponse
<1>10. PrincipalHasTheProof'
  BY PrincipalKept
<1> QED
  BY <1>7, <1>8, <1>9, <1>10

LEMMA ReceiveKeeps == SessionInv /\ Receive => SessionInv'
<1> SUFFICES ASSUME SessionInv, Receive PROVE SessionInv'
  OBVIOUS
<1> DEFINE read == ReadResponse(body.documents, body.broken)
           fault == IF read.err # NoError THEN read.err ELSE ValidateResponse(read.value)
           token == read.value.tokens["refresh_token"]
<1>1. /\ pc = "receive" /\ pc' = "received"
      /\ got' = IF fault = NoError THEN read ELSE Failure(fault, EmptyResponse)
      /\ held' = IF fault = NoError /\ token # "" THEN token ELSE held
      /\ UNCHANGED <<request, seen, principal, answer, handed>>
  BY Zenon DEF Receive
<1>2. body.documents \in Bodies /\ body.broken \in BOOLEAN
  BY DEF SessionInv, AnswerIsOfTheResponse, BodiesOf, Meant, Bodies
<1>3. got' = Outcome(body.documents, body.broken)
  BY <1>1, Zenon DEF Outcome
<1>4. got'.err \in Errors /\ got'.value \in TokenResponses
  BY <1>2, <1>3, OutcomeType
<1>5. held' \in Text
  <2>1. read.value \in TokenResponses
    BY <1>2, ReadResponseType
  <2>2. token \in Text
    BY <2>1 DEF TokenResponses, TokenKinds
  <2>3. held \in Text
    BY DEF SessionInv, TypeOK
  <2> HIDE DEF token, fault
  <2> QED
    BY <1>1, <2>2, <2>3
<1>6. /\ pc = "receive" /\ pc' = "received"
      /\ UNCHANGED <<request, seen, principal, answer, handed>>
  BY <1>1
<1>7. got' = Outcome(body.documents, body.broken)'
  BY <1>3, <1>6 DEF answer, Outcome
<1> HIDE DEF read, fault, token
<1> USE <1>4, <1>5, <1>6 DEF SessionInv, request, answer
<1>8. TypeOK'
  BY DEF TypeOK
<1>9. CarrierIsAsWritten'
  BY DEF CarrierIsAsWritten
<1>10. AnswerIsOfTheResponse'
  BY <1>7 DEF AnswerIsOfTheResponse
<1>11. PrincipalHasTheProof'
  BY PrincipalKept
<1> QED
  BY <1>8, <1>9, <1>10, <1>11

LEMMA SessionStutters == SessionInv /\ UNCHANGED vars => SessionInv'
<1> SUFFICES ASSUME SessionInv, UNCHANGED vars PROVE SessionInv'
  OBVIOUS
<1> USE DEF vars, request, answer, SessionInv
<1>1. TypeOK'
  BY DEF TypeOK
<1>2. CarrierIsAsWritten'
  BY DEF CarrierIsAsWritten
<1>3. AnswerIsOfTheResponse'
  BY DEF AnswerIsOfTheResponse
<1>4. PrincipalHasTheProof'
  BY PrincipalKept
<1> QED
  BY <1>1, <1>2, <1>3, <1>4

(* What client, carrier, server and network hold agrees at every step of the
   exchange: the inductive invariant the theorems below follow from. *)
THEOREM SessionInvariant == Spec => []SessionInv
<1>1. SessionInv /\ [Next]_vars => SessionInv'
  <2> SUFFICES ASSUME SessionInv, [Next]_vars PROVE SessionInv'
    OBVIOUS
  <2>1. CASE WriteRequest
    BY <2>1, WriteRequestKeeps
  <2>2. CASE WriteCredentials
    BY <2>2, WriteCredentialsKeeps
  <2>3. CASE Send
    BY <2>3, SendKeeps
  <2>4. CASE Lose
    BY <2>4, LoseKeeps
  <2>5. CASE Authenticate
    BY <2>5, AuthenticateKeeps
  <2>6. CASE Serve
    BY <2>6, ServeKeeps
  <2>7. CASE Deliver
    BY <2>7, DeliverKeeps
  <2>8. CASE Receive
    BY <2>8, ReceiveKeeps
  <2>9. CASE Finished \/ UNCHANGED vars
    BY <2>9, SessionStutters DEF Finished
  <2> QED
    BY <2>1, <2>2, <2>3, <2>4, <2>5, <2>6, <2>7, <2>8, <2>9, Zenon DEF Next
<1> QED
  BY <1>1, SessionInit, PTL DEF Spec

(***************************************************************************)
(* The session keeps to its types.                                         *)
(***************************************************************************)
THEOREM SessionTypes == Spec => []TypeOK
BY SessionInvariant, PTL DEF SessionInv

(***************************************************************************)
(* The server reads what the last WriteArtifact wrote, whatever the        *)
(* carrier held before (tokenrequest/writer.go, writeArtifact; reader.go,  *)
(* readArtifact).                                                          *)
(***************************************************************************)
THEOREM LastArtifactIsRead == Spec => []ServerReadsTheLastArtifact
<1>1. SessionInv => ServerReadsTheLastArtifact
  <2> SUFFICES ASSUME SessionInv, pc = "serve", Decodable(written)
               PROVE  LET c == written.credentials IN
                      IF Cardinality(Proofs(c)) + (IF carrier.basic.set THEN 1 ELSE 0) > 1
                      THEN seen.err = {"Unauthenticated"}
                      ELSE ~carrier.basic.set =>
                              seen = Success([grant_type |-> written.grant_type,
                                              credentials |-> CredentialsOf(c),
                                              fields |-> FieldsOf(written)])
    BY Zenon DEF ServerReadsTheLastArtifact
  <2> DEFINE http == WithBody(carrier, FormOf(written))
  <2>1. carrier \in HTTPRequests /\ written \in TokenRequests /\ seen = ReadTokenRequest(http)
    BY DEF SessionInv, TypeOK, CarrierIsAsWritten
  <2>2. FormOf(written) \in [FormFields -> Text]
    BY <2>1, FormIsOfTexts
  <2>3. /\ http \in HTTPRequests /\ http.parses /\ http.form = FormOf(written)
        /\ http.basic = carrier.basic
    BY <2>1, <2>2, BodyReplaced
  <2> HIDE DEF http
  <2> QED
    BY <2>1, <2>3, ReadsWhatWasWritten
<1> QED
  BY <1>1, SessionInvariant, PTL

(***************************************************************************)
(* Nobody is vouched for without the one proof that came with the id       *)
(* (clientcredentials/authenticator.go, authenticate).                     *)
(***************************************************************************)
THEOREM PrincipalsHaveTheProof == Spec => []PrincipalHasTheProof
BY SessionInvariant, PTL DEF SessionInv

(***************************************************************************)
(* What the client accepts is the whole of the one answer that was meant   *)
(* for it (tokenresponse/reader.go, readArtifact; writer.go,               *)
(* writeArtifact).                                                         *)
(***************************************************************************)
LEMMA AcceptedIsSent ==
    ASSUME SessionInv, Accepted
    PROVE  /\ DeliveredWhole /\ got = Success(DecodedFrom(sent))
           /\ NothingWrong(DecodedFrom(sent)) /\ sent.tokens # NoTokenTexts
           /\ MaxBodyBytes < Int64Max
<1>1. /\ got = Outcome(body.documents, body.broken) /\ got.err = NoError
      /\ sent \in Representations /\ body.documents \in BodiesOf(Meant(sent))
      /\ body.broken \in BOOLEAN
  BY DEF SessionInv, AnswerIsOfTheResponse, Accepted
<1>2. /\ ~body.broken /\ MaxBodyBytes < Int64Max
      /\ \E d \in Meant(sent) : body.documents = <<d>> /\ d.what = "response"
      /\ Outcome(body.documents, body.broken) = Success(DecodedFrom(sent))
      /\ NothingWrong(DecodedFrom(sent)) /\ sent.tokens # NoTokenTexts
  BY <1>1, WhatIsAccepted
<1>3. Len(body.documents) = 1 /\ body.documents[1].what = "response"
  BY <1>2
<1> QED
  BY <1>1, <1>2, <1>3 DEF DeliveredWhole

(* GrantIsWholeOrNothing: what a client accepts is one document, the response
   the server wrote, to its end, wherever the writing or the network stopped
   (tokenresponse/reader.go, decoder.go). *)
THEOREM GrantsAreWhole == Spec => []GrantIsWholeOrNothing
<1>1. SessionInv => GrantIsWholeOrNothing
  <2> SUFFICES ASSUME SessionInv, Accepted
               PROVE  DeliveredWhole /\ got.value.tokens = sent.tokens
                      /\ sent # EmptyRepresentation
    BY DEF GrantIsWholeOrNothing
  <2>1. DeliveredWhole /\ got = Success(DecodedFrom(sent)) /\ sent.tokens # NoTokenTexts
    BY AcceptedIsSent
  <2>2. got.value.tokens = sent.tokens
    BY <2>1 DEF Success, DecodedFrom
  <2>3. EmptyRepresentation.tokens = NoTokenTexts
    BY DEF EmptyRepresentation
  <2> QED
    BY <2>1, <2>2, <2>3
<1> QED
  BY <1>1, SessionInvariant, PTL

(***************************************************************************)
(* The lifetime that the server gave arrives up to its part of a second,   *)
(* for the whole range of a time.Duration (tokenresponse/encoder.go,       *)
(* encode; decoder.go, decode; validator.go, validate).                    *)
(***************************************************************************)
LEMMA SentIsOfTheResponse ==
    ASSUME SessionInv, response # EmptyResponse
    PROVE  /\ response \in TokenResponses /\ sent = EncodedFrom(response)
           /\ sent.tokens # NoTokenTexts
<1>1. response \in TokenResponses /\ EncodeResponse(response) = Success(sent)
  BY DEF SessionInv, TypeOK, AnswerIsOfTheResponse
<1>2. EncodeResponse(response).err = NoError /\ EncodeResponse(response).value = sent
  BY <1>1 DEF Success
<1>3. sent = EncodedFrom(response) /\ response.tokens # NoTokenTexts
  BY <1>1, <1>2, EncodedIsWhole
<1> QED
  BY <1>1, <1>3 DEF EncodedFrom

(* LifetimeSurvives: a client learns the lifetime the server granted, short of
   it by less than a second, and 0 for a negative one
   (tokenresponse/encoder.go:84). *)
THEOREM LifetimesSurvive == Spec => []LifetimeSurvives
<1>1. SessionInv => LifetimeSurvives
  <2> SUFFICES ASSUME SessionInv, Accepted, response # EmptyResponse
               PROVE  LET lost == response.lifetime - got.value.lifetime IN
                      /\ got.value.lifetime >= 0
                      /\ IF response.lifetime < 0 THEN got.value.lifetime = 0
                         ELSE lost \in 0 .. Second - 1
    BY Zenon DEF LifetimeSurvives
  <2> DEFINE d == response.lifetime
             l == Lifetime(WholeSeconds(d))
  <2>1. response \in TokenResponses /\ sent = EncodedFrom(response)
    BY SentIsOfTheResponse
  <2>2. got = Success(DecodedFrom(sent)) /\ NothingWrong(DecodedFrom(sent))
    BY AcceptedIsSent
  <2>3. got.value.lifetime = l
    BY <2>1, <2>2 DEF Success, DecodedFrom, EncodedFrom
  <2>4. ~(l < 0)
    BY <2>1, <2>2 DEF NothingWrong, DecodedFrom, EncodedFrom
  <2>5. d \in Durations
    BY <2>1 DEF TokenResponses
  <2>6. /\ l \in Durations
        /\ d >= 0 => l >= 0 /\ d - l \in 0 .. Second - 1
        /\ d < 0 => l <= 0
    BY <2>5, LifetimeKept
  <2> HIDE DEF l, d
  <2>7. l >= 0 /\ (d < 0 => l = 0) /\ (~(d < 0) => d - l \in 0 .. Second - 1)
    BY <2>4, <2>5, <2>6, Widths DEF Durations
  <2> QED
    BY <2>3, <2>7 DEF d
<1> QED
  BY <1>1, SessionInvariant, PTL

(***************************************************************************)
(* A client whose policy agrees with the server's accepts what reaches it  *)
(* (tokenresponse/validator.go, validate).                                 *)
(***************************************************************************)
LEMMA SmallDebtsAreForgotten ==
    ASSUME NEW d \in Durations, d > -Second
    PROVE  Lifetime(WholeSeconds(d)) >= 0
<1>1. CASE d >= 0
  BY <1>1, LifetimeKept
<1>2. CASE d < 0
  <2> DEFINE q == (-d) \div Second
  <2>1. Second \in Nat \ {0} /\ -d \in Nat /\ -d < Second
    BY <1>2, Widths DEF Durations
  <2>2. q \in Nat /\ (-d) - q * Second \in 0 .. Second - 1
    BY <2>1, Division
  <2>3. WholeSeconds(d) = -q
    BY <1>2, Widths DEF Durations, WholeSeconds
  <2> HIDE DEF q
  <2>4. q = 0
    BY <2>1, <2>2
  <2>5. WholeSeconds(d) = 0
    <3>1. \A n \in Nat, m \in Int : n <= 0 /\ m = -n => m = 0
      OBVIOUS
    <3>2. WholeSeconds(d) \in Int /\ q <= 0
      BY <2>2, <2>3, <2>4
    <3> QED
      BY <2>2, <2>3, <3>1, <3>2
  <2>6. 0 * Second = 0
    BY <2>1
  <2>7. 0 \in Durations
    BY Widths DEF Durations
  <2>8. Lifetime(WholeSeconds(d)) = 0
    BY <2>5, <2>6, <2>7, Int64OfDuration DEF Lifetime
  <2> QED
    BY <2>8
<1> QED
  BY <1>1, <1>2 DEF Durations

LEMMA AgreedIsNotWrong ==
    ASSUME NEW r \in TokenResponses, r = response, PoliciesAgree
    PROVE  NothingWrong(DecodedFrom(EncodedFrom(r)))
<1> DEFINE s == DecodedFrom(EncodedFrom(r))
<1>1. /\ s.tokens = r.tokens /\ s.token_type = r.token_type /\ s.scope = r.scope
      /\ s.issued_type = r.issued_type /\ s.lifetime = Lifetime(WholeSeconds(r.lifetime))
  BY DEF DecodedFrom, EncodedFrom
<1>2. s.lifetime \in Durations /\ ~(s.lifetime < 0)
  <2>1. r.lifetime \in Durations /\ r.lifetime > -Second
    BY DEF TokenResponses, PoliciesAgree
  <2>2. s.lifetime >= 0 /\ s.lifetime \in Durations
    BY <1>1, <2>1, SmallDebtsAreForgotten, LifetimeKept
  <2> QED
    BY <2>2 DEF Durations
<1> HIDE DEF s
<1>3. /\ r.token_type = "Bearer" /\ "bearer" \in AllowedTokenTypes
      /\ r.tokens["access_token"] # "" /\ ~RequireIssuedType
      /\ r.issued_type \notin RelativeTypes
      /\ \/ r.issued_type = "" \/ AllowedIssuedTypes = {}
         \/ r.issued_type \in AllowedIssuedTypes
      /\ r.tokens["id_token"] # "" => AllowIDToken
      /\ RequireIDToken => r.tokens["id_token"] # ""
      /\ \A k \in TokenKinds : r.tokens[k] # "" => TokenFault[k][r.tokens[k]] = NoError
  BY DEF PoliciesAgree, Granted
<1>4. LowerCase(s.token_type) = "bearer"
  BY <1>1, <1>3 DEF LowerCase
<1>5. ~IllFormedScope(s.scope)
  BY <1>1 DEF IllFormedScope, PoliciesAgree, ToSet
<1>6. \A k \in TokenKinds : VerdictOf(s, k) = NoError
  BY <1>1, <1>3 DEF VerdictOf
<1>7. VerdictOf(s, "access_token") = NoError /\ VerdictOf(s, "refresh_token") = NoError
      /\ VerdictOf(s, "id_token") = NoError
  BY <1>6 DEF TokenKinds
<1> QED
  BY <1>1, <1>2, <1>3, <1>4, <1>5, <1>7, Zenon DEF NothingWrong, s

(* GrantsAreAccepted: a response that the client's policy allows and that was
   delivered whole and fits its limits is accepted (tokenresponse/validator.go). *)
THEOREM AgreedGrantsAreAccepted == Spec => []GrantsAreAccepted
<1>1. SessionInv => GrantsAreAccepted
  <2> SUFFICES ASSUME SessionInv, pc = "received", response # EmptyResponse, PoliciesAgree,
                      MaxBodyBytes < Int64Max, DeliveredWhole,
                      body.documents[1].bytes <= MaxBodyBytes,
                      body.documents[1].bytes <= MaxPayloadBytes
               PROVE  Accepted /\ got.value.tokens = response.tokens
                      /\ got.value.scope = response.scope
    BY Zenon DEF GrantsAreAccepted
  <2>1. /\ response \in TokenResponses /\ sent = EncodedFrom(response)
        /\ sent.tokens # NoTokenTexts
    BY SentIsOfTheResponse
  <2>2. NothingWrong(DecodedFrom(sent))
    BY <2>1, AgreedIsNotWrong
  <2>3. \A k \in TokenKinds : DecodeFault[sent.tokens[k]] = NoError
    <3>1. sent.tokens = response.tokens
      BY <2>1 DEF EncodedFrom
    <3>2. DecodeFault[""] = NoError
      BY Zenon, EncoderAssumption
    <3>3. \A k \in TokenKinds : response.tokens[k] # "" =>
              DecodeFault[response.tokens[k]] = NoError
      BY DEF PoliciesAgree, Granted
    <3> QED
      BY <3>1, <3>2, <3>3
  <2>4. /\ got = Outcome(body.documents, body.broken) /\ sent \in Representations
        /\ body.documents \in BodiesOf(Meant(sent)) /\ body.broken = FALSE
    BY DEF SessionInv, AnswerIsOfTheResponse, DeliveredWhole
  <2>5. PICK d \in Meant(sent) : body.documents = <<d>>
    BY <2>4 DEF BodiesOf, DeliveredWhole
  <2>6. /\ d \in Documents /\ d.what = "response" /\ d.says = sent
        /\ d.bytes <= MaxBodyBytes /\ d.bytes <= MaxPayloadBytes
    BY <2>5 DEF Meant, DeliveredWhole
  <2>7. Outcome(<<d>>, FALSE) = Success(DecodedFrom(sent))
    BY <2>1, <2>2, <2>3, <2>4, <2>6, WhatMustBeAccepted
  <2>8. got = Success(DecodedFrom(sent))
    BY <2>4, <2>5, <2>7
  <2>9. got.value.tokens = response.tokens /\ got.value.scope = response.scope
    BY <2>1, <2>8 DEF Success, DecodedFrom, EncodedFrom
  <2> QED
    BY <2>8, <2>9 DEF Accepted, Success
<1> QED
  BY <1>1, SessionInvariant, PTL

(***************************************************************************)
(* With the largest limit there is the reader reads nothing, so no body is *)
(* ever accepted (tokenresponse/reader.go:79).                             *)
(***************************************************************************)
THEOREM LargestLimitReadsNothing ==
    ASSUME MaxBodyBytes = Int64Max, NEW documents \in Bodies, NEW broken \in BOOLEAN
    PROVE  ReadResponse(documents, broken) = Failure({"Malformed"}, EmptyResponse)
<1>1. ~(MaxBodyBytes < Int64Max)
  BY Widths
<1> QED
  BY <1>1, ReadIsWhole
=============================================================================
