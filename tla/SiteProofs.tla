----------------------------- MODULE SiteProofs -----------------------------
(***************************************************************************)
(* Theorems about Site, for any virtual hosts, files, requests and workers *)
(* that share the caches: what readers of a cache see keeps to OnceCache,  *)
(* a response's headers tell the end of its body or it is one of those     *)
(* that are said not to, and its body is that of the file its path leads   *)
(* to.                                                                     *)
(***************************************************************************)
EXTENDS Site, Recursion

-----------------------------------------------------------------------------
(* The strings of a text.                                                  *)
Words(C, sep) == {s \in Seq(C) : Len(s) > 0 /\ \A j \in DOMAIN s : s[j] # sep}

LEMMA EndIs ==
  ASSUME NEW C, NEW text \in Seq(C), NEW sep, NEW i \in 1 .. Len(text)
  PROVE  /\ EndOf(text, sep, i) \in i .. Len(text) + 1
         /\ \A j \in i .. EndOf(text, sep, i) - 1 : text[j] # sep
         /\ EndOf(text, sep, i) <= Len(text) => text[EndOf(text, sep, i)] = sep
<1> DEFINE ends == {j \in i .. Len(text) : text[j] = sep} \union {Len(text) + 1}
           end == CHOOSE j \in ends : \A k \in ends : j <= k
<1>1. ends \subseteq Nat /\ ends # {}
  OBVIOUS
<1>2. EndOf(text, sep, i) = end
  BY DEF EndOf
<1>3. end \in ends /\ \A j \in ends : end <= j
  <2> HIDE DEF ends
  <2> QED
    BY <1>1, ChosenIsFirst
<1> HIDE DEF end
<1>4. end \in i .. Len(text) + 1 /\ (end <= Len(text) => text[end] = sep)
  BY <1>3
<1>5. \A j \in i .. end - 1 : text[j] # sep
  <2>1. SUFFICES ASSUME NEW j \in i .. end - 1, text[j] = sep PROVE FALSE
    OBVIOUS
  <2>2. j \in ends
    BY <1>4, <2>1
  <2> QED
    BY <1>3, <1>4, <2>2
<1> QED
  BY <1>2, <1>4, <1>5

(* A function that does what Pieces does.                                  *)
Cutting(f, text, sep) ==
  \A i \in 1 .. Len(text) + 2 :
    f[i] = IF i > Len(text) THEN <<>>
           ELSE IF EndOf(text, sep, i) = i THEN f[i + 1]
           ELSE <<SubSeq(text, i, EndOf(text, sep, i) - 1)>> \o f[EndOf(text, sep, i) + 1]

(* It goes on behind each string.                                          *)
After(text, sep) ==
  [i \in 1 .. Len(text) + 2 |-> IF i > Len(text) THEN i ELSE EndOf(text, sep, i) + 1]
Left(text) == [i \in 1 .. Len(text) + 2 |-> Len(text) + 2 - i]
Ended(text) == {Len(text) + 1, Len(text) + 2}

LEMMA CuttingDescends ==
  ASSUME NEW C, NEW text \in Seq(C), NEW sep
  PROVE  Descent(1 .. Len(text) + 2, Len(text) + 2, Left(text), After(text, sep), Ended(text))
<1> DEFINE l == Len(text)
           S == 1 .. l + 2
           end(i) == EndOf(text, sep, i)
<1>1. \A i \in 1 .. l : end(i) \in i .. l + 1
  BY EndIs
<1>2. l \in Nat
  OBVIOUS
<1> HIDE DEF l, end
<1>3. Left(text) \in [S -> 0 .. l + 2] /\ After(text, sep) \in [S -> S]
  BY <1>1, <1>2 DEF Left, After, l, end
<1>4. \A i \in S \ Ended(text) : Left(text)[After(text, sep)[i]] < Left(text)[i]
  <2>1. SUFFICES ASSUME NEW i \in S, i \notin Ended(text)
                 PROVE  Left(text)[After(text, sep)[i]] < Left(text)[i]
    OBVIOUS
  <2>2. i \in 1 .. l /\ end(i) + 1 \in S /\ end(i) >= i
    BY <1>1, <1>2, <2>1 DEF Ended, l
  <2>3. After(text, sep)[i] = end(i) + 1
    BY <1>2, <2>2 DEF After, l, end
  <2>4. Left(text)[end(i) + 1] = l + 2 - (end(i) + 1) /\ Left(text)[i] = l + 2 - i
    BY <1>2, <2>2 DEF Left, l
  <2>5. end(i) \in Nat
    BY <1>1, <1>2, <2>2
  <2> QED
    BY <1>2, <2>2, <2>3, <2>4, <2>5
<1> QED
  BY <1>2, <1>3, <1>4 DEF Descent, l

LEMMA PiecesCut ==
  ASSUME NEW C, NEW text \in Seq(C), NEW sep
  PROVE  \E f : /\ Pieces(text, sep) = f[1] /\ Cutting(f, text, sep)
                /\ f \in [1 .. Len(text) + 2 -> Seq(Words(C, sep))]
<1> DEFINE l == Len(text)
           S == 1 .. l + 2
           W == Words(C, sep)
           V == Seq(W)
           end(i) == EndOf(text, sep, i)
           Good(f) == f = [i \in 1 .. Len(text) + 2 |->
                             IF i > Len(text) THEN <<>>
                             ELSE IF EndOf(text, sep, i) = i THEN f[i + 1]
                             ELSE <<SubSeq(text, i, EndOf(text, sep, i) - 1)>>
                                    \o f[EndOf(text, sep, i) + 1]]
           piece == [i \in S |-> IF i > l \/ end(i) = i THEN <<>>
                                 ELSE <<SubSeq(text, i, end(i) - 1)>>]
           base == [i \in S |-> <<>>]
           Value == [t \in S \X V |-> piece[t[1]] \o t[2]]
           next == After(text, sep)
           stop == Ended(text)
<1>1. l \in Nat /\ \A i \in 1 .. l : end(i) \in i .. l + 1 /\ end(i) + 1 \in S
                                     /\ \A j \in i .. end(i) - 1 : text[j] # sep
  BY EndIs
<1>2. \A i \in 1 .. l : end(i) # i => SubSeq(text, i, end(i) - 1) \in W
  <2>1. TAKE i \in 1 .. l
  <2>2. HAVE end(i) # i
  <2>3. end(i) \in Nat /\ end(i) > i /\ end(i) <= l + 1
    BY <1>1, <2>2
  <2> HIDE DEF end
  <2> DEFINE s == SubSeq(text, i, end(i) - 1)
  <2>4. s \in Seq(C) /\ Len(s) = end(i) - i /\ \A j \in 1 .. Len(s) : s[j] = text[i + j - 1]
    BY <2>3
  <2> HIDE DEF s
  <2>5. \A j \in DOMAIN s : s[j] # sep
    <3>1. TAKE j \in DOMAIN s
    <3>2. j \in 1 .. Len(s) /\ i + j - 1 \in i .. end(i) - 1
      BY <2>3, <2>4
    <3> QED
      BY <1>1, <2>4, <3>2
  <2>6. s \in W
    BY <2>3, <2>4, <2>5 DEF Words
  <2> QED
    BY <2>6 DEF s
<1>3. piece \in [S -> V]
  <2> HIDE DEF W, end, l
  <2>1. \A i \in S : i <= l => i \in 1 .. l
    BY <1>1
  <2>2. \A i \in 1 .. l : end(i) # i => <<SubSeq(text, i, end(i) - 1)>> \in Seq(W)
    BY <1>2
  <2>3. <<>> \in Seq(W)
    OBVIOUS
  <2> QED
    BY <1>1, <2>1, <2>2, <2>3
<1>4. base \in [S -> V]
  OBVIOUS
<1>5. Value \in [S \X V -> V]
  <2>1. ASSUME NEW t \in S \X V PROVE piece[t[1]] \o t[2] \in V
    <3>1. t[1] \in S /\ t[2] \in V /\ piece[t[1]] \in V
      BY <1>3
    <3> HIDE DEF S, W, piece
    <3> QED
      BY <3>1
  <2> HIDE DEF S, V, piece
  <2> QED
    BY <2>1
<1>6. PICK f \in [S -> V] : Descending(f, S, next, stop, base, Value)
  <2>1. Descent(S, l + 2, Left(text), next, stop)
    BY CuttingDescends
  <2> HIDE DEF S, V, next, stop, base, Value
  <2> QED
    BY <1>4, <1>5, <2>1, Descends
<1>7. ASSUME NEW i \in S
      PROVE  f[i] = IF i > l THEN <<>> ELSE IF end(i) = i THEN f[i + 1]
                    ELSE <<SubSeq(text, i, end(i) - 1)>> \o f[end(i) + 1]
  <2>1. f[i] = IF i \in stop THEN base[i] ELSE Value[<<i, f[next[i]]>>]
    <3> HIDE DEF S, V, next, stop, base, Value
    <3> QED
      BY <1>6 DEF Descending
  <2>2. CASE i > l
    <3>1. i \in stop
      BY <1>1, <2>2 DEF Ended
    <3> QED
      BY <2>1, <2>2, <3>1
  <2>3. CASE ~(i > l)
    <3>1. i \in 1 .. l /\ i \notin stop /\ next[i] = end(i) + 1
      BY <1>1, <2>3 DEF Ended, After
    <3>2. f[end(i) + 1] \in V
      BY <1>1, <3>1
    <3>3. f[i] = piece[i] \o f[end(i) + 1]
      <4> HIDE DEF piece, V, S, next, stop
      <4> QED
        BY <2>1, <3>1, <3>2
    <3>4. CASE end(i) = i
      <4>1. piece[i] = <<>>
        BY <3>4
      <4> HIDE DEF piece, W
      <4> QED
        BY <2>3, <3>2, <3>3, <3>4, <4>1
    <3>5. CASE end(i) # i
      <4>1. piece[i] = <<SubSeq(text, i, end(i) - 1)>>
        BY <2>3, <3>5
      <4> HIDE DEF piece
      <4> QED
        BY <2>3, <3>3, <3>5, <4>1
    <3> QED
      BY <3>4, <3>5
  <2> QED
    BY <2>2, <2>3
<1>8. Good(f)
  <2> HIDE DEF V
  <2> QED
    BY <1>7
<1> DEFINE g == CHOOSE h : Good(h)
<1>9. Good(g) /\ Pieces(text, sep) = g[1]
  <2>1. Good(g)
    <3> HIDE DEF Good
    <3> QED
      BY <1>8
  <2> QED
    BY <2>1, Zenon DEF Pieces
<1> HIDE DEF g
<1>10. Cutting(g, text, sep)
  BY <1>9 DEF Cutting
<1>11. \A i \in S : g[i] \in V
  <2> DEFINE holds == {i \in S : g[i] \in V}
  <2>1. ASSUME NEW i \in S, i \in stop \/ next[i] \in holds PROVE i \in holds
    <3>1. CASE i > l
      <4>1. g[i] = <<>>
        BY <1>10, <3>1 DEF Cutting
      <4>2. <<>> \in V
        OBVIOUS
      <4> HIDE DEF V
      <4> QED
        BY <4>1, <4>2
    <3>2. CASE ~(i > l)
      <4>1. i \in 1 .. l /\ i \notin stop /\ next[i] = end(i) + 1
        BY <1>1, <3>2 DEF Ended, After
      <4>2. g[end(i) + 1] \in V
        BY <2>1, <4>1
      <4>3. g[i] = IF end(i) = i THEN g[i + 1]
                   ELSE <<SubSeq(text, i, end(i) - 1)>> \o g[end(i) + 1]
        BY <1>10, <3>2 DEF Cutting
      <4>4. CASE end(i) = i
        BY <4>2, <4>3, <4>4
      <4>5. CASE end(i) # i
        <5>1. SubSeq(text, i, end(i) - 1) \in W
          BY <1>2, <4>1, <4>5
        <5> DEFINE w == SubSeq(text, i, end(i) - 1)
                   r == g[end(i) + 1]
        <5> HIDE DEF W, w, r
        <5>2. w \in W /\ r \in Seq(W)
          BY <4>2, <5>1 DEF w, r
        <5>3. <<w>> \o r \in Seq(W)
          BY <5>2
        <5> QED
          BY <4>3, <4>5, <5>3 DEF w, r
      <4> QED
        BY <4>4, <4>5
    <3> QED
      BY <3>1, <3>2
  <2>2. Descent(S, l + 2, Left(text), next, stop)
    BY CuttingDescends
  <2>3. S \subseteq holds
    <3> HIDE DEF S, holds, next, stop
    <3> QED
      BY <2>1, <2>2, DescentInduces
  <2> QED
    BY <2>3
<1>12. g \in [S -> V]
  BY <1>9, <1>11
<1> QED
  BY <1>9, <1>10, <1>12

(* Two texts that are cut alike have the same strings.                     *)
LEMMA SamePieces ==
  ASSUME NEW C, NEW text \in Seq(C), NEW D, NEW other \in Seq(D), NEW a, NEW b,
         Len(text) = Len(other), \A i \in 1 .. Len(text) : text[i] = a <=> other[i] = b,
         \A i \in 1 .. Len(text) : text[i] # a => other[i] = text[i]
  PROVE  Pieces(text, a) = Pieces(other, b)
<1> DEFINE l == Len(text)
           S == 1 .. l + 2
           end(i) == EndOf(text, a, i)
<1>1. PICK f : /\ Pieces(text, a) = f[1] /\ Cutting(f, text, a)
               /\ f \in [S -> Seq(Words(C, a))]
  BY PiecesCut
<1>2. PICK g : Pieces(other, b) = g[1] /\ Cutting(g, other, b)
  BY PiecesCut
<1>3. l \in Nat /\ \A i \in 1 .. l : end(i) \in i .. l + 1 /\ end(i) + 1 \in S
                                     /\ \A j \in i .. end(i) - 1 : text[j] # a
  BY EndIs
<1>4. \A i \in 1 .. l : EndOf(other, b, i) = end(i)
  <2>1. TAKE i \in 1 .. l
  <2>2. {j \in i .. Len(other) : other[j] = b} = {j \in i .. Len(text) : text[j] = a}
    OBVIOUS
  <2> QED
    BY <2>2 DEF EndOf
<1>5. \A i \in 1 .. l : end(i) # i => SubSeq(other, i, end(i) - 1) = SubSeq(text, i, end(i) - 1)
  <2>1. TAKE i \in 1 .. l
  <2>2. HAVE end(i) # i
  <2> DEFINE e == end(i)
             s == SubSeq(text, i, e - 1)
             t == SubSeq(other, i, e - 1)
  <2>3. e \in Nat /\ e > i /\ e <= l + 1 /\ i \in Nat /\ i > 0 /\ l \in Nat
    BY <1>3, <2>2
  <2>4. \A j \in i .. e - 1 : other[j] = text[j]
    BY <1>3, <2>3
  <2> HIDE DEF end, e
  <2>5. s \in Seq(C) /\ Len(s) = e - i /\ \A j \in 1 .. Len(s) : s[j] = text[i + j - 1]
    BY <2>3
  <2>6. t \in Seq(D) /\ Len(t) = e - i /\ \A j \in 1 .. Len(t) : t[j] = other[i + j - 1]
    BY <2>3
  <2> HIDE DEF s, t, l
  <2>7. \A j \in 1 .. Len(s) : s[j] = t[j]
    <3>1. TAKE j \in 1 .. Len(s)
    <3>2. j \in 1 .. Len(t) /\ i + j - 1 \in i .. e - 1
      BY <2>3, <2>5, <2>6
    <3> QED
      BY <2>4, <2>5, <2>6, <3>2
  <2>8. s = t
    BY <2>5, <2>6, <2>7
  <2> QED
    BY <2>8 DEF s, t, e
<1> DEFINE holds == {i \in S : g[i] = f[i]}
<1>6. ASSUME NEW i \in S, i \in Ended(text) \/ After(text, a)[i] \in holds PROVE i \in holds
  <2>1. CASE i > l
    BY <1>1, <1>2, <2>1 DEF Cutting
  <2>2. CASE ~(i > l)
    <3>1. i \in 1 .. l /\ i \notin Ended(text) /\ After(text, a)[i] = end(i) + 1
      BY <1>3, <2>2 DEF Ended, After
    <3>2. g[end(i) + 1] = f[end(i) + 1]
      BY <1>6, <3>1
    <3>3. f[i] = IF end(i) = i THEN f[i + 1] ELSE <<SubSeq(text, i, end(i) - 1)>> \o f[end(i) + 1]
      BY <1>1, <2>2 DEF Cutting
    <3>4. g[i] = IF end(i) = i THEN g[i + 1] ELSE <<SubSeq(other, i, end(i) - 1)>> \o g[end(i) + 1]
      BY <1>2, <1>4, <2>2, <3>1 DEF Cutting
    <3> HIDE DEF end
    <3> QED
      BY <1>5, <3>1, <3>2, <3>3, <3>4
  <2> QED
    BY <2>1, <2>2
<1>7. Descent(S, l + 2, Left(text), After(text, a), Ended(text))
  BY CuttingDescends
<1>8. S \subseteq holds
  <2> HIDE DEF S, holds
  <2> QED
    BY <1>6, <1>7, DescentInduces
<1> QED
  BY <1>1, <1>2, <1>3, <1>8

(* A text without separators is one string.                                *)
LEMMA OnePiece ==
  ASSUME NEW C, NEW sep, NEW text \in Words(C, sep)
  PROVE  Pieces(text, sep) = <<text>>
<1>1. text \in Seq(C) /\ Len(text) \in Nat /\ Len(text) > 0 /\ \A j \in 1 .. Len(text) : text[j] # sep
  BY DEF Words
<1>2. PICK f : Pieces(text, sep) = f[1] /\ Cutting(f, text, sep)
  BY <1>1, PiecesCut
<1> DEFINE l == Len(text)
           e == EndOf(text, sep, 1)
<1>3. e = l + 1
  <2>1. e \in 1 .. l + 1 /\ (e <= l => text[e] = sep)
    BY <1>1, EndIs
  <2> HIDE DEF e
  <2> QED
    BY <1>1, <2>1
<1>4. f[l + 2] = <<>>
  <2>1. l + 2 \in 1 .. Len(text) + 2 /\ l + 2 > Len(text)
    BY <1>1
  <2> QED
    BY <1>2, <2>1 DEF Cutting
<1>5. f[1] = <<SubSeq(text, 1, e - 1)>> \o f[e + 1]
  <2>1. 1 \in 1 .. Len(text) + 2 /\ ~(1 > Len(text)) /\ e # 1
    BY <1>1, <1>3
  <2> QED
    BY <1>2, <2>1 DEF Cutting
<1>6. SubSeq(text, 1, l) = text
  BY <1>1
<1>7. e - 1 = l /\ e + 1 = l + 2
  BY <1>1, <1>3
<1> HIDE DEF e, l
<1>8. f[1] = <<text>> \o <<>>
  BY <1>4, <1>5, <1>6, <1>7
<1> QED
  BY <1>2, <1>8
-----------------------------------------------------------------------------
(* A function that does what Split does.                                   *)
Splitting(f, text) ==
  \A i \in 1 .. Len(text) + 2 : \A behind \in BOOLEAN :
    f[<<i, behind>>] =
      IF i > Len(text) THEN <<>>
      ELSE IF text[i] # "/" THEN <<text[i]>> \o f[<<i + 1, i = 1>>]
      ELSE IF ~behind THEN <<NUL>> \o f[<<i + 1, TRUE>>]
      ELSE IF i = Len(text) THEN <<>>
      ELSE <<text[i + 1]>> \o f[<<i + 2, TRUE>>]

(* It goes on behind each character.                                       *)
States(text) == (1 .. Len(text) + 2) \X BOOLEAN
OnwardFrom(text, i, behind) ==
  IF i > Len(text) THEN <<i, behind>>
  ELSE IF text[i] # "/" THEN <<i + 1, i = 1>>
  ELSE IF ~behind \/ i = Len(text) THEN <<i + 1, TRUE>>
  ELSE <<i + 2, TRUE>>
Onward(text) == [s \in States(text) |-> OnwardFrom(text, s[1], s[2])]
LeftOf(text) == [s \in States(text) |-> Len(text) + 2 - s[1]]
OverAt(text, i, behind) ==
  i > Len(text) \/ (text[i] = "/" /\ behind /\ i = Len(text))
Over(text) == {s \in States(text) : OverAt(text, s[1], s[2])}

LEMMA OnwardIs ==
  ASSUME NEW C, NEW text \in Seq(C), NEW i \in 1 .. Len(text), NEW behind \in BOOLEAN
  PROVE  /\ OnwardFrom(text, i, behind) \in States(text)
         /\ OnwardFrom(text, i, behind)[1] > i
<1>1. i + 1 \in 1 .. Len(text) + 2 /\ i + 2 \in 1 .. Len(text) + 2 /\ i + 1 > i /\ i + 2 > i
  OBVIOUS
<1>2. ~(i > Len(text))
  OBVIOUS
<1>3. \A n \in 1 .. Len(text) + 2 : \A b \in BOOLEAN : <<n, b>> \in States(text) /\ <<n, b>>[1] = n
  BY DEF States
<1>4. (i = 1) \in BOOLEAN /\ TRUE \in BOOLEAN
  BY Zenon
<1>5. CASE text[i] # "/"
  <2>1. OnwardFrom(text, i, behind) = <<i + 1, i = 1>>
    BY <1>2, <1>5, Zenon DEF OnwardFrom
  <2>2. <<i + 1, i = 1>> \in States(text) /\ <<i + 1, i = 1>>[1] = i + 1
    BY <1>1, <1>3, <1>4, Zenon
  <2> QED
    BY <1>1, <2>1, <2>2, Zenon
<1>6. CASE text[i] = "/" /\ (~behind \/ i = Len(text))
  <2>1. OnwardFrom(text, i, behind) = <<i + 1, TRUE>>
    BY <1>2, <1>6, Zenon DEF OnwardFrom
  <2>2. <<i + 1, TRUE>> \in States(text) /\ <<i + 1, TRUE>>[1] = i + 1
    BY <1>1, <1>3, <1>4, Zenon
  <2> QED
    BY <1>1, <2>1, <2>2, Zenon
<1>7. CASE text[i] = "/" /\ behind /\ i # Len(text)
  <2>1. OnwardFrom(text, i, behind) = <<i + 2, TRUE>>
    BY <1>2, <1>7, Zenon DEF OnwardFrom
  <2>2. <<i + 2, TRUE>> \in States(text) /\ <<i + 2, TRUE>>[1] = i + 2
    BY <1>1, <1>3, <1>4, Zenon
  <2> QED
    BY <1>1, <2>1, <2>2, Zenon
<1> QED
  BY <1>5, <1>6, <1>7, Zenon

LEMMA SplittingDescends ==
  ASSUME NEW C, NEW text \in Seq(C)
  PROVE  Descent(States(text), Len(text) + 2, LeftOf(text), Onward(text), Over(text))
<1> DEFINE l == Len(text)
<1>1. l \in Nat
  OBVIOUS
<1>2. \A s \in States(text) : s[1] \in 1 .. l + 2 /\ s[2] \in BOOLEAN /\ s = <<s[1], s[2]>>
  BY DEF States
<1>3. \A s \in States(text) : OnwardFrom(text, s[1], s[2]) \in States(text)
  <2>1. TAKE s \in States(text)
  <2>2. CASE s[1] > Len(text)
    BY <1>2, <2>2 DEF OnwardFrom
  <2>3. CASE ~(s[1] > Len(text))
    <3>1. s[1] \in 1 .. Len(text) /\ s[2] \in BOOLEAN
      BY <1>1, <1>2, <2>3
    <3> QED
      BY <3>1, OnwardIs
  <2> QED
    BY <2>2, <2>3
<1>4. LeftOf(text) \in [States(text) -> 0 .. l + 2] /\ Onward(text) \in [States(text) -> States(text)]
  BY <1>1, <1>2, <1>3 DEF LeftOf, Onward
<1>5. ASSUME NEW s \in States(text) \ Over(text)
      PROVE  LeftOf(text)[Onward(text)[s]] < LeftOf(text)[s]
  <2>1. s[1] \in 1 .. Len(text) /\ s[2] \in BOOLEAN
    BY <1>1, <1>2 DEF Over, OverAt
  <2>2. OnwardFrom(text, s[1], s[2])[1] > s[1]
    BY <2>1, OnwardIs
  <2> DEFINE t == OnwardFrom(text, s[1], s[2])
  <2>3. t \in States(text) /\ Onward(text)[s] = t
    BY <1>3 DEF Onward
  <2> HIDE DEF t
  <2>4. LeftOf(text)[t] = l + 2 - t[1] /\ LeftOf(text)[s] = l + 2 - s[1]
    BY <2>3 DEF LeftOf
  <2>5. t[1] \in Nat /\ s[1] \in Nat
    BY <1>2, <2>1, <2>3
  <2> QED
    BY <1>1, <2>2, <2>3, <2>4, <2>5 DEF t
<1> QED
  BY <1>1, <1>4, <1>5 DEF Descent

(* What it puts in front of what follows.                                  *)
Shown(text, i, behind) ==
  IF text[i] # "/" THEN text[i] ELSE IF ~behind THEN NUL ELSE text[i + 1]

LEMMA SplitSteps ==
  ASSUME NEW C, NEW text \in Seq(C), NUL \in C
  PROVE  \E f : /\ Split(text) = f[<<1, FALSE>>] /\ Splitting(f, text)
                /\ \A s \in States(text) : f[s] \in Seq(C)
<1> DEFINE l == Len(text)
           S == States(text)
           V == Seq(C)
           Good(f) == f = [s \in (1 .. Len(text) + 2) \X BOOLEAN |->
                             IF s[1] > Len(text) THEN <<>>
                             ELSE IF text[s[1]] # "/" THEN <<text[s[1]]>> \o f[<<s[1] + 1, s[1] = 1>>]
                             ELSE IF ~s[2] THEN <<NUL>> \o f[<<s[1] + 1, TRUE>>]
                             ELSE IF s[1] = Len(text) THEN <<>>
                             ELSE <<text[s[1] + 1]>> \o f[<<s[1] + 2, TRUE>>]]
           piece == [s \in S |-> IF OverAt(text, s[1], s[2]) THEN <<>>
                                 ELSE <<Shown(text, s[1], s[2])>>]
           base == [s \in S |-> <<>>]
           Value == [t \in S \X V |-> piece[t[1]] \o t[2]]
           next == Onward(text)
           stop == Over(text)
<1>1. l \in Nat /\ \A i \in 1 .. l : text[i] \in C
  OBVIOUS
<1>2. \A s \in S : s[1] \in 1 .. l + 2 /\ s[2] \in BOOLEAN /\ s = <<s[1], s[2]>>
  BY DEF States
<1>3. \A s \in S : s \notin stop =>
        /\ s[1] \in 1 .. l /\ Shown(text, s[1], s[2]) \in C /\ ~OverAt(text, s[1], s[2])
        /\ next[s] = OnwardFrom(text, s[1], s[2]) /\ next[s] \in S
  <2>1. TAKE s \in S
  <2>2. HAVE s \notin stop
  <2>3. ~OverAt(text, s[1], s[2])
    BY <2>2 DEF Over
  <2>4. s[1] \in 1 .. l /\ (text[s[1]] = "/" /\ s[2] => s[1] # l)
    BY <1>1, <1>2, <2>3 DEF OverAt
  <2>5. Shown(text, s[1], s[2]) \in C
    <3> DEFINE i == s[1]
               b == s[2]
    <3>1. i \in 1 .. l /\ (text[i] = "/" /\ b => i # l)
      BY <2>4
    <3> HIDE DEF i, b
    <3>2. text[i] = "/" /\ b => i + 1 \in 1 .. l
      BY <1>1, <3>1
    <3>3. Shown(text, i, b) \in C
      BY <1>1, <3>1, <3>2 DEF Shown
    <3> QED
      BY <3>3 DEF i, b
  <2>6. next[s] = OnwardFrom(text, s[1], s[2])
    BY DEF Onward
  <2>7. next[s] \in S
    BY <1>2, <2>4, <2>6, OnwardIs
  <2> QED
    BY <2>3, <2>4, <2>5, <2>6, <2>7
<1>4. piece \in [S -> V]
  <2>1. \A s \in S : (IF OverAt(text, s[1], s[2]) THEN <<>> ELSE <<Shown(text, s[1], s[2])>>) \in V
    <3>1. TAKE s \in S
    <3>2. CASE OverAt(text, s[1], s[2])
      BY <3>2
    <3>3. CASE ~OverAt(text, s[1], s[2])
      <4>1. Shown(text, s[1], s[2]) \in C
        BY <1>3, <3>3 DEF Over
      <4> QED
        BY <3>3, <4>1
    <3> QED
      BY <3>2, <3>3
  <2> HIDE DEF S, V
  <2> QED
    BY <2>1
<1>5. base \in [S -> V]
  OBVIOUS
<1>6. Value \in [S \X V -> V]
  <2>1. ASSUME NEW t \in S \X V PROVE piece[t[1]] \o t[2] \in V
    <3>1. t[1] \in S /\ t[2] \in V /\ piece[t[1]] \in V
      <4> HIDE DEF S, V, piece
      <4> QED
        BY <1>4
    <3> HIDE DEF S, piece
    <3> QED
      BY <3>1
  <2> HIDE DEF S, V, piece
  <2> QED
    BY <2>1
<1>7. PICK f \in [S -> V] : Descending(f, S, next, stop, base, Value)
  <2>1. Descent(S, l + 2, LeftOf(text), next, stop)
    BY SplittingDescends
  <2> HIDE DEF S, V, next, stop, base, Value
  <2> QED
    BY <1>5, <1>6, <2>1, Descends
(* The equation of the function, over any f whose values are lists.        *)
<1> DEFINE Body(h, i, b) ==
             IF i > Len(text) THEN <<>>
             ELSE IF text[i] # "/" THEN <<text[i]>> \o h[<<i + 1, i = 1>>]
             ELSE IF ~b THEN <<NUL>> \o h[<<i + 1, TRUE>>]
             ELSE IF i = Len(text) THEN <<>>
             ELSE <<text[i + 1]>> \o h[<<i + 2, TRUE>>]
<1>8. ASSUME NEW h, NEW i \in 1 .. l + 2, NEW b \in BOOLEAN
      PROVE  Body(h, i, b) = IF OverAt(text, i, b) THEN <<>>
                             ELSE <<Shown(text, i, b)>> \o h[OnwardFrom(text, i, b)]
  <2>1. CASE i > Len(text)
    BY <2>1 DEF OverAt
  <2>2. CASE ~(i > Len(text)) /\ text[i] # "/"
    BY <2>2 DEF OverAt, Shown, OnwardFrom
  <2>3. CASE ~(i > Len(text)) /\ text[i] = "/" /\ ~b
    BY <2>3 DEF OverAt, Shown, OnwardFrom
  <2>4. CASE ~(i > Len(text)) /\ text[i] = "/" /\ b
    BY <2>4 DEF OverAt, Shown, OnwardFrom
  <2> QED
    BY <2>1, <2>2, <2>3, <2>4
<1>9. Good(f)
  <2>1. ASSUME NEW s \in S PROVE f[s] = Body(f, s[1], s[2])
    <3>1. f[s] = IF s \in stop THEN base[s] ELSE Value[<<s, f[next[s]]>>]
      <4> HIDE DEF S, V, next, stop, base, Value
      <4> QED
        BY <1>7 DEF Descending
    <3>2. Body(f, s[1], s[2]) = IF OverAt(text, s[1], s[2]) THEN <<>>
                                ELSE <<Shown(text, s[1], s[2])>> \o f[OnwardFrom(text, s[1], s[2])]
      <4> HIDE DEF Body
      <4> QED
        BY <1>2, <1>8
    <3>3. CASE s \in stop
      BY <3>1, <3>2, <3>3 DEF Over
    <3>4. CASE s \notin stop
      <4>1. ~OverAt(text, s[1], s[2]) /\ next[s] = OnwardFrom(text, s[1], s[2]) /\ next[s] \in S
        BY <1>3, <3>4
      <4>2. f[next[s]] \in V /\ piece[s] = <<Shown(text, s[1], s[2])>>
        <5>1. piece[s] = <<Shown(text, s[1], s[2])>>
          BY <4>1
        <5> HIDE DEF S, V, piece
        <5> QED
          BY <1>7, <4>1, <5>1
      <4>3. Value[<<s, f[next[s]]>>] = piece[s] \o f[next[s]]
        <5> HIDE DEF S, V, piece, next
        <5> QED
          BY <4>1, <4>2
      <4> HIDE DEF Body, Value, piece, next, stop, S, V
      <4> QED
        BY <3>1, <3>2, <3>4, <4>1, <4>2, <4>3
    <3> QED
      BY <3>3, <3>4
  <2>2. f = [s \in S |-> Body(f, s[1], s[2])]
    <3> HIDE DEF Body, V, S
    <3> QED
      BY <2>1
  <2> QED
    BY <2>2, Zenon DEF S, States, Body
<1> DEFINE g == CHOOSE h : Good(h)
<1>10. Good(g) /\ Split(text) = g[<<1, FALSE>>]
  <2>1. Good(g)
    <3> HIDE DEF Good
    <3> QED
      BY <1>9
  <2> QED
    BY <2>1, Zenon DEF Split
<1> HIDE DEF g
<1>11. \A i \in 1 .. l + 2 : \A b \in BOOLEAN : g[<<i, b>>] = Body(g, i, b)
  <2>1. g = [s \in S |-> Body(g, s[1], s[2])]
    BY <1>10, Zenon DEF S, States, Body
  <2>2. \A s \in S : g[s] = Body(g, s[1], s[2])
    <3> HIDE DEF Body, S
    <3> QED
      BY <2>1
  <2> HIDE DEF Body
  <2>3. ASSUME NEW i \in 1 .. l + 2, NEW b \in BOOLEAN PROVE g[<<i, b>>] = Body(g, i, b)
    <3>1. <<i, b>> \in S /\ <<i, b>>[1] = i /\ <<i, b>>[2] = b
      BY DEF States
    <3> HIDE DEF S
    <3> QED
      BY <2>2, <3>1
  <2> QED
    BY <2>3
<1>12. Splitting(g, text)
  BY <1>11, Zenon DEF Splitting, Body
<1> DEFINE holds == {s \in S : g[s] \in V}
<1>13. ASSUME NEW s \in S, s \in stop \/ next[s] \in holds PROVE s \in holds
  <2>1. g[s] = IF OverAt(text, s[1], s[2]) THEN <<>>
               ELSE <<Shown(text, s[1], s[2])>> \o g[OnwardFrom(text, s[1], s[2])]
    <3> HIDE DEF Body, S
    <3>1. s[1] \in 1 .. l + 2 /\ s[2] \in BOOLEAN /\ s = <<s[1], s[2]>>
      BY <1>2
    <3>2. g[<<s[1], s[2]>>] = Body(g, s[1], s[2])
      BY <1>11, <3>1, Zenon
    <3> QED
      BY <1>8, <3>1, <3>2, Zenon
  <2>2. CASE s \in stop
    <3>1. g[s] = <<>>
      BY <2>1, <2>2 DEF Over
    <3>2. <<>> \in V
      OBVIOUS
    <3> HIDE DEF V
    <3> QED
      BY <3>1, <3>2
  <2>3. CASE s \notin stop
    <3>1. /\ Shown(text, s[1], s[2]) \in C /\ ~OverAt(text, s[1], s[2])
          /\ next[s] = OnwardFrom(text, s[1], s[2])
      BY <1>3, <2>3
    <3> DEFINE c == Shown(text, s[1], s[2])
               r == g[OnwardFrom(text, s[1], s[2])]
    <3>2. c \in C /\ r \in Seq(C) /\ g[s] = <<c>> \o r
      BY <1>13, <2>1, <2>3, <3>1
    <3> HIDE DEF c, r
    <3>3. g[s] \in Seq(C)
      BY <3>2
    <3> QED
      BY <3>3
  <2> QED
    BY <2>2, <2>3
<1>14. S \subseteq holds
  <2>1. Descent(S, l + 2, LeftOf(text), next, stop)
    BY SplittingDescends
  <2> HIDE DEF S, holds, next, stop
  <2> QED
    BY <1>13, <2>1, DescentInduces
<1> QED
  BY <1>10, <1>12, <1>14
-----------------------------------------------------------------------------
(* A text in which no slash follows another, nor the first character, is   *)
(* split as its slashes say.                                               *)
Plain(text) ==
  /\ \A i \in DOMAIN text : text[i] # NUL
  /\ \A i \in DOMAIN text : text[i] = "/" => i > 2 /\ text[i - 1] # "/"
Marked(text) == [i \in DOMAIN text |-> IF text[i] = "/" THEN NUL ELSE text[i]]

LEMMA MarkedIs ==
  ASSUME NEW C, NEW text \in Seq(C), NUL \in C
  PROVE  /\ Marked(text) \in Seq(C) /\ Len(Marked(text)) = Len(text)
         /\ \A i \in 1 .. Len(text) : Marked(text)[i] = IF text[i] = "/" THEN NUL ELSE text[i]
<1>1. text \in [1 .. Len(text) -> C] /\ Len(text) \in Nat /\ DOMAIN text = 1 .. Len(text)
  OBVIOUS
<1>2. Marked(text) \in [1 .. Len(text) -> C]
  BY <1>1 DEF Marked
<1>3. \A i \in 1 .. Len(text) : Marked(text)[i] = IF text[i] = "/" THEN NUL ELSE text[i]
  BY <1>1 DEF Marked
<1> HIDE DEF Marked
<1> QED
  BY <1>1, <1>2, <1>3

(* The rest of a list is its next element and the rest behind that.        *)
LEMMA RestGrows ==
  ASSUME NEW C, NEW s \in Seq(C), NEW i \in 1 .. Len(s)
  PROVE  SubSeq(s, i, Len(s)) = <<s[i]>> \o SubSeq(s, i + 1, Len(s))
OBVIOUS

(* Split turns the slashes of a plain text into the ends of its strings.   *)
LEMMA PlainSplit ==
  ASSUME NEW C, NEW text \in Seq(C), NUL \in C, Plain(text)
  PROVE  Split(text) = Marked(text)
<1> DEFINE l == Len(text)
           marked == Marked(text)
           Rest(i) == SubSeq(marked, i, l)
           S == States(text)
           Behind(i) == i = 2 \/ (i - 1 \in 1 .. l /\ text[i - 1] = "/")
<1>1. PICK f : Split(text) = f[<<1, FALSE>>] /\ Splitting(f, text)
  BY SplitSteps
<1>2. l \in Nat /\ DOMAIN text = 1 .. l
  OBVIOUS
<1>3. /\ marked \in Seq(C) /\ Len(marked) = l
      /\ \A i \in 1 .. l : marked[i] = IF text[i] = "/" THEN NUL ELSE text[i]
  BY MarkedIs
<1>4. \A i \in 1 .. l : text[i] = "/" => i > 2 /\ text[i - 1] # "/"
  BY <1>2 DEF Plain
<1> HIDE DEF marked
<1>5. \A i \in 1 .. l : Rest(i) = <<marked[i]>> \o Rest(i + 1)
  BY <1>3, RestGrows
<1>6. \A i \in 1 .. l + 2 : i > l => Rest(i) = <<>>
  BY <1>2, <1>3
<1> HIDE DEF Rest
(* What follows place i, if the place is not behind a slash where the      *)
(* state says so.                                                          *)
<1> DEFINE holds == {n \in 0 .. l + 1 :
                       \A i \in 1 .. l + 2 : \A b \in BOOLEAN :
                         l + 2 - i = n /\ (b => Behind(i)) => f[<<i, b>>] = Rest(i)}
<1>7. ASSUME NEW i \in 1 .. l + 2, NEW b \in BOOLEAN, b => Behind(i),
             \A j \in 1 .. l + 2 : \A c \in BOOLEAN :
               j = i + 1 /\ (c => Behind(j)) => f[<<j, c>>] = Rest(j)
      PROVE  f[<<i, b>>] = Rest(i)
  <2>1. f[<<i, b>>] =
          IF i > l THEN <<>>
          ELSE IF text[i] # "/" THEN <<text[i]>> \o f[<<i + 1, i = 1>>]
          ELSE IF ~b THEN <<NUL>> \o f[<<i + 1, TRUE>>]
          ELSE IF i = l THEN <<>>
          ELSE <<text[i + 1]>> \o f[<<i + 2, TRUE>>]
    BY <1>1, Zenon DEF Splitting
  <2>2. CASE i > l
    BY <1>6, <2>1, <2>2, Zenon
  <2>3. CASE ~(i > l) /\ text[i] # "/"
    <3>1. i \in 1 .. l /\ i + 1 \in 1 .. l + 2 /\ (i = 1 => Behind(i + 1))
      BY <1>2, <2>3
    <3>2. (i = 1) \in BOOLEAN
      BY Zenon
    <3>3. f[<<i + 1, i = 1>>] = Rest(i + 1)
      <4> HIDE DEF Behind
      <4> QED
        BY <1>7, <3>1, <3>2, Zenon
    <3>4. f[<<i, b>>] = <<text[i]>> \o Rest(i + 1)
      BY <2>1, <2>3, <3>3, Zenon
    <3>5. marked[i] = text[i]
      BY <1>3, <2>3, <3>1
    <3> QED
      BY <1>5, <3>1, <3>4, <3>5
  <2>4. CASE ~(i > l) /\ text[i] = "/"
    <3>1. i \in 1 .. l /\ i + 1 \in 1 .. l + 2 /\ Behind(i + 1) /\ ~Behind(i)
      <4>1. i \in 1 .. l
        BY <1>2, <2>4
      <4>2. i > 2 /\ text[i - 1] # "/"
        BY <1>4, <2>4, <4>1
      <4> QED
        BY <1>2, <2>4, <4>1, <4>2
    <3>2. ~b /\ TRUE \in BOOLEAN
      BY <1>7, <3>1, Zenon
    <3>3. f[<<i + 1, TRUE>>] = Rest(i + 1)
      <4> HIDE DEF Behind
      <4> QED
        BY <1>7, <3>1, <3>2, Zenon
    <3>4. f[<<i, b>>] = <<NUL>> \o Rest(i + 1)
      BY <2>1, <2>4, <3>2, <3>3, Zenon
    <3>5. marked[i] = NUL
      BY <1>3, <2>4, <3>1
    <3> QED
      BY <1>5, <3>1, <3>4, <3>5
  <2> QED
    BY <2>2, <2>3, <2>4, Zenon
<1> HIDE DEF Behind
<1>8. 0 \in holds
  <2>1. ASSUME NEW i \in 1 .. l + 2, l + 2 - i = 0, NEW b \in BOOLEAN, b => Behind(i)
        PROVE  f[<<i, b>>] = Rest(i)
    <3>1. \A j \in 1 .. l + 2 : j # i + 1
      BY <1>2, <2>1
    <3> QED
      BY <1>7, <2>1, <3>1, Zenon
  <2>2. 0 \in 0 .. l + 1
    BY <1>2
  <2> QED
    BY <2>1, <2>2, Zenon
<1>9. ASSUME NEW n \in 1 .. l + 1, n - 1 \in holds PROVE n \in holds
  <2>1. ASSUME NEW i \in 1 .. l + 2, l + 2 - i = n, NEW b \in BOOLEAN, b => Behind(i)
        PROVE  f[<<i, b>>] = Rest(i)
    <3>1. \A j \in 1 .. l + 2 : j = i + 1 => l + 2 - j = n - 1
      BY <1>2, <2>1
    <3>2. \A j \in 1 .. l + 2 : \A c \in BOOLEAN :
            j = i + 1 /\ (c => Behind(j)) => f[<<j, c>>] = Rest(j)
      BY <1>9, <3>1, Zenon
    <3> QED
      BY <1>7, <2>1, <3>2, Zenon
  <2>2. n \in 0 .. l + 1
    BY <1>2
  <2> QED
    BY <2>1, <2>2, Zenon
<1>10. 0 .. l + 1 \subseteq holds
  <2>1. l + 1 \in Nat
    BY <1>2
  <2> HIDE DEF holds, l
  <2> QED
    BY <1>8, <1>9, <2>1, Inductive
<1>11. f[<<1, FALSE>>] = Rest(1)
  <2>1. 1 \in 1 .. l + 2 /\ l + 1 \in 0 .. l + 1 /\ l + 2 - 1 = l + 1
    BY <1>2
  <2>2. l + 1 \in holds /\ FALSE \in BOOLEAN
    BY <1>10, <2>1, Zenon
  <2> QED
    BY <2>1, <2>2, Zenon
<1>12. Rest(1) = marked
  BY <1>2, <1>3 DEF Rest
<1> QED
  BY <1>1, <1>11, <1>12 DEF marked

LEMMA UpToEmptyIs ==
  ASSUME NEW C, NEW text \in Seq(C)
  PROVE  UpToEmpty(text) \in Seq(C)
<1> DEFINE empty == {i \in DOMAIN text : text[i] = NUL /\ (i = 1 \/ text[i - 1] = NUL)}
           first == CHOOSE i \in empty : \A j \in empty : i <= j
<1>1. UpToEmpty(text) = IF empty = {} THEN text ELSE SubSeq(text, 1, first - 1)
  BY DEF UpToEmpty
<1>2. empty # {} => first \in 1 .. Len(text)
  <2>1. empty \subseteq Nat /\ empty \subseteq 1 .. Len(text)
    OBVIOUS
  <2> HIDE DEF empty
  <2> QED
    BY <2>1, ChosenIsFirst
<1>3. \A k \in 1 .. Len(text) : SubSeq(text, 1, k - 1) \in Seq(C)
  OBVIOUS
<1> HIDE DEF empty, first
<1> QED
  BY <1>1, <1>2, <1>3

(* The segments of a text are strings without NUL.                         *)
Segmented(text) == Pieces(UpToEmpty(Split(text)), NUL)

LEMMA SegmentsAre ==
  ASSUME NEW C, NEW text \in Seq(C), NUL \in C
  PROVE  Segmented(text) \in Seq(Words(C, NUL))
<1> DEFINE split == Split(text)
           cut == UpToEmpty(split)
<1>1. split \in Seq(C)
  <2>1. PICK f : Split(text) = f[<<1, FALSE>>] /\ \A s \in States(text) : f[s] \in Seq(C)
    BY SplitSteps
  <2>2. \A b \in BOOLEAN : <<1, b>> \in States(text)
    BY DEF States
  <2>3. <<1, FALSE>> \in States(text)
    BY <2>2, Zenon
  <2> QED
    BY <2>1, <2>3, Zenon
<1>2. cut \in Seq(C)
  <2> HIDE DEF split
  <2> QED
    BY <1>1, UpToEmptyIs
<1>3. Segmented(text) = Pieces(cut, NUL)
  BY DEF Segmented
<1> HIDE DEF cut
<1>4. PICK f : /\ Pieces(cut, NUL) = f[1]
               /\ f \in [1 .. Len(cut) + 2 -> Seq(Words(C, NUL))]
  BY <1>2, PiecesCut
<1>5. 1 \in 1 .. Len(cut) + 2
  BY <1>2
<1> QED
  BY <1>3, <1>4, <1>5

LEMMA PlainSegments ==
  ASSUME NEW C, NEW text \in Seq(C), NUL \in C, Plain(text)
  PROVE  Segmented(text) = Pieces(text, "/")
<1> DEFINE marked == Marked(text)
<1>1. /\ marked \in Seq(C) /\ Len(marked) = Len(text) /\ Len(text) \in Nat
      /\ \A i \in 1 .. Len(text) : marked[i] = IF text[i] = "/" THEN NUL ELSE text[i]
  BY MarkedIs
<1>2. Split(text) = marked
  BY PlainSplit
<1>3. \A i \in 1 .. Len(text) : text[i] # NUL /\ (text[i] = "/" => i > 2 /\ text[i - 1] # "/")
  <2>1. DOMAIN text = 1 .. Len(text)
    OBVIOUS
  <2> QED
    BY <2>1 DEF Plain
<1> HIDE DEF marked
<1>4. \A i \in 1 .. Len(text) : marked[i] = NUL <=> text[i] = "/"
  BY <1>1, <1>3
<1>5. \A i \in DOMAIN marked : ~(marked[i] = NUL /\ (i = 1 \/ marked[i - 1] = NUL))
  <2>1. SUFFICES ASSUME NEW i \in 1 .. Len(text), marked[i] = NUL
                 PROVE  i # 1 /\ marked[i - 1] # NUL
    BY <1>1
  <2>2. i > 2 /\ text[i - 1] # "/" /\ i - 1 \in 1 .. Len(text)
    BY <1>3, <1>4, <2>1
  <2> QED
    BY <1>4, <2>2
<1>6. UpToEmpty(marked) = marked
  BY <1>5 DEF UpToEmpty
<1>7. Pieces(text, "/") = Pieces(marked, NUL)
  <2>1. /\ \A i \in 1 .. Len(text) : text[i] = "/" <=> marked[i] = NUL
        /\ \A i \in 1 .. Len(text) : text[i] # "/" => marked[i] = text[i]
    BY <1>1, <1>4
  <2> QED
    BY <1>1, <2>1, SamePieces
<1> QED
  BY <1>2, <1>6, <1>7 DEF Segmented
(* Where segments are names, they lead where they say.                     *)
LEMMA LedWords ==
  ASSUME NEW C, NEW segments \in Seq(Words(C, "/"))
  PROVE  \A k \in 0 .. Len(segments) : Led(segments)[k] = SubSeq(segments, 1, k)
<1> DEFINE n == Len(segments)
           Good(h) == h = [k \in 0 .. n |-> IF k = 0 THEN <<>> ELSE h[k - 1] \o Pieces(segments[k], "/")]
           parts == [k \in 0 .. n |-> SubSeq(segments, 1, k)]
           led == CHOOSE h : Good(h)
<1>1. n \in Nat /\ \A k \in 1 .. n : segments[k] \in Words(C, "/")
  OBVIOUS
<1>2. \A k \in 1 .. n : Pieces(segments[k], "/") = <<segments[k]>>
  BY <1>1, OnePiece
<1>3. \A k \in 1 .. n : SubSeq(segments, 1, k - 1) \o <<segments[k]>> = SubSeq(segments, 1, k)
  <2>1. TAKE k \in 1 .. n
  <2>2. SubSeq(segments, 1, k - 1) \in Seq(Words(C, "/"))
    OBVIOUS
  <2>3. Append(SubSeq(segments, 1, k - 1), segments[k]) = SubSeq(segments, 1, k)
    BY <1>1
  <2> QED
    BY <1>1, <2>2, <2>3
<1>4. SubSeq(segments, 1, 0) = <<>>
  OBVIOUS
<1>5. Good(parts)
  <2>1. \A k \in 0 .. n : parts[k] = SubSeq(segments, 1, k)
    OBVIOUS
  <2>2. \A k \in 1 .. n : parts[k - 1] = SubSeq(segments, 1, k - 1)
    BY <1>1
  <2>3. \A k \in 0 .. n : k # 0 => k \in 1 .. n
    BY <1>1
  <2>4. \A k \in 0 .. n : parts[k] =
          IF k = 0 THEN <<>> ELSE parts[k - 1] \o Pieces(segments[k], "/")
    <3> HIDE DEF parts, n
    <3> QED
      BY <1>2, <1>3, <1>4, <2>1, <2>2, <2>3, Zenon
  <2>5. parts = [k \in 0 .. n |-> parts[k]]
    OBVIOUS
  <2> HIDE DEF parts, n
  <2> QED
    BY <2>4, <2>5, Zenon
<1>6. Good(led)
  <2> HIDE DEF Good, parts
  <2> QED
    BY <1>5, Zenon
<1>7. Led(segments) = led
  BY Zenon DEF Led
<1> HIDE DEF led
<1> DEFINE holds == {k \in 0 .. n : led[k] = SubSeq(segments, 1, k)}
<1>8. \A k \in 0 .. n : led[k] = IF k = 0 THEN <<>> ELSE led[k - 1] \o Pieces(segments[k], "/")
  BY <1>6, Zenon
<1>9. 0 \in holds
  <2>1. 0 \in 0 .. n
    BY <1>1
  <2> HIDE DEF n
  <2> QED
    BY <1>4, <1>8, <2>1, Zenon
<1>10. ASSUME NEW k \in 1 .. n, k - 1 \in holds PROVE k \in holds
  <2>1. k \in 0 .. n /\ k # 0
    BY <1>1
  <2>2. led[k] = led[k - 1] \o Pieces(segments[k], "/")
    BY <1>8, <2>1, Zenon
  <2>3. led[k] = SubSeq(segments, 1, k)
    BY <1>2, <1>3, <1>10, <2>2, Zenon
  <2> QED
    BY <2>1, <2>3, Zenon
<1>11. 0 .. n \subseteq holds
  <2> HIDE DEF holds, n
  <2> QED
    BY <1>1, <1>9, <1>10, Inductive
<1> QED
  BY <1>7, <1>11, Zenon

-----------------------------------------------------------------------------
(* From a request's path to its segments.                                  *)
LEMMA BareIs ==
  ASSUME NEW C, NEW path \in Seq(C), ~Malformed(path)
  PROVE  Bare(path) \in Seq(C) /\ Bare(path) # <<>>
<1> DEFINE marks == {i \in DOMAIN path : path[i] \in {"#", "?"}}
           first == CHOOSE i \in marks : \A j \in marks : i <= j
<1>1. Bare(path) = IF marks = {} THEN path ELSE SubSeq(path, 1, first - 1)
  BY DEF Bare
<1>2. path # <<>> /\ path[1] = "/"
  BY DEF Malformed
<1>3. marks \subseteq 2 .. Len(path)
  BY <1>2
<1>4. marks # {} => first \in 2 .. Len(path)
  <2>1. marks \subseteq Nat
    OBVIOUS
  <2> HIDE DEF marks
  <2> QED
    BY <1>3, <2>1, ChosenIsFirst
<1>5. \A k \in 2 .. Len(path) : SubSeq(path, 1, k - 1) \in Seq(C) /\ Len(SubSeq(path, 1, k - 1)) = k - 1
  OBVIOUS
<1> HIDE DEF marks, first
<1>6. CASE marks = {}
  BY <1>1, <1>2, <1>6
<1>7. CASE marks # {}
  <2>1. Bare(path) = SubSeq(path, 1, first - 1) /\ first \in 2 .. Len(path)
    BY <1>1, <1>4, <1>7
  <2>2. Bare(path) \in Seq(C) /\ Len(Bare(path)) = first - 1 /\ first - 1 > 0
    BY <1>5, <2>1
  <2> QED
    BY <2>2
<1> QED
  BY <1>6, <1>7

LEMMA TailIs ==
  ASSUME NEW C, NEW s \in Seq(C), s # <<>>
  PROVE  Tail(s) \in Seq(C)
OBVIOUS

LEMMA Widens ==
  ASSUME NEW C, NEW D, C \subseteq D, NEW s \in Seq(C)
  PROVE  s \in Seq(D)
OBVIOUS

LEMMA BelowIs ==
  ASSUME NEW htdocs, Listed(htdocs), htdocs # <<>>, NEW path, Listed(path), ~Malformed(path)
  PROVE  \E C : NUL \in C /\ Below(htdocs, path) \in Seq(C)
<1> DEFINE H == {htdocs[i] : i \in DOMAIN htdocs}
           P == {path[i] : i \in DOMAIN path}
           C == H \union P \union {NUL}
<1>1. htdocs \in Seq(H) /\ path \in Seq(P)
  BY DEF Listed
<1>2. NUL \in C /\ H \subseteq C /\ P \subseteq C
  OBVIOUS
<1> HIDE DEF H, P, C
<1>3. Tail(htdocs) \in Seq(C)
  BY <1>1, <1>2, TailIs, Widens
<1>4. Tail(Bare(path)) \in Seq(C)
  BY <1>1, <1>2, BareIs, TailIs, Widens
<1>5. Below(htdocs, path) \in Seq(C)
  BY <1>3, <1>4 DEF Below
<1> QED
  BY <1>2, <1>5

LEMMA SegmentsNumbered ==
  ASSUME NEW htdocs, Listed(htdocs), htdocs # <<>>, NEW path, Listed(path), ~Malformed(path)
  PROVE  /\ DOMAIN Segments(htdocs, path) = 1 .. Len(Segments(htdocs, path))
         /\ Len(Segments(htdocs, path)) \in Nat
<1>1. PICK C : NUL \in C /\ Below(htdocs, path) \in Seq(C)
  BY BelowIs
<1>2. Segments(htdocs, path) = Segmented(Below(htdocs, path))
  BY DEF Segments, Segmented
<1>3. Segments(htdocs, path) \in Seq(Words(C, NUL))
  BY <1>1, <1>2, SegmentsAre
<1> QED
  BY <1>3

(* The file is one that the segments of the path lead to, or an index.     *)
Reaches(site, path, file) ==
  LET segments == Segments(site.htdocs, path) IN
  /\ Listed(site.htdocs) /\ site.htdocs # <<>> /\ Listed(path) /\ ~Malformed(path)
  /\ \/ \E k \in 0 .. Len(segments) : file = Led(segments)[k]
     \/ \E i \in DOMAIN site.index :
          file = Append(Led(segments)[Len(segments)], site.index[i])

LEMMA OrdinaryLeads ==
  ASSUME NEW site, NEW path, Ordinary(site.htdocs, path), NEW file, Reaches(site, path, file)
  PROVE  LeadsTo(site, path, file)
<1> DEFINE text == Below(site.htdocs, path)
           segments == Segments(site.htdocs, path)
           n == Len(segments)
<1>1. PICK C : NUL \in C /\ text \in Seq(C)
  BY BelowIs DEF Reaches
<1>2. Plain(text)
  BY DEF Ordinary, Plain
<1>3. segments = Segmented(text) /\ PathNames(site.htdocs, path) = Pieces(text, "/")
  BY DEF Segments, Segmented, PathNames
<1> HIDE DEF text
<1>4. segments = PathNames(site.htdocs, path)
  BY <1>1, <1>2, <1>3, PlainSegments
<1>5. segments \in Seq(Words(C, "/"))
  <2>1. PICK f : /\ Pieces(text, "/") = f[1]
                 /\ f \in [1 .. Len(text) + 2 -> Seq(Words(C, "/"))]
    BY <1>1, PiecesCut
  <2>2. 1 \in 1 .. Len(text) + 2
    BY <1>1
  <2> QED
    BY <1>3, <1>4, <2>1, <2>2
<1> HIDE DEF segments
<1>6. n \in Nat /\ \A k \in 0 .. n : Led(segments)[k] = SubSeq(segments, 1, k)
  BY <1>5, LedWords
<1>7. \A k \in 0 .. n : Prefixes(SubSeq(segments, 1, k), segments)
  <2>1. SUFFICES ASSUME NEW k \in 0 .. n PROVE Prefixes(SubSeq(segments, 1, k), segments)
    OBVIOUS
  <2>2. Len(SubSeq(segments, 1, k)) = k /\ k <= Len(segments)
    BY <1>5
  <2> QED
    BY <2>2 DEF Prefixes
<1>8. SubSeq(segments, 1, n) = segments /\ n \in 0 .. n
  BY <1>5
<1>9. \/ \E k \in 0 .. n : file = Led(segments)[k]
      \/ \E i \in DOMAIN site.index : file = Append(Led(segments)[n], site.index[i])
  BY DEF Reaches, segments
<1> HIDE DEF n
<1> QED
  BY <1>4, <1>6, <1>7, <1>8, <1>9 DEF LeadsTo

-----------------------------------------------------------------------------
(* The caches.                                                             *)
(* The entries of a cache: each is in the list of a first entry for its    *)
(* path, and a list is not followed by another for its path unless its key *)
(* is lent.                                                                *)
Listing(c) ==
  \A i \in DOMAIN c :
    /\ c[i].list \in 1 .. i /\ c[c[i].list].list = c[i].list
    /\ c[c[i].list].request_path = c[i].request_path
Alone(c) ==
  \A i, j \in DOMAIN c :
    i < j /\ c[i].list = i /\ c[j].list = j /\ c[i].request_path = c[j].request_path
    => c[i].key # 0
Continues(c, d) == \A i \in DOMAIN c : i \in DOMAIN d /\ d[i] = c[i]

CachesAreLists == \E S : cache \in [Caching -> Seq(S)]
CachesList == CachesAreLists /\ \A v \in Caching : Listing(cache[v]) /\ Alone(cache[v])

Adds ==
  \E v, s, held : \E entries \in cache_add(cache[v], scache(s), held) :
    cache' = [cache EXCEPT ![v] = entries]

(* What the first entry of a list that serves is, and that it stays so.    *)
LEMMA ServingFits ==
  ASSUME NEW S, NEW c \in Seq(S), Listing(c), NEW path, NEW enc, NEW list \in Lists(c, path) \union {0},
         FirstServing(c, list, enc) # None
  PROVE  /\ list \in Lists(c, path)
         /\ FirstServing(c, list, enc).request_path = path
         /\ enc \/ ~FirstServing(c, list, enc).content_encoding
         /\ \E i \in DOMAIN c : FirstServing(c, list, enc) = c[i]
<1> DEFINE hits == {i \in DOMAIN c : /\ list # 0 /\ c[i].list = list
                                     /\ enc \/ ~c[i].content_encoding}
           first == CHOOSE k \in hits : \A j \in hits : k <= j
<1>1. FirstServing(c, list, enc) = IF hits = {} THEN None ELSE c[first]
  BY DEF FirstServing
<1>2. hits # {}
  <2> HIDE DEF hits, first
  <2> QED
    BY <1>1
<1>3. hits \subseteq Nat
  OBVIOUS
<1>4. first \in hits
  <2> HIDE DEF hits
  <2> QED
    BY <1>2, <1>3, ChosenIsFirst
<1>5. FirstServing(c, list, enc) = c[first]
  <2> HIDE DEF hits, first
  <2> QED
    BY <1>1, <1>2
<1>6. /\ first \in DOMAIN c /\ list # 0 /\ c[first].list = list
      /\ enc \/ ~c[first].content_encoding
  <2> HIDE DEF first
  <2> QED
    BY <1>4
<1> HIDE DEF first, hits
<1>7. list \in Lists(c, path)
  BY <1>6
<1>8. c[first].request_path = path
  <2>1. c[list].request_path = path
    BY <1>7 DEF Lists
  <2> QED
    BY <1>6, <2>1 DEF Listing
<1> QED
  BY <1>5, <1>6, <1>7, <1>8

LEMMA ServingStays ==
  ASSUME NEW S, NEW c \in Seq(S), NEW T, NEW d \in Seq(T), Continues(c, d), NEW list, NEW enc,
         FirstServing(c, list, enc) # None
  PROVE  FirstServing(d, list, enc) = FirstServing(c, list, enc)
<1> DEFINE Hits(x) == {i \in DOMAIN x : /\ list # 0 /\ x[i].list = list
                                        /\ enc \/ ~x[i].content_encoding}
           First(hits) == CHOOSE k \in hits : \A j \in hits : k <= j
<1>1. /\ FirstServing(c, list, enc) = IF Hits(c) = {} THEN None ELSE c[First(Hits(c))]
      /\ FirstServing(d, list, enc) = IF Hits(d) = {} THEN None ELSE d[First(Hits(d))]
  BY DEF FirstServing
<1>2. /\ DOMAIN c = 1 .. Len(c) /\ Len(c) \in Nat /\ DOMAIN d = 1 .. Len(d) /\ Len(d) \in Nat
      /\ \A i \in DOMAIN c : i \in DOMAIN d /\ d[i] = c[i]
  BY DEF Continues
<1>3. Hits(c) \subseteq Nat /\ Hits(d) \subseteq Nat
  BY <1>2
<1>4. Hits(c) # {}
  <2> HIDE DEF Hits, First
  <2> QED
    BY <1>1
<1>5. PICK i \in Hits(c) : \A j \in Hits(c) : i <= j
  <2> HIDE DEF Hits
  <2> QED
    BY <1>3, <1>4, FirstExists
<1>6. i \in Hits(d) /\ i \in DOMAIN c
  BY <1>2
<1>7. \A j \in Hits(d) : i <= j
  <2>1. TAKE j \in Hits(d)
  <2>2. CASE j \in DOMAIN c
    <3>1. j \in Hits(c)
      BY <1>2, <2>2
    <3> QED
      BY <1>5, <3>1
  <2>3. CASE j \notin DOMAIN c
    BY <1>2, <1>6, <2>3
  <2> QED
    BY <2>2, <2>3
<1>8. First(Hits(c)) = i /\ First(Hits(d)) = i
  <2> HIDE DEF Hits
  <2> QED
    BY <1>3, <1>5, <1>6, <1>7, FirstIsChosen
<1>9. Hits(d) # {}
  BY <1>6
<1> HIDE DEF Hits, First
<1> QED
  BY <1>1, <1>2, <1>4, <1>6, <1>8, <1>9

(* What a lookup finds is an entry for the path.                           *)
LEMMA FoundServes ==
  ASSUME NEW S, NEW c \in Seq(S), Listing(c), NEW path, NEW enc, NEW held,
         NEW e \in cache_get(c, path, enc, held), e # None
  PROVE  \E i \in DOMAIN c : e = c[i] /\ c[i].request_path = path
<1>1. PICK list \in hashmap_get(c, path, held) : e = FirstServing(c, list, enc)
  BY DEF cache_get
<1>2. list \in Lists(c, path) \union {0}
  BY <1>1 DEF hashmap_get
<1>3. e.request_path = path /\ \E i \in DOMAIN c : e = c[i]
  BY <1>1, <1>2, ServingFits
<1> QED
  BY <1>3

(* What a lookup may return when entries have been added and requests have *)
(* come and gone.                                                          *)
LEMMA AnswersStay ==
  ASSUME NEW S, NEW c \in Seq(S), NEW T, NEW d \in Seq(T), Continues(c, d), Listing(d), Alone(d),
         NEW path, NEW enc, NEW held, NEW later
  PROVE  /\ \A a \in cache_get(d, path, enc, later) :
              a = None \/ (a.request_path = path /\ (enc \/ ~a.content_encoding))
         /\ cache_get(c, path, enc, held) \ {None} \subseteq cache_get(d, path, enc, later)
         /\ /\ \A i \in Lists(d, path) : d[i].key = 0
            /\ cache_get(c, path, enc, held) # {None}
            => cache_get(d, path, enc, later) = cache_get(c, path, enc, held)
<1>1. \A x, h : Lists(x, path) \subseteq hashmap_get(x, path, h)
                /\ hashmap_get(x, path, h) \subseteq Lists(x, path) \union {0}
  BY DEF hashmap_get
<1>2. Lists(c, path) \subseteq Lists(d, path)
  BY DEF Lists, Continues
<1>3. ASSUME NEW a \in cache_get(d, path, enc, later), a # None
      PROVE  a.request_path = path /\ (enc \/ ~a.content_encoding)
  <2>1. PICK l \in hashmap_get(d, path, later) : a = FirstServing(d, l, enc)
    BY DEF cache_get
  <2>2. l \in Lists(d, path) \union {0}
    BY <1>1
  <2>3. FirstServing(d, l, enc) # None /\ d \in Seq(T) /\ Listing(d)
    BY <1>3, <2>1
  <2>4. FirstServing(d, l, enc).request_path = path
    BY <2>2, <2>3, ServingFits
  <2>5. enc \/ ~FirstServing(d, l, enc).content_encoding
    BY <2>2, <2>3, ServingFits
  <2> QED
    BY <2>1, <2>4, <2>5, Zenon
<1>4. ASSUME NEW a \in cache_get(c, path, enc, held), a # None
      PROVE  \E l \in Lists(c, path) : a = FirstServing(c, l, enc) /\ a = FirstServing(d, l, enc)
  <2>1. PICK l \in hashmap_get(c, path, held) : a = FirstServing(c, l, enc)
    BY DEF cache_get
  <2>2. l # 0
    BY <1>4, <2>1 DEF FirstServing
  <2>3. l \in Lists(c, path)
    BY <1>1, <2>2
  <2>4. FirstServing(d, l, enc) = FirstServing(c, l, enc)
    BY <1>4, <2>1, ServingStays
  <2> QED
    BY <2>1, <2>3, <2>4
<1>5. \A a \in cache_get(c, path, enc, held) : a # None => a \in cache_get(d, path, enc, later)
  BY <1>1, <1>2, <1>4 DEF cache_get
<1>6. ASSUME \A i \in Lists(d, path) : d[i].key = 0, cache_get(c, path, enc, held) # {None}
      PROVE  cache_get(d, path, enc, later) = cache_get(c, path, enc, held)
  <2>1. cache_get(c, path, enc, held) # {}
    <3>1. \E l : l \in hashmap_get(c, path, held)
      BY DEF hashmap_get
    <3> QED
      BY <3>1 DEF cache_get
  <2>2. PICK a \in cache_get(c, path, enc, held) : a # None
    BY <1>6, <2>1
  <2>3. PICK l \in Lists(c, path) : a = FirstServing(c, l, enc) /\ a = FirstServing(d, l, enc)
    BY <1>4, <2>2
  <2>4. \A j \in Lists(d, path) : j = l
    <3>1. SUFFICES ASSUME NEW j \in Lists(d, path), j # l PROVE FALSE
      OBVIOUS
    <3>2. /\ l \in DOMAIN d /\ j \in DOMAIN d /\ l \in Nat /\ j \in Nat
          /\ d[l].list = l /\ d[j].list = j /\ d[l].request_path = d[j].request_path
          /\ d[l].key = 0 /\ d[j].key = 0
      BY <1>2, <1>6, <2>3 DEF Lists
    <3>3. l < j \/ j < l
      BY <3>1, <3>2
    <3> QED
      BY <3>2, <3>3 DEF Alone
  <2>5. Lists(d, path) = {l} /\ Lists(c, path) = {l}
    BY <1>2, <2>3, <2>4
  <2>6. d[l].key = 0 /\ c[l] = d[l]
    BY <1>6, <2>3, <2>5 DEF Continues, Lists
  <2>7. hashmap_get(d, path, later) = {l} /\ hashmap_get(c, path, held) = {l}
    BY <2>5, <2>6 DEF hashmap_get
  <2> QED
    BY <2>3, <2>7 DEF cache_get
<1> QED
  BY <1>3, <1>5, <1>6

(* An insertion keeps the entries in such lists.                           *)
LEMMA AddLists ==
  ASSUME NEW S, NEW c \in Seq(S), Listing(c), Alone(c), NEW s, NEW held,
         NEW d \in cache_add(c, scache(s), held)
  PROVE  \E e : /\ d = Append(c, e) /\ d \in Seq(S \union {e}) /\ Continues(c, d)
                /\ Listing(d) /\ Alone(d)
<1> DEFINE n == Len(c) + 1
           new == scache(s)
<1>1. PICK l \in hashmap_get(c, s.path, held) :
        d = Append(c, [new EXCEPT !.list = IF l = 0 THEN n ELSE l])
  <2>1. new.request_path = s.path
    BY DEF scache
  <2> QED
    BY <2>1 DEF cache_add
<1>2. PICK e : e = [new EXCEPT !.list = IF l = 0 THEN n ELSE l]
  OBVIOUS
<1>3. e.request_path = s.path /\ e.list = IF l = 0 THEN n ELSE l
  BY <1>2 DEF scache
<1>4. d = Append(c, e)
  BY <1>1, <1>2
<1> HIDE DEF new
<1>5. /\ DOMAIN c = 1 .. Len(c) /\ Len(c) \in Nat /\ d \in Seq(S \union {e})
      /\ DOMAIN d = 1 .. n /\ d[n] = e /\ \A i \in DOMAIN c : i \in DOMAIN d /\ d[i] = c[i]
  <2>1. c \in Seq(S \union {e})
    OBVIOUS
  <2> QED
    BY <1>4, <2>1
<1>6. Continues(c, d)
  BY <1>5 DEF Continues
<1>7. /\ l # 0 => l \in Lists(c, s.path)
      /\ l = 0 => \A i \in Lists(c, s.path) : c[i].key # 0
  <2> DEFINE lists == Lists(c, s.path)
  <2>1. l \in IF \E j \in lists : c[j].key \in {0} \union held THEN lists ELSE lists \union {0}
    BY DEF hashmap_get
  <2>2. 0 \notin lists
    BY DEF Lists
  <2> HIDE DEF lists
  <2>3. /\ l # 0 => l \in lists
        /\ l = 0 => \A i \in lists : c[i].key # 0
    BY <2>1, <2>2
  <2> QED
    BY <2>3 DEF lists
<1>8. \A i \in DOMAIN c : i \in 1 .. Len(c) /\ c[i].list \in DOMAIN c /\ c[i].list \in 1 .. i
  BY <1>5 DEF Listing
<1>9. Listing(d)
  <2>1. ASSUME NEW i \in DOMAIN c
        PROVE  /\ d[i].list \in 1 .. i /\ d[d[i].list].list = d[i].list
               /\ d[d[i].list].request_path = d[i].request_path
    <3>1. d[i] = c[i] /\ d[c[i].list] = c[c[i].list]
      BY <1>5, <1>8
    <3> QED
      BY <1>8, <3>1 DEF Listing
  <2>2. CASE l = 0
    <3>1. d[n].list = n /\ n \in 1 .. n
      BY <1>3, <1>5, <2>2
    <3> QED
      BY <1>5, <2>1, <3>1 DEF Listing
  <2>3. CASE l # 0
    <3>1. /\ l \in DOMAIN c /\ c[l].list = l /\ c[l].request_path = s.path
          /\ d[n].list = l /\ d[n].request_path = s.path
      BY <1>3, <1>5, <1>7, <2>3 DEF Lists
    <3>2. d[l] = c[l] /\ l \in 1 .. n
      BY <1>5, <3>1
    <3> QED
      BY <1>5, <2>1, <3>1, <3>2 DEF Listing
  <2> QED
    BY <2>2, <2>3
<1>10. Alone(d)
  <2>1. SUFFICES ASSUME NEW i \in DOMAIN d, NEW j \in DOMAIN d, i < j,
                        d[i].list = i, d[j].list = j, d[i].request_path = d[j].request_path
                 PROVE  d[i].key # 0
    BY DEF Alone
  <2>2. i \in DOMAIN c /\ d[i] = c[i]
    BY <1>5, <2>1
  <2>3. CASE j \in DOMAIN c
    BY <1>5, <2>1, <2>2, <2>3 DEF Alone
  <2>4. CASE j \notin DOMAIN c
    <3>1. j = n
      BY <1>5, <2>4
    <3>2. l = 0 /\ c[i].request_path = s.path
      <4>1. l # 0 => l \in DOMAIN c
        BY <1>7 DEF Lists
      <4> QED
        BY <1>3, <1>5, <2>1, <2>2, <3>1, <4>1
    <3> QED
      BY <1>7, <2>1, <2>2, <3>2 DEF Lists
  <2> QED
    BY <2>3, <2>4
<1> QED
  BY <1>4, <1>5, <1>6, <1>9, <1>10

LEMMA StepAdds ==
  ASSUME [Next]_vars
  PROVE  UNCHANGED cache \/ Adds
<1>1. ASSUME NEW w \in Workers, Work(w)
      PROVE  UNCHANGED cache \/ Adds
  <2>1. CASE Store(w)
    BY <2>1, Zenon DEF Store, Adds
  <2>2. CASE Generate(w) \/ Mount(w) \/ Redirect(w) \/ Hit(w) \/ Miss(w)
    BY <2>2, Zenon DEF Generate, Mount, Redirect, Hit, Miss
  <2>3. CASE ResolvePath(w) \/ Admit(w) \/ Provide(w) \/ Read(w) \/ Finish(w)
    BY <2>3, Zenon DEF ResolvePath, Admit, Provide, Read, Finish
  <2>4. CASE BackendHeaders(w) \/ Update(w) \/ LoseUpdate(w)
    BY <2>4, Zenon DEF BackendHeaders, Update, LoseUpdate
  <2>5. CASE Measure(w) \/ SendHttp11(w) \/ SendHttp2(w)
    BY <2>5, Zenon DEF Measure, SendHttp11, SendHttp2
  <2> QED
    BY <1>1, <2>1, <2>2, <2>3, <2>4, <2>5, Zenon DEF Work
<1>2. ASSUME NEW w \in Workers, NEW r \in Asked, Receive(w, r) PROVE UNCHANGED cache
  BY <1>2, Zenon DEF Receive
<1>3. ASSUME NEW f \in Volatile, Change(f) PROVE UNCHANGED cache
  BY <1>3, Zenon DEF Change
<1>4. CASE UNCHANGED vars
  BY <1>4, Zenon DEF vars
<1> QED
  BY <1>1, <1>2, <1>3, <1>4, Zenon DEF Next

(* What a step does to the caches.                                         *)
LEMMA CachesContinue ==
  ASSUME CachesList, [Next]_vars
  PROVE  CachesList' /\ \A v \in Caching : Continues(cache[v], cache'[v])
<1>1. PICK S : cache \in [Caching -> Seq(S)]
  BY DEF CachesList, CachesAreLists
<1>2. CASE UNCHANGED cache
  BY <1>2 DEF CachesList, CachesAreLists, Continues
<1>3. CASE Adds
  <2>1. PICK v, s, held : \E entries \in cache_add(cache[v], scache(s), held) :
                            cache' = [cache EXCEPT ![v] = entries]
    BY <1>3 DEF Adds
  <2>2. PICK d \in cache_add(cache[v], scache(s), held) : cache' = [cache EXCEPT ![v] = d]
    BY <2>1
  <2>3. CASE v \notin Caching
    <3>1. cache' = cache
      BY <1>1, <2>2, <2>3
    <3> QED
      BY <3>1 DEF CachesList, CachesAreLists, Continues
  <2>4. CASE v \in Caching
    <3>1. cache[v] \in Seq(S) /\ Listing(cache[v]) /\ Alone(cache[v])
      BY <1>1, <2>4 DEF CachesList
    <3>2. PICK e : /\ d \in Seq(S \union {e}) /\ Continues(cache[v], d)
                   /\ Listing(d) /\ Alone(d)
      BY <3>1, AddLists
    <3>3. cache'[v] = d /\ \A u \in Caching \ {v} : cache'[u] = cache[u]
      BY <1>1, <2>2, <2>4
    <3>4. \A u \in Caching : cache'[u] \in Seq(S \union {e})
      <4>1. \A u \in Caching : cache[u] \in Seq(S) /\ cache[u] \in Seq(S \union {e})
        BY <1>1
      <4> QED
        BY <3>2, <3>3, <4>1
    <3>5. cache' \in [Caching -> Seq(S \union {e})]
      BY <1>1, <2>2, <3>4
    <3>6. CachesAreLists'
      BY <3>5, Zenon DEF CachesAreLists
    <3>7. \A u \in Caching : Listing(cache'[u]) /\ Alone(cache'[u]) /\ Continues(cache[u], cache'[u])
      <4>1. \A u \in Caching : Continues(cache[u], cache[u])
        BY DEF Continues
      <4> QED
        BY <3>2, <3>3, <4>1 DEF CachesList
    <3> QED
      BY <3>6, <3>7 DEF CachesList
  <2> QED
    BY <2>3, <2>4
<1> QED
  BY <1>2, <1>3, StepAdds

LEMMA CachesListed == Spec => []CachesList
<1>1. Init => CachesList
  <2>1. SUFFICES ASSUME Init
                 PROVE  /\ cache \in [Caching -> Seq({})]
                        /\ \A v \in Caching : Listing(cache[v]) /\ Alone(cache[v])
    BY DEF CachesList, CachesAreLists
  <2>2. cache = [v \in Caching |-> <<>>]
    BY <2>1 DEF Init, cache_new
  <2> QED
    BY <2>2 DEF Listing, Alone
<1>2. CachesList /\ [Next]_vars => CachesList'
  BY CachesContinue
<1> QED
  BY <1>1, <1>2, PTL DEF Spec

-----------------------------------------------------------------------------
Answer == [k \in Keys |-> cache_get(cache[k[1]], k[2], k[3], Held)]
LentKeys == {k \in Keys : Lent(k)}

LEMMA InitAnswers == Init => Once!Init
<1>1. SUFFICES ASSUME Init, NEW k \in Keys
               PROVE  cache_get(cache[k[1]], k[2], k[3], Held) = {None} /\ ~Lent(k)
  BY DEF Once!Init
<1>2. k[1] \in Caching
  BY DEF Keys
<1>3. cache[k[1]] = <<>>
  BY <1>1, <1>2 DEF Init, cache_new
<1>4. Lists(cache[k[1]], k[2]) = {}
  BY <1>3 DEF Lists
<1>5. hashmap_get(cache[k[1]], k[2], Held) = {0}
  BY <1>4 DEF hashmap_get
<1>6. FirstServing(cache[k[1]], 0, k[3]) = None
  BY DEF FirstServing
<1> QED
  BY <1>4, <1>5, <1>6 DEF cache_get, Lent

LEMMA StepAnswers ==
  ASSUME CachesList, [Next]_vars
  PROVE  Once!Next
<1>1. PICK S : cache \in [Caching -> Seq(S)]
  BY DEF CachesList, CachesAreLists
<1>2. CachesList' /\ \A v \in Caching : Continues(cache[v], cache'[v])
  BY CachesContinue
<1>3. PICK T : cache' \in [Caching -> Seq(T)]
  BY <1>2 DEF CachesList, CachesAreLists
<1>4. PICK held, later : held = Held /\ later = Held'
  OBVIOUS
<1>5. /\ Answer = [k \in Keys |-> cache_get(cache[k[1]], k[2], k[3], held)]
      /\ Answer' = [k \in Keys |-> cache_get(cache'[k[1]], k[2], k[3], later)]
  BY <1>4 DEF Answer
<1>6. ASSUME NEW k \in Keys
      PROVE  /\ \A a \in Answer'[k] : a = None \/ Fits(k, a)
             /\ Answer[k] \ {None} \subseteq Answer'[k]
             /\ ~Lent(k)' /\ Answer[k] # {None} => Answer'[k] = Answer[k]
             /\ Lent(k) => Lent(k)'
  <2>1. PICK c, d, path, enc : c = cache[k[1]] /\ d = cache'[k[1]] /\ path = k[2] /\ enc = k[3]
    OBVIOUS
  <2>2. k[1] \in Caching
    BY DEF Keys
  <2>3. c \in Seq(S) /\ d \in Seq(T) /\ Continues(c, d) /\ Listing(d) /\ Alone(d)
    BY <1>1, <1>2, <1>3, <2>1, <2>2 DEF CachesList
  <2>4. /\ Answer[k] = cache_get(c, path, enc, held) /\ Answer'[k] = cache_get(d, path, enc, later)
    BY <1>5, <2>1
  <2>5. Lent(k)' <=> \E i \in Lists(d, path) : d[i].key # 0
    BY <2>1 DEF Lent
  <2>6. Lent(k) <=> \E i \in Lists(c, path) : c[i].key # 0
    BY <2>1 DEF Lent
  <2>7. \A i \in Lists(c, path) : i \in Lists(d, path) /\ d[i] = c[i]
    BY <2>3 DEF Continues, Lists
  <2>8. /\ \A a \in cache_get(d, path, enc, later) :
             a = None \/ (a.request_path = path /\ (enc \/ ~a.content_encoding))
        /\ cache_get(c, path, enc, held) \ {None} \subseteq cache_get(d, path, enc, later)
        /\ /\ \A i \in Lists(d, path) : d[i].key = 0
           /\ cache_get(c, path, enc, held) # {None}
           => cache_get(d, path, enc, later) = cache_get(c, path, enc, held)
    BY <2>3, AnswersStay
  <2>9. \A a : Fits(k, a) <=> (a.request_path = path /\ (enc \/ ~a.content_encoding))
    BY <2>1 DEF Fits
  <2> QED
    BY <2>4, <2>5, <2>6, <2>7, <2>8, <2>9, Zenon
<1>7. LentKeys \subseteq LentKeys'
  BY <1>6 DEF LentKeys
<1> QED
  BY <1>6, <1>7 DEF Once!Next, Answer, LentKeys

(* The readers of the static caches see what OnceCache promises: entries   *)
(* that fit what is looked up, and always the same one, although the       *)
(* workers look up and insert in steps of their own, unless the path was   *)
(* inserted from memory that does not outlive its request.                 *)
THEOREM CacheRefinement == Spec => CacheSpec
<1>1. Init => Once!Init
  BY InitAnswers
<1>2. CachesList /\ [Next]_vars => [Once!Next]_<<Answer, LentKeys>>
  BY StepAnswers
<1> QED
  BY <1>1, <1>2, CachesListed, PTL DEF Spec, CacheSpec, Once!Spec, Answer, LentKeys

-----------------------------------------------------------------------------
(* The invariant.  A session is a record; a worker's is fit for its label. *)
Fields == {"id", "method", "proto", "path", "lent", "gzip", "tag", "vhost", "code", "headers",
           "body", "static", "names", "measured"}
Session(s) == s = [f \in Fields |-> s[f]]
SiteNames == {Sites[i].name : i \in DOMAIN Sites}

(* What is not streamed has a length.                                      *)
GoodBodies == {b \in Bodies : b.kind = "data" => b.size # "unknown"}

(* A body with code 200 is that of a file, or a provider's.                *)
FileOf(body, name, path) ==
  /\ body.pool = 0 /\ "file" \in DOMAIN body.content
  /\ Reaches(Vhost(Sites, name), path, body.content.file)
Traced(s) ==
  s.code = "200" =>
    /\ s.body # None
    /\ IF s.static THEN FileOf(s.body, s.vhost, s.path)
       ELSE s.body.kind = "stream" /\ s.body.pool = 0 /\ s.body.content = Page("dynamic")

(* A response without a body has one of three codes.                       *)
Bodiless(s) == s.code \in {"302", "304"} \/ (s.code = "500" /\ ~s.static)

(* The labels of handle_vhost_htdocs, and those of the senders.            *)
Serving == {"htdocs", "resolve", "admit", "provide", "read", "tag", "delayed"}
Sending == {"send", "write"}
Ending == {"update"} \union Sending
USE DEF Sending, Ending

Placed(label, s) ==
  /\ Session(s) /\ label \in Labels \ {"idle"} /\ Listed(s.path)
  /\ s.vhost \in {None} \union SiteNames /\ s.body \in {None} \union GoodBodies
  /\ label \in {"mount", "redirect"} => s.vhost # None /\ Vhost(Sites, s.vhost).type = label
  /\ label \in Serving => s.vhost # None /\ Vhost(Sites, s.vhost).type = "htdocs"
  /\ label \in {"mount", "redirect", "htdocs"} => s.body = None
  /\ label \in {"resolve", "admit", "read", "update", "delayed"} => s.body # None
  /\ label \notin {"tag", "delayed"} \union Ending => s.static = TRUE
  /\ label \in {"tag"} \union Sending /\ s.body = None => Bodiless(s)
  /\ label = "tag" /\ s.static => s.body # None
  /\ label \in {"admit", "provide", "read"} => Reaches(Vhost(Sites, s.vhost), s.path, s.names)
  /\ label \in {"tag", "delayed"} \union Ending => Traced(s)
  /\ s.code = "304" => label \in Sending
  /\ label = "write" => s.proto = "HTTP/1.1"

(* What a header container says, and the names it is looked up by.         *)
Pairs(h) == {<<h.list[i].name, h.list[i].value>> : i \in DOMAIN h.list}
LowerNames == {"location", "etag", "content-type", "content-length", "cache-control",
               "transfer-encoding", ":status"}
Container(h) == Listed(h.list) /\ DOMAIN h.map \subseteq LowerNames

(* It says nothing of the end of a body, or only that content is its end,  *)
(* or what there is to say of a session's body.                            *)
Silent(h) == Container(h) /\ \A p \in Pairs(h) : p[1] # "content-length"
Fresh(h) == Silent(h) /\ "transfer-encoding" \notin DOMAIN h.map
Says(h, content) ==
  /\ Container(h) /\ "transfer-encoding" \notin DOMAIN h.map
  /\ <<"content-length", content>> \in Pairs(h)
  /\ \A p \in Pairs(h) : p[1] = "content-length" => p[2] = content
Tells(h, s) ==
  IF s.body.size # "unknown" THEN Says(h, s.body.content)
  ELSE IF s.proto = "HTTP/1.1" THEN Silent(h) /\ \E p \in Pairs(h) : p[1] = "transfer-encoding"
  ELSE Fresh(h)

(* A container is a request's own until an entry of a cache has it.        *)
Owned(label, s, h) ==
  IF label \notin Sending THEN Fresh(h)
  ELSE (s.body # None => Tells(h, s)) /\ (label = "write" => s.measured = h.list)
Shared(label, s) ==
  /\ label \in Ending
  /\ s.body # None => \E v \in Caching : \E i \in DOMAIN cache[v] :
       cache[v][i].headers = s.headers /\ cache[v][i].body = s.body

(* Who is told that nothing has changed has what an entry holds.           *)
Validated(s) ==
  s.code = "304" =>
    /\ s.vhost \in Caching
    /\ \E i \in DOMAIN cache[s.vhost] :
         LET e == cache[s.vhost][i] IN
         e.request_path = s.path /\ e.code = "200" /\ e.body.content = s.tag

Busy(w) ==
  /\ Placed(at[w], rs[w]) /\ Validated(rs[w])
  /\ rs[w].id \in 1 .. asked /\ rs[w].headers \in 1 .. asked
  /\ IF InCache(rs[w].headers) THEN Shared(at[w], rs[w])
     ELSE rs[w].headers = rs[w].id /\ Owned(at[w], rs[w], headers[rs[w].headers])

Basics ==
  /\ at \in [Workers -> Labels] /\ rs = [w \in Workers |-> rs[w]] /\ crashed \in BOOLEAN
  /\ asked \in 0 .. MaxRequests /\ changes \in 0 .. MaxChanges
  /\ headers = [i \in 1 .. asked |-> headers[i]]
  /\ DOMAIN files \subseteq DOMAIN Disk /\ files \in [DOMAIN files -> Files]
  /\ cache = [v \in Caching |-> cache[v]] /\ \A v \in Caching : Listed(cache[v])

Working == \A w \in Workers : IF at[w] = "idle" THEN rs[w] = None ELSE Busy(w)
Apart ==
  \A w, v \in Workers :
    at[w] # "idle" /\ at[v] # "idle" /\ rs[w].id = rs[v].id => w = v

(* The entries of the caches: their headers go with their bodies.          *)
Entered(v, e) ==
  /\ e.headers \in 1 .. asked /\ e.body \in GoodBodies /\ e.body.kind = "data"
  /\ e.etag = e.body.content /\ e.code # "304"
  /\ e.code = "200" => FileOf(e.body, v, e.request_path)
  /\ Says(headers[e.headers], e.body.content)
Kept == \A v \in Caching : \A i \in DOMAIN cache[v] : Entered(v, cache[v][i])

(* What was sent: a file that the path leads to, with its octets, what a   *)
(* provider makes, or word that nothing has changed.                       *)
Answers ==
  reply # None =>
    LET s == reply.session IN
    /\ s.code = "200" =>
         IF s.static
           THEN /\ "file" \in DOMAIN s.body.content
                /\ Reaches(Vhost(Sites, s.vhost), s.path, s.body.content.file)
                /\ s.body.kind = "data" /\ s.body.size # "empty" /\ s.method # "HEAD"
                   => reply.octets = s.body.content
           ELSE s.body.content = Page("dynamic")
    /\ s.code = "304" =>
         \E i \in DOMAIN cache[s.vhost] :
           LET e == cache[s.vhost][i] IN
           /\ e.request_path = s.path /\ e.body # None /\ e.body.content = s.tag
           /\ Reaches(Vhost(Sites, s.vhost), s.path, e.body.content.file)

IInv == Basics /\ Working /\ Apart /\ Kept /\ Framed /\ Answers

-----------------------------------------------------------------------------
(* Records.                                                                *)
Same(t, s, changed) == Session(t) /\ \A f \in Fields \ changed : t[f] = s[f]

-----------------------------------------------------------------------------
(* Header containers.                                                      *)
LEMMA LowerCase ==
  /\ str_tolower("Location") = "location" /\ str_tolower("ETag") = "etag"
  /\ str_tolower("Content-Type") = "content-type"
  /\ str_tolower("Content-Length") = "content-length"
  /\ str_tolower("Cache-Control") = "cache-control"
  /\ str_tolower("Transfer-Encoding") = "transfer-encoding"
  /\ str_tolower(":status") = ":status" /\ str_tolower("connection") = "connection"
  /\ str_tolower("transfer-encoding") = "transfer-encoding"
BY DEF str_tolower

InFront(e, s) == <<e>> \o s

LEMMA ListGrows ==
  ASSUME NEW s, Listed(s), NEW e
  PROVE  /\ Listed(Append(s, e)) /\ Listed(InFront(e, s))
         /\ Len(s) \in Nat /\ DOMAIN s = 1 .. Len(s)
         /\ DOMAIN Append(s, e) = DOMAIN s \union {Len(s) + 1}
         /\ \A i \in DOMAIN s : Append(s, e)[i] = s[i]
         /\ Append(s, e)[Len(s) + 1] = e
         /\ DOMAIN InFront(e, s) = 1 .. Len(s) + 1 /\ InFront(e, s)[1] = e
         /\ \A i \in DOMAIN s : i + 1 \in DOMAIN InFront(e, s) /\ InFront(e, s)[i + 1] = s[i]
<1> DEFINE S == {s[i] : i \in DOMAIN s}
           T == S \union {e}
           a == Append(s, e)
           b == InFront(e, s)
<1>1. s \in Seq(T) /\ Len(s) \in Nat /\ DOMAIN s = 1 .. Len(s) /\ e \in T
  <2>1. s \in Seq(S)
    BY DEF Listed
  <2> HIDE DEF S
  <2> QED
    BY <2>1
<1> HIDE DEF T
<1>2. /\ a \in Seq(T) /\ Len(a) = Len(s) + 1 /\ DOMAIN a = 1 .. Len(s) + 1
      /\ \A i \in DOMAIN s : a[i] = s[i]
      /\ a[Len(s) + 1] = e
  BY <1>1
<1>3. /\ b \in Seq(T) /\ Len(b) = Len(s) + 1 /\ DOMAIN b = 1 .. Len(s) + 1
      /\ b[1] = e
      /\ \A i \in DOMAIN s : b[i + 1] = s[i] /\ i + 1 \in DOMAIN b
  <2>1. <<e>> \in Seq(T) /\ Len(<<e>>) = 1
    BY <1>1
  <2> QED
    BY <1>1, <2>1 DEF InFront
<1>4. ASSUME NEW q, q \in Seq(T) PROVE Listed(q)
  <2>1. q \in [1 .. Len(q) -> T] /\ Len(q) \in Nat /\ DOMAIN q = 1 .. Len(q)
    BY <1>4
  <2> DEFINE Q == {q[i] : i \in DOMAIN q}
  <2>2. q \in [1 .. Len(q) -> Q]
    BY <2>1
  <2> HIDE DEF Q
  <2>3. q \in Seq(Q)
    BY <2>1, <2>2
  <2> QED
    BY <2>3 DEF Q, Listed
<1> HIDE DEF a, b
<1>5. /\ Listed(a) /\ Listed(b)
      /\ DOMAIN a = DOMAIN s \union {Len(s) + 1}
      /\ \A i \in DOMAIN s : a[i] = s[i]
      /\ a[Len(s) + 1] = e
      /\ DOMAIN b = 1 .. Len(s) + 1 /\ b[1] = e
      /\ \A i \in DOMAIN s : i + 1 \in DOMAIN b /\ b[i + 1] = s[i]
  BY <1>1, <1>2, <1>3, <1>4
<1> QED
  BY <1>1, <1>5, Zenon DEF a, b

(* Adding, in front or behind, a value that was not there.                 *)
LEMMA AddPair ==
  ASSUME NEW h, Container(h), NEW name, NEW value, str_tolower(name) \in LowerNames
  PROVE  /\ Container(header_add(h, name, value)) /\ Container(header_prepend(h, name, value))
         /\ Pairs(header_add(h, name, value)) = Pairs(h) \union {<<str_tolower(name), value>>}
         /\ Pairs(header_prepend(h, name, value)) = Pairs(h) \union {<<str_tolower(name), value>>}
         /\ DOMAIN header_add(h, name, value).map = DOMAIN h.map \union {str_tolower(name)}
         /\ DOMAIN header_prepend(h, name, value).map = DOMAIN h.map \union {str_tolower(name)}
<1> DEFINE key == str_tolower(name)
           e == [id |-> h.made + 1, name |-> key, value |-> value]
           s == h.list
           a == Append(s, e)
           b == InFront(e, s)
           g == header_add(h, name, value)
           f == header_prepend(h, name, value)
<1>1. Listed(s) /\ DOMAIN h.map \subseteq LowerNames
  BY DEF Container
<1>2. g.list = a /\ f.list = b
  BY DEF header_add, header_prepend, InFront
<1>3. DOMAIN g.map = DOMAIN h.map \union {key} /\ DOMAIN f.map = DOMAIN h.map \union {key}
  BY DEF header_add, header_prepend, hashmap_put
<1>4. e.name = key /\ e.value = value
  OBVIOUS
<1> HIDE DEF e, key, s
<1>5. /\ Listed(a) /\ Listed(b)
      /\ DOMAIN a = DOMAIN s \union {Len(s) + 1} /\ DOMAIN b = 1 .. Len(s) + 1
      /\ \A i \in DOMAIN s : a[i] = s[i] /\ i + 1 \in DOMAIN b /\ b[i + 1] = s[i]
      /\ a[Len(s) + 1] = e /\ b[1] = e
  <2>1. /\ Listed(a) /\ Listed(b)
        /\ DOMAIN a = DOMAIN s \union {Len(s) + 1}
        /\ \A i \in DOMAIN s : a[i] = s[i]
        /\ a[Len(s) + 1] = e
        /\ DOMAIN b = 1 .. Len(s) + 1 /\ b[1] = e
        /\ \A i \in DOMAIN s : i + 1 \in DOMAIN b /\ b[i + 1] = s[i]
    BY <1>1, ListGrows
  <2> HIDE DEF a, b
  <2> QED
    BY <2>1
<1>6. Len(s) \in Nat /\ DOMAIN s = 1 .. Len(s)
  BY <1>1, ListGrows
<1> HIDE DEF a, b, g, f
<1>7. Container(g) /\ Container(f)
  BY <1>1, <1>2, <1>3, <1>5 DEF Container, key
<1> DEFINE P(q) == {<<q[i].name, q[i].value>> : i \in DOMAIN q}
<1>8. P(a) = P(s) \union {<<key, value>>}
  BY <1>4, <1>5, <1>6
<1>9. P(b) = P(s) \union {<<key, value>>}
  <2>1. \A i \in DOMAIN b : i = 1 \/ \E k \in DOMAIN s : i = k + 1
    <3>1. TAKE i \in DOMAIN b
    <3>2. i # 1 => i - 1 \in DOMAIN s /\ i = (i - 1) + 1
      BY <1>5, <1>6
    <3> QED
      BY <3>2
  <2>2. P(b) \subseteq P(s) \union {<<key, value>>}
    BY <1>4, <1>5, <2>1
  <2>3. 1 \in DOMAIN b
    BY <1>5, <1>6
  <2>4. P(s) \union {<<key, value>>} \subseteq P(b)
    BY <1>4, <1>5, <2>3
  <2> QED
    BY <2>2, <2>4
<1>10. Pairs(g) = P(g.list) /\ Pairs(f) = P(f.list) /\ Pairs(h) = P(s)
  BY DEF Pairs, s
<1> HIDE DEF P
<1> QED
  BY <1>2, <1>3, <1>7, <1>8, <1>9, <1>10 DEF g, f, key

(* A name with capitals is never found: the value is added.                *)
LEMMA NeverSet ==
  ASSUME NEW h, Container(h), NEW value,
         NEW name \in {"Content-Type", "Content-Length", "Transfer-Encoding"}
  PROVE  header_setoradd(h, name, value) = header_add(h, name, value)
<1>1. name \notin DOMAIN h.map
  BY DEF Container, LowerNames
<1> QED
  BY <1>1 DEF header_setoradd, Under

(* What other names add changes nothing of what is said of the end.        *)
LEMMA OtherPair ==
  ASSUME NEW h, Container(h), NEW name, NEW value,
         str_tolower(name) \in LowerNames \ {"content-length", "transfer-encoding"},
         NEW g \in {header_add(h, name, value), header_prepend(h, name, value)}
  PROVE  /\ Container(g) /\ (Fresh(h) => Fresh(g)) /\ (Silent(h) => Silent(g))
         /\ \A c : Says(h, c) => Says(g, c)
         /\ \A s : Tells(h, s) => Tells(g, s)
<1> DEFINE key == str_tolower(name)
<1>1. /\ Container(g) /\ Pairs(g) = Pairs(h) \union {<<key, value>>}
      /\ DOMAIN g.map = DOMAIN h.map \union {key}
  BY AddPair
<1>2. key # "content-length" /\ key # "transfer-encoding" /\ <<key, value>>[1] = key
  OBVIOUS
<1> HIDE DEF key
<1>3. (Fresh(h) => Fresh(g)) /\ (Silent(h) => Silent(g))
  BY <1>1, <1>2 DEF Fresh, Silent
<1>4. \A c : Says(h, c) => Says(g, c)
  BY <1>1, <1>2 DEF Says
<1>5. \A s : Tells(h, s) => Tells(g, s)
  <2>1. TAKE s
  <2>2. (\E p \in Pairs(h) : p[1] = "transfer-encoding")
          => \E p \in Pairs(g) : p[1] = "transfer-encoding"
    BY <1>1
  <2> QED
    BY <1>3, <1>4, <2>2 DEF Tells
<1> QED
  BY <1>1, <1>3, <1>4, <1>5

LEMMA LengthPair ==
  ASSUME NEW h, NEW content, Fresh(h) \/ Says(h, content)
  PROVE  Says(header_setoradd(h, "Content-Length", content), content)
<1> DEFINE g == header_setoradd(h, "Content-Length", content)
           key == "content-length"
<1>1. Container(h) /\ "transfer-encoding" \notin DOMAIN h.map
  BY DEF Fresh, Silent, Says
<1>2. g = header_add(h, "Content-Length", content)
  BY <1>1, NeverSet
<1>3. str_tolower("Content-Length") = key /\ key \in LowerNames
  BY LowerCase DEF LowerNames
<1>4. /\ Container(g) /\ Pairs(g) = Pairs(h) \union {<<key, content>>}
      /\ DOMAIN g.map = DOMAIN h.map \union {key}
  BY <1>1, <1>2, <1>3, AddPair
<1>5. \A p \in Pairs(h) : p[1] = key => p[2] = content
  BY DEF Fresh, Silent, Says
<1>6. <<key, content>>[1] = key /\ <<key, content>>[2] = content /\ key # "transfer-encoding"
  OBVIOUS
<1> HIDE DEF g
<1>7. Says(g, content)
  BY <1>1, <1>4, <1>5, <1>6 DEF Says
<1> QED
  BY <1>7 DEF g

LEMMA TypePair ==
  ASSUME NEW h, Container(h), NEW value
  PROVE  /\ Fresh(h) => Fresh(header_setoradd(h, "Content-Type", value))
         /\ \A c : Says(h, c) => Says(header_setoradd(h, "Content-Type", value), c)
<1>1. header_setoradd(h, "Content-Type", value) = header_add(h, "Content-Type", value)
  BY NeverSet
<1>2. str_tolower("Content-Type") \in LowerNames \ {"content-length", "transfer-encoding"}
  BY LowerCase DEF LowerNames
<1> QED
  BY <1>1, <1>2, OtherPair

LEMMA CodingPair ==
  ASSUME NEW h, Fresh(h), NEW value
  PROVE  /\ Silent(header_setoradd(h, "Transfer-Encoding", value))
         /\ \E p \in Pairs(header_setoradd(h, "Transfer-Encoding", value)) :
              p[1] = "transfer-encoding"
<1> DEFINE g == header_setoradd(h, "Transfer-Encoding", value)
           key == "transfer-encoding"
<1>1. Container(h) /\ \A p \in Pairs(h) : p[1] # "content-length"
  BY DEF Fresh, Silent
<1>2. g = header_add(h, "Transfer-Encoding", value)
  BY <1>1, NeverSet
<1>3. str_tolower("Transfer-Encoding") = key /\ key \in LowerNames
  BY LowerCase DEF LowerNames
<1>4. Container(g) /\ Pairs(g) = Pairs(h) \union {<<key, value>>}
  BY <1>1, <1>2, <1>3, AddPair
<1>5. <<key, value>>[1] = key /\ key # "content-length"
  OBVIOUS
<1> HIDE DEF g
<1>6. Silent(g) /\ <<key, value>> \in Pairs(g)
  BY <1>1, <1>4, <1>5 DEF Silent
<1> QED
  BY <1>5, <1>6 DEF g

(* The steps of the handlers on a container.                               *)
LEMMA HandlersAdd ==
  ASSUME NEW h, Fresh(h), NEW site, NEW s, NEW code, NEW type
  PROVE  /\ Fresh(ErrorHeaders(site, h, code)) /\ Fresh(WithTag(s, h))
         /\ Fresh(check_client_cache(site, type, h))
         /\ Fresh(header_add(h, "Location", type))
<1>1. Container(h)
  BY DEF Fresh, Silent
<1>2. \A name \in {"Location", "ETag", "Cache-Control"} : \A value :
        Fresh(header_add(h, name, value))
  <2>1. TAKE name \in {"Location", "ETag", "Cache-Control"}
  <2>2. TAKE value
  <2>3. str_tolower(name) \in LowerNames \ {"content-length", "transfer-encoding"}
    BY LowerCase DEF LowerNames
  <2> QED
    BY <1>1, <2>3, OtherPair
<1> QED
  BY <1>2 DEF ErrorHeaders, WithTag, check_client_cache

LEMMA UpdateTells ==
  ASSUME NEW h, NEW s
  PROVE  /\ Fresh(h) => Tells(updateContentHeaders(s, h), s)
         /\ s.body.size # "unknown" /\ Says(h, s.body.content)
              => Says(updateContentHeaders(s, h), s.body.content)
<1> DEFINE typed == IF s.body.type = None THEN h
                    ELSE header_setoradd(h, "Content-Type", s.body.type)
<1>1. /\ Fresh(h) => Fresh(typed)
      /\ Says(h, s.body.content) => Says(typed, s.body.content)
  <2>1. Fresh(h) \/ Says(h, s.body.content) => Container(h)
    BY DEF Fresh, Silent, Says
  <2> QED
    BY <2>1, TypePair
<1>2. updateContentHeaders(s, h) =
        IF s.body.size # "unknown" THEN header_setoradd(typed, "Content-Length", s.body.content)
        ELSE IF s.proto = "HTTP/1.1" THEN header_setoradd(typed, "Transfer-Encoding", "chunked")
        ELSE typed
  BY DEF updateContentHeaders
<1> HIDE DEF typed
<1>3. Fresh(typed) \/ Says(typed, s.body.content)
        => Says(header_setoradd(typed, "Content-Length", s.body.content), s.body.content)
  BY LengthPair
<1>4. Fresh(typed) =>
        /\ Silent(header_setoradd(typed, "Transfer-Encoding", "chunked"))
        /\ \E p \in Pairs(header_setoradd(typed, "Transfer-Encoding", "chunked")) :
             p[1] = "transfer-encoding"
  BY CodingPair
<1> QED
  BY <1>1, <1>2, <1>3, <1>4 DEF Tells

(* HTTP/2 deletes what is not there.                                       *)
LEMMA NothingDeleted ==
  ASSUME NEW h, Container(h), "transfer-encoding" \notin DOMAIN h.map
  PROVE  header_del(header_del(h, "connection"), "transfer-encoding") = h
<1>1. "connection" \notin DOMAIN h.map
  BY DEF Container, LowerNames
<1>2. header_del(h, "connection") = h
  BY <1>1, LowerCase DEF header_del, Under
<1>3. header_del(h, "transfer-encoding") = h
  BY LowerCase DEF header_del, Under
<1> QED
  BY <1>2, <1>3

(* What a client reads in the headers is what they say.                    *)
LEMMA ReadPairs ==
  ASSUME NEW h, Container(h), NEW name
  PROVE  /\ \A i \in DOMAIN Values(h, name) : <<str_tolower(name), Values(h, name)[i]>> \in Pairs(h)
         /\ Values(h, name) = <<>> <=> \A p \in Pairs(h) : p[1] # str_tolower(name)
<1> DEFINE key == str_tolower(name)
           places == {i \in DOMAIN h.list : h.list[i].name = key}
           v == [i \in places |-> h.list[i].value]
<1>1. Values(h, name) = v
  BY DEF Values
<1>2. \A i \in DOMAIN v : <<key, v[i]>> \in Pairs(h)
  BY DEF Pairs
<1>3. v = <<>> <=> places = {}
  OBVIOUS
<1>4. places = {} <=> \A p \in Pairs(h) : p[1] # key
  <2> HIDE DEF key, v
  <2>1. ASSUME places = {}, NEW p \in Pairs(h) PROVE p[1] # key
    <3>1. PICK i \in DOMAIN h.list : p = <<h.list[i].name, h.list[i].value>>
      BY DEF Pairs
    <3> QED
      BY <2>1, <3>1
  <2>2. ASSUME \A p \in Pairs(h) : p[1] # key, NEW i \in places PROVE FALSE
    <3>1. <<h.list[i].name, h.list[i].value>> \in Pairs(h)
      BY DEF Pairs
    <3>2. <<h.list[i].name, h.list[i].value>>[1] # key
      BY <2>2, <3>1
    <3> QED
      BY <3>2
  <2> QED
    BY <2>1, <2>2
<1> HIDE DEF v, places
<1> QED
  BY <1>1, <1>2, <1>3, <1>4

-----------------------------------------------------------------------------
(* The virtual hosts.                                                      *)
LEMMA SitesNumbered == DOMAIN Sites \subseteq Nat
<1> DEFINE S == {Sites[i] : i \in DOMAIN Sites}
<1>1. Sites \in Seq(S)
  BY SiteAssumption DEF Listed
<1> HIDE DEF S
<1> QED
  BY <1>1

LEMMA ListNumbered ==
  ASSUME NEW s, Listed(s)
  PROVE  DOMAIN s \subseteq Nat
<1>1. Len(s) \in Nat /\ DOMAIN s = 1 .. Len(s)
  BY ListGrows
<1> QED
  BY <1>1

LEMMA VhostNamed ==
  ASSUME NEW name \in SiteNames
  PROVE  /\ name # None
         /\ \E i \in DOMAIN Sites : Vhost(Sites, name) = Sites[i] /\ Sites[i].name = name
<1> DEFINE Right(i) == Sites[i].name = name
<1>1. \E i \in DOMAIN Sites : Right(i)
  BY DEF SiteNames
<1> DEFINE k == CHOOSE i \in DOMAIN Sites : Right(i)
<1>2. k \in DOMAIN Sites /\ Right(k)
  <2> HIDE DEF Right
  <2> QED
    BY <1>1
<1>3. Vhost(Sites, name) = Sites[k]
  BY DEF Vhost
<1>4. name # None
  BY <1>2, SiteAssumption
<1> HIDE DEF k
<1> QED
  BY <1>2, <1>3, <1>4

LEMMA SiteTypes ==
  ASSUME NEW name \in SiteNames
  PROVE  Vhost(Sites, name).type \in {"htdocs", "mount", "redirect"}
<1>1. PICK i \in DOMAIN Sites : Vhost(Sites, name) = Sites[i]
  BY VhostNamed
<1>2. Sites[i].type \in {"htdocs", "mount", "redirect"}
  BY SiteAssumption
<1> QED
  BY <1>1, <1>2

LEMMA VhostDetermined ==
  ASSUME NEW host
  PROVE  determine_vhost(Sites, host) \in {None} \union SiteNames
<1> DEFINE taking == {i \in DOMAIN Sites : Takes(Sites[i], host)}
           k == CHOOSE i \in taking : \A j \in taking : i <= j
<1>1. taking \subseteq Nat /\ taking \subseteq DOMAIN Sites
  BY SitesNumbered
<1>2. determine_vhost(Sites, host) = IF taking = {} THEN None ELSE Sites[k].name
  BY DEF determine_vhost
<1>3. taking # {} => k \in taking
  <2> HIDE DEF taking
  <2> QED
    BY <1>1, ChosenIsFirst
<1> HIDE DEF taking, k
<1> QED
  BY <1>1, <1>2, <1>3 DEF SiteNames

LEMMA StrippedListed ==
  ASSUME NEW path, Listed(path), NEW prefix, Listed(prefix)
  PROVE  Listed(Stripped(path, prefix))
<1> DEFINE P == {path[i] : i \in DOMAIN path}
           Q == {prefix[i] : i \in DOMAIN prefix}
           C == P \union {"/"}
           rest == SubSeq(path, Len(prefix) + 1, Len(path))
<1>1. path \in Seq(P) /\ prefix \in Seq(Q) /\ P \subseteq C /\ "/" \in C
  BY DEF Listed
<1> HIDE DEF P, Q, C
<1>2. path \in Seq(C) /\ Len(prefix) \in Nat
  BY <1>1, Widens
<1>3. rest \in Seq(C) /\ <<"/">> \in Seq(C)
  BY <1>1, <1>2
<1> HIDE DEF rest
<1>4. <<"/">> \o rest \in Seq(C)
  BY <1>3
<1>5. Stripped(path, prefix) \in Seq(C)
  BY <1>3, <1>4 DEF Stripped, rest
<1>6. \A s \in Seq(C) : Listed(s)
  BY DEF Listed
<1> QED
  BY <1>5, <1>6

LEMMA MountLeads ==
  ASSUME NEW name \in SiteNames, Vhost(Sites, name).type = "mount", NEW path, Listed(path)
  PROVE  /\ Mounted(Sites, Vhost(Sites, name), path).vhost \in SiteNames
         /\ Listed(Mounted(Sites, Vhost(Sites, name), path).path)
<1> DEFINE site == Vhost(Sites, name)
           leading == {i \in DOMAIN site.mounts : LeadsOn(Sites, site, site.mounts[i], path)}
           first == CHOOSE i \in leading : \A j \in leading : i <= j
<1>1. /\ site.name = name /\ Listed(site.mounts)
      /\ \A k \in DOMAIN site.mounts : Listed(site.mounts[k].path)
  <2>1. PICK i \in DOMAIN Sites : site = Sites[i] /\ Sites[i].name = name
    BY VhostNamed
  <2>2. Sites[i].type = "mount" =>
          /\ Listed(Sites[i].mounts)
          /\ \A k \in DOMAIN Sites[i].mounts : Listed(Sites[i].mounts[k].path)
    BY SiteAssumption
  <2> QED
    BY <2>1, <2>2
<1>2. leading \subseteq Nat /\ leading \subseteq DOMAIN site.mounts
  BY <1>1, ListNumbered
<1>3. /\ Mounted(Sites, site, path).vhost =
           IF leading = {} THEN site.name ELSE site.mounts[first].vhost
      /\ Mounted(Sites, site, path).path =
           IF leading = {} \/ site.keep_prefix THEN path
           ELSE Stripped(path, site.mounts[first].path)
  BY DEF Mounted
<1>4. leading # {} => first \in leading
  <2> HIDE DEF leading
  <2> QED
    BY <1>2, ChosenIsFirst
<1>5. \A i \in leading : site.mounts[i].vhost \in SiteNames
  BY DEF LeadsOn, SiteNames
<1> HIDE DEF leading, first, site
<1>6. Mounted(Sites, site, path).vhost \in SiteNames
  BY <1>1, <1>3, <1>4, <1>5
<1>7. Listed(Mounted(Sites, site, path).path)
  BY <1>1, <1>2, <1>3, <1>4, StrippedListed
<1> QED
  BY <1>6, <1>7 DEF site

LEMMA CachesServe ==
  ASSUME NEW name \in SiteNames, Vhost(Sites, name).type = "htdocs", Vhost(Sites, name).scache
  PROVE  name \in Caching
BY VhostNamed DEF Caching

-----------------------------------------------------------------------------
(* From a path to a file.                                                  *)
LEMMA AdmittedCodes ==
  ASSUME files \in [DOMAIN files -> Files], NEW site, NEW names
  PROVE  /\ Admitted(files, site, names) \subseteq {"200", "403", "404", "500"}
         /\ "200" \in Admitted(files, site, names) => names \in DOMAIN files
<1>1. Stat(files, names) \notin Failures => names \in DOMAIN files
  BY DEF Stat, Failures
<1>2. StatError(Stat(files, names)) \in {"403", "404", "500"}
  BY DEF StatError
<1> QED
  BY <1>1, <1>2 DEF Admitted

LEMMA ErrorCodes ==
  ASSUME NEW site, NEW path, Resolve(files, site, path).found = "error"
  PROVE  Resolve(files, site, path).code \in {"403", "404", "500"}
<1>1. \A kind : StatError(kind) \in {"403", "404", "500"}
  BY DEF StatError
<1> QED
  BY <1>1 DEF Resolve

LEMMA SiteRooted ==
  ASSUME NEW name \in SiteNames, Vhost(Sites, name).type = "htdocs"
  PROVE  /\ Listed(Vhost(Sites, name).htdocs) /\ Vhost(Sites, name).htdocs # <<>>
         /\ Listed(Vhost(Sites, name).index)
<1>1. PICK i \in DOMAIN Sites : Vhost(Sites, name) = Sites[i]
  BY VhostNamed
<1>2. Sites[i].type = "htdocs" =>
        Listed(Sites[i].htdocs) /\ Sites[i].htdocs # <<>> /\ Listed(Sites[i].index)
  BY SiteAssumption
<1> QED
  BY <1>1, <1>2

LEMMA FindsFile ==
  ASSUME files \in [DOMAIN files -> Files], NEW name \in SiteNames,
         Vhost(Sites, name).type = "htdocs", NEW path, Listed(path), ~Malformed(path),
         Resolve(files, Vhost(Sites, name), path).found = "file"
  PROVE  Reaches(Vhost(Sites, name), path, Resolve(files, Vhost(Sites, name), path).names)
<1> DEFINE site == Vhost(Sites, name)
           segments == Segments(site.htdocs, path)
           led == Led(segments)
           other == {k \in DOMAIN segments : Stat(files, led[k]) # "dir"}
           first == CHOOSE i \in other : \A j \in other : i <= j
           walk == Walk(files, segments)
           index == Index(files, site, walk.names)
           good == {i \in DOMAIN site.index : Readable(files, Append(walk.names, site.index[i]))}
           best == CHOOSE i \in good : \A j \in good : i <= j
           goal == Resolve(files, site, path)
<1>1. Listed(site.htdocs) /\ site.htdocs # <<>> /\ Listed(site.index)
  BY SiteRooted
<1>2. DOMAIN segments = 1 .. Len(segments) /\ Len(segments) \in Nat
  BY <1>1, SegmentsNumbered
<1>3. other # {} => first \in other
  <2>1. other \subseteq Nat
    BY <1>2
  <2> HIDE DEF other
  <2> QED
    BY <2>1, ChosenIsFirst
<1>4. good # {} => best \in good
  <2>1. good \subseteq Nat
    BY <1>1, ListNumbered
  <2> HIDE DEF good
  <2> QED
    BY <2>1, ChosenIsFirst
<1>5. walk = IF other = {} THEN [kind |-> "dir", names |-> led[Len(segments)]]
             ELSE [kind |-> Stat(files, led[first]), names |-> led[first]]
  BY DEF Walk
<1>6. /\ \E k \in 0 .. Len(segments) : walk.names = led[k]
      /\ walk.kind = "dir" => walk.names = led[Len(segments)]
  <2>1. CASE other = {}
    <3>1. Len(segments) \in 0 .. Len(segments)
      BY <1>2
    <3> HIDE DEF walk, led, first, segments, other
    <3> QED
      BY <1>5, <2>1, <3>1
  <2>2. CASE other # {}
    <3>1. walk.kind = Stat(files, led[first]) /\ walk.names = led[first]
      <4> HIDE DEF walk, led, first, segments, other
      <4> QED
        BY <1>5, <2>2
    <3>2. first \in 1 .. Len(segments) /\ Stat(files, led[first]) # "dir"
      BY <1>2, <1>3, <2>2
    <3>3. first \in 0 .. Len(segments)
      <4> HIDE DEF first, segments
      <4> QED
        BY <1>2, <3>2
    <3> HIDE DEF walk, led, first, segments, other
    <3> QED
      BY <3>1, <3>2, <3>3
  <2> QED
    BY <2>1, <2>2
<1>7. walk.kind \in Failures \union {"dir", "file"}
  <2>1. \A n : Stat(files, n) \in Failures \union {"dir", "file"}
    BY DEF Stat, Files, Failures
  <2> HIDE DEF first, other, segments, led
  <2> QED
    BY <1>5, <2>1
<1>8. index # <<>> => \E i \in DOMAIN site.index : index = Append(walk.names, site.index[i])
  <2>1. index = IF ~Readable(files, walk.names) \/ good = {} THEN <<>>
                ELSE Append(walk.names, site.index[best])
    BY DEF Index
  <2> HIDE DEF index, best, walk
  <2> QED
    BY <1>4, <2>1
<1>9. goal = IF walk.kind \in Failures
               THEN [found |-> "error", code |-> StatError(walk.kind)]
             ELSE IF walk.kind = "file" THEN [found |-> "file", names |-> walk.names]
             ELSE IF WithoutSlash(path) THEN [found |-> "redirect", path |-> ExpandedPath(path)]
             ELSE IF index = <<>> THEN [found |-> "error", code |-> "404"]
             ELSE [found |-> "file", names |-> index]
  BY DEF Resolve
<1>10. goal.found = "file"
  OBVIOUS
<1>11. SUFFICES \/ \E k \in 0 .. Len(segments) : goal.names = led[k]
                \/ \E i \in DOMAIN site.index : goal.names = Append(led[Len(segments)], site.index[i])
  <2> HIDE DEF goal
  <2> QED
    BY <1>1 DEF Reaches, goal
<1> HIDE DEF goal, walk, index, site, segments, led, good, other, best, first
<1>12. CASE walk.kind = "file"
  <2>1. goal.names = walk.names
    BY <1>9, <1>12 DEF Failures
  <2> QED
    BY <1>6, <2>1
<1>13. CASE walk.kind = "dir"
  <2>1. goal.names = index /\ index # <<>>
    <3>1. ~WithoutSlash(path) /\ index # <<>>
      BY <1>9, <1>10, <1>13 DEF Failures
    <3> QED
      BY <1>9, <1>13, <3>1 DEF Failures
  <2> QED
    BY <1>6, <1>8, <1>13, <2>1
<1>14. walk.kind \notin Failures
  BY <1>9, <1>10
<1> QED
  BY <1>7, <1>12, <1>13, <1>14

-----------------------------------------------------------------------------
(* Bodies.                                                                 *)
LEMMA GoodBody ==
  ASSUME NEW kind \in {"data", "stream"}, NEW content \in Contents,
         NEW size \in {"empty", "small", "zippable", "large", "unknown"},
         NEW type \in MimeTypes \union {"text/html", "application/octet-stream_id", None},
         NEW pool \in Nat, kind = "data" => size # "unknown", NEW b,
         b = [kind |-> kind, content |-> content, size |-> size, type |-> type, pool |-> pool]
  PROVE  b \in GoodBodies /\ b # None
<1>1. b \in Bodies
  BY DEF Bodies
<1>2. b.kind = kind /\ b.size = size
  OBVIOUS
<1> QED
  BY <1>1, <1>2, SiteAssumption DEF GoodBodies

LEMMA GoodIsBody == \A b \in GoodBodies : b \in Bodies /\ b # None
BY SiteAssumption DEF GoodBodies

LEMMA PageBody ==
  ASSUME NEW code \in {"empty", "403", "404", "500"}, NEW size \in {"empty", "small"},
         NEW type \in {"text/html", None}, NEW pool \in Nat
  PROVE  DataBody(Page(code), size, type, pool) \in GoodBodies
<1>1. Page(code) \in Contents
  BY DEF Page, Contents
<1> QED
  BY <1>1, GoodBody DEF DataBody

(* An error page, as generateBaseErrorPage leaves a session.               *)
LEMMA ErrorPage ==
  ASSUME NEW s, Session(s), s.id \in Nat, NEW code \in {"403", "404", "500"}
  PROVE  LET t == generateBaseErrorPage(s, code) IN
         /\ Same(t, s, {"code", "body"})
         /\ t.code = code /\ t.body \in GoodBodies /\ t.body # None
<1> DEFINE body == DataBody(Page(code), "small", "text/html", s.id)
           t == [s EXCEPT !.code = code, !.body = body]
<1>1. body \in GoodBodies
  <2>1. "small" \in {"empty", "small"} /\ "text/html" \in {"text/html", None}
    OBVIOUS
  <2> QED
    BY <2>1, PageBody
<1>2. body # None
  BY <1>1, GoodIsBody
<1>3. generateBaseErrorPage(s, code) = t
  BY DEF generateBaseErrorPage
<1> HIDE DEF body
<1>4. Same(t, s, {"code", "body"}) /\ t.code = code /\ t.body = body
  BY DEF Same, Session, Fields
<1> QED
  BY <1>1, <1>2, <1>3, <1>4

-----------------------------------------------------------------------------
(* A worker that has not come to the content headers has a container of    *)
(* its own, which says nothing of the body.                                *)
LEMMA EarlyOwns ==
  ASSUME IInv, NEW w \in Workers, at[w] \notin {"idle"} \union Ending
  PROVE  /\ Busy(w) /\ Placed(at[w], rs[w]) /\ Validated(rs[w]) /\ ~InCache(rs[w].headers)
         /\ rs[w].headers = rs[w].id /\ rs[w].id \in 1 .. asked /\ rs[w].id \in Nat
         /\ Fresh(own(w)) /\ Session(rs[w])
<1>1. Busy(w)
  BY DEF IInv, Working
<1>2. ~InCache(rs[w].headers)
  BY <1>1 DEF Busy, Shared
<1>3. Fresh(own(w))
  BY <1>1, <1>2 DEF Busy, Owned, own
<1>4. asked \in Nat
  BY SiteAssumption DEF IInv, Basics
<1> QED
  BY <1>1, <1>2, <1>3, <1>4 DEF Busy, Placed

(* Nothing but the worker's place, its session and its own container       *)
(* changes.                                                                *)
LEMMA GoesKeeps ==
  ASSUME IInv, NEW w \in Workers, at[w] \notin {"idle"} \union Ending,
         NEW label, NEW s, NEW h, Goes(w, label, s, h), UNCHANGED cache, Quiet,
         s.id = rs[w].id, s.headers = rs[w].headers,
         Placed(label, s), Owned(label, s, h), s.code # "304"
  PROVE  IInv'
<1> DEFINE c == rs[w].headers
<1>1. /\ ~InCache(c) /\ c = rs[w].id /\ c \in 1 .. asked
  BY EarlyOwns
<1>2. /\ at \in [Workers -> Labels] /\ rs = [v \in Workers |-> rs[v]]
      /\ headers = [i \in 1 .. asked |-> headers[i]]
  BY DEF IInv, Basics
<1>3. /\ at' = [at EXCEPT ![w] = label] /\ rs' = [rs EXCEPT ![w] = s]
      /\ headers' = [headers EXCEPT ![c] = h] /\ asked' = asked /\ cache' = cache
      /\ reply' = None /\ UNCHANGED <<files, changes, crashed>>
  BY DEF Goes, Quiet
<1> HIDE DEF c
<1>4. /\ at'[w] = label /\ rs'[w] = s /\ headers'[c] = h /\ label \in Labels /\ label # "idle"
      /\ \A v \in Workers \ {w} : at'[v] = at[v] /\ rs'[v] = rs[v]
      /\ \A i \in 1 .. asked : i # c => headers'[i] = headers[i]
  BY <1>1, <1>2, <1>3 DEF Placed
<1>5. Basics'
  <2>1. /\ at' \in [Workers -> Labels] /\ rs' = [v \in Workers |-> rs'[v]]
        /\ headers' = [i \in 1 .. asked |-> headers'[i]]
    BY <1>2, <1>3, <1>4
  <2> QED
    BY <1>3, <2>1 DEF IInv, Basics
<1>6. Caching = Caching' /\ \A i : InCache(i)' <=> InCache(i)
  BY <1>3 DEF InCache, Caching
<1>7. Working'
  <2>1. Busy(w)'
    <3>1. rs'[w].id \in 1 .. asked' /\ rs'[w].headers \in 1 .. asked' /\ Validated(rs[w])'
      BY <1>1, <1>3, <1>4 DEF Validated, c
    <3>2. Placed(at[w], rs[w])'
      BY <1>4 DEF Placed
    <3>3. ~InCache(rs[w].headers)' /\ rs'[w].headers = rs'[w].id
      BY <1>1, <1>4, <1>6 DEF c
    <3>4. Owned(at[w], rs[w], headers[rs[w].headers])'
      BY <1>4 DEF Owned, c
    <3> QED
      BY <3>1, <3>2, <3>3, <3>4 DEF Busy
  <2>2. ASSUME NEW v \in Workers \ {w}, at[v] # "idle" PROVE Busy(v)'
    <3>1. Busy(v)
      BY <2>2 DEF IInv, Working
    <3>2. CASE InCache(rs[v].headers)
      BY <1>3, <1>4, <1>6, <3>1, <3>2 DEF Busy, Validated, Shared, Placed, Caching
    <3>3. CASE ~InCache(rs[v].headers)
      <4>1. rs[v].headers # c
        BY <1>1, <2>2, <3>1, <3>3 DEF IInv, Apart, Busy, c
      <4>2. headers'[rs[v].headers] = headers[rs[v].headers]
        BY <1>4, <3>1, <4>1 DEF Busy
      <4> QED
        BY <1>3, <1>4, <1>6, <3>1, <3>3, <4>2 DEF Busy, Validated, Placed, Owned, Caching
    <3> QED
      BY <3>2, <3>3
  <2>3. \A v \in Workers \ {w} : at[v] = "idle" => rs[v] = None
    BY DEF IInv, Working
  <2> QED
    BY <1>4, <2>1, <2>2, <2>3 DEF Working
<1>8. Apart'
  BY <1>4 DEF IInv, Apart, c
<1>9. Kept'
  <2>1. SUFFICES ASSUME NEW v \in Caching, NEW i \in DOMAIN cache[v]
                 PROVE  Entered(v, cache[v][i])'
    BY <1>3 DEF Kept, Caching
  <2>2. Entered(v, cache[v][i]) /\ InCache(cache[v][i].headers)
    BY DEF IInv, Kept, InCache
  <2>3. headers'[cache[v][i].headers] = headers[cache[v][i].headers]
    BY <1>1, <1>4, <2>2 DEF Entered
  <2> QED
    BY <1>3, <2>2, <2>3 DEF Entered
<1>10. Framed' /\ Answers'
  BY <1>3 DEF Framed, Answers
<1> QED
  BY <1>5, <1>7, <1>8, <1>9, <1>10 DEF IInv

-----------------------------------------------------------------------------
(* The steps of a worker up to the content headers.                        *)
LEMMA GenerateKeeps ==
  ASSUME IInv, NEW w \in Workers, Generate(w)
  PROVE  IInv'
<1>1. at[w] = "generate" /\ UNCHANGED cache /\ Quiet
  BY DEF Generate
<1>2. /\ Placed(at[w], rs[w]) /\ Fresh(own(w)) /\ Session(rs[w]) /\ rs[w].id \in Nat
      /\ at[w] \notin {"idle"} \union Ending /\ rs[w].code # "304"
  BY <1>1, EarlyOwns DEF Placed
<1>3. CASE rs[w].vhost = None
  <2> DEFINE s == generateBaseErrorPage(rs[w], "500")
  <2>1. Goes(w, "update", s, own(w))
    BY <1>3 DEF Generate
  <2>2. /\ Same(s, rs[w], {"code", "body"})
        /\ s.code = "500" /\ s.body \in GoodBodies /\ s.body # None
    BY <1>2, ErrorPage
  <2> HIDE DEF s
  <2>3. Placed("update", s)
    BY <1>2, <1>3, <2>2 DEF Placed, Traced, Labels, Serving, Same, Fields
  <2>4. Owned("update", s, own(w))
    BY <1>2 DEF Owned
  <2>5. s.id = rs[w].id /\ s.headers = rs[w].headers
    BY <2>2 DEF Same, Fields
  <2> QED
    BY <1>1, <1>2, <2>1, <2>2, <2>3, <2>4, <2>5, GoesKeeps
<1>4. CASE rs[w].vhost # None
  <2> DEFINE s == [rs[w] EXCEPT !.body = None]
             label == vhost(w).type
  <2>1. Goes(w, label, s, own(w))
    BY <1>4 DEF Generate
  <2>2. Same(s, rs[w], {"body"}) /\ s.body = None
    BY <1>2 DEF Same, Session, Fields
  <2>3. rs[w].vhost \in SiteNames /\ label = Vhost(Sites, rs[w].vhost).type
    BY <1>2, <1>4 DEF Placed, vhost
  <2>4. label \in {"htdocs", "mount", "redirect"}
    BY <2>3, SiteTypes
  <2> HIDE DEF s, label
  <2>5. Placed(label, s)
    BY <1>1, <1>2, <1>4, <2>2, <2>3, <2>4 DEF Placed, Labels, Serving, Same, Fields
  <2>6. Owned(label, s, own(w))
    BY <1>2, <2>4 DEF Owned
  <2>7. s.id = rs[w].id /\ s.headers = rs[w].headers /\ s.code = rs[w].code
    BY <2>2 DEF Same, Fields
  <2> QED
    BY <1>1, <1>2, <2>1, <2>5, <2>6, <2>7, GoesKeeps
<1> QED
  BY <1>3, <1>4

LEMMA MountKeeps ==
  ASSUME IInv, NEW w \in Workers, Mount(w)
  PROVE  IInv'
<1> DEFINE next == Mounted(Sites, vhost(w), rs[w].path)
           s == [rs[w] EXCEPT !.vhost = next.vhost, !.path = next.path,
                              !.lent = IF next.copied THEN next.path # rs[w].path ELSE @]
<1>1. at[w] = "mount" /\ UNCHANGED cache /\ Quiet /\ Goes(w, "generate", s, own(w))
  BY DEF Mount
<1>2. /\ Placed(at[w], rs[w]) /\ Fresh(own(w)) /\ Session(rs[w])
      /\ at[w] \notin {"idle"} \union Ending /\ rs[w].code # "304"
  BY <1>1, EarlyOwns DEF Placed
<1>3. next.vhost \in SiteNames /\ Listed(next.path)
  BY <1>1, <1>2, MountLeads DEF Placed, vhost
<1>4. Same(s, rs[w], {"vhost", "path", "lent"}) /\ s.vhost = next.vhost /\ s.path = next.path
  BY <1>2 DEF Same, Session, Fields
<1> HIDE DEF s, next
<1>5. Placed("generate", s)
  BY <1>1, <1>2, <1>3, <1>4 DEF Placed, Labels, Serving, Same, Fields
<1>6. Owned("generate", s, own(w))
  BY <1>2 DEF Owned
<1>7. s.id = rs[w].id /\ s.headers = rs[w].headers /\ s.code = rs[w].code
  BY <1>4 DEF Same, Fields
<1> QED
  BY <1>1, <1>2, <1>5, <1>6, <1>7, GoesKeeps

LEMMA RedirectKeeps ==
  ASSUME IInv, NEW w \in Workers, Redirect(w)
  PROVE  IInv'
<1> DEFINE s == [rs[w] EXCEPT !.code = "302"]
           h == header_add(own(w), "Location", vhost(w).redir)
<1>1. at[w] = "redirect" /\ UNCHANGED cache /\ Quiet /\ Goes(w, "send", s, h)
  BY DEF Redirect
<1>2. /\ Placed(at[w], rs[w]) /\ Fresh(own(w)) /\ Session(rs[w])
      /\ at[w] \notin {"idle"} \union Ending
  BY <1>1, EarlyOwns
<1>3. Same(s, rs[w], {"code"}) /\ s.code = "302"
  BY <1>2 DEF Same, Session, Fields
<1> HIDE DEF s, h
<1>4. Placed("send", s) /\ s.body = None
  BY <1>1, <1>2, <1>3 DEF Placed, Traced, Bodiless, Labels, Serving, Same, Fields
<1>5. Owned("send", s, h)
  BY <1>4 DEF Owned
<1>6. s.id = rs[w].id /\ s.headers = rs[w].headers
  BY <1>3 DEF Same, Fields
<1> QED
  BY <1>1, <1>2, <1>3, <1>4, <1>5, <1>6, GoesKeeps

LEMMA MissKeeps ==
  ASSUME IInv, NEW w \in Workers, Miss(w)
  PROVE  IInv'
<1> DEFINE s == [rs[w] EXCEPT !.body = EmptyBody]
<1>1. at[w] = "htdocs" /\ UNCHANGED cache /\ Quiet /\ Goes(w, "resolve", s, own(w))
  BY Zenon DEF Miss
<1>2. /\ Placed(at[w], rs[w]) /\ Fresh(own(w)) /\ Session(rs[w])
      /\ at[w] \notin {"idle"} \union Ending /\ rs[w].code # "304"
  BY <1>1, EarlyOwns DEF Placed
<1>3. EmptyBody \in GoodBodies /\ EmptyBody # None
  BY PageBody, GoodIsBody DEF EmptyBody
<1>4. Same(s, rs[w], {"body"}) /\ s.body = EmptyBody
  BY <1>2 DEF Same, Session, Fields
<1> HIDE DEF s
<1>5. Placed("resolve", s)
  BY <1>1, <1>2, <1>3, <1>4 DEF Placed, Labels, Serving, Same, Fields
<1>6. Owned("resolve", s, own(w))
  BY <1>2 DEF Owned
<1>7. s.id = rs[w].id /\ s.headers = rs[w].headers /\ s.code = rs[w].code
  BY <1>4 DEF Same, Fields
<1> QED
  BY <1>1, <1>2, <1>5, <1>6, <1>7, GoesKeeps

(* The error pages of htdocs.                                              *)
LEMMA FailsKeeps ==
  ASSUME IInv, NEW w \in Workers, at[w] \in {"resolve", "admit"}, NEW code \in {"403", "404", "500"},
         Fails(w, code), UNCHANGED cache, Quiet
  PROVE  IInv'
<1> DEFINE s == generateBaseErrorPage(rs[w], code)
           h == ErrorHeaders(vhost(w), own(w), code)
<1>1. Goes(w, "tag", s, h)
  BY DEF Fails
<1>2. /\ Placed(at[w], rs[w]) /\ Fresh(own(w)) /\ Session(rs[w]) /\ rs[w].id \in Nat
      /\ at[w] \notin {"idle"} \union Ending
  BY EarlyOwns
<1>3. /\ Same(s, rs[w], {"code", "body"})
      /\ s.code = code /\ s.body \in GoodBodies /\ s.body # None
  BY <1>2, ErrorPage
<1>4. Fresh(h)
  BY <1>2, HandlersAdd
<1> HIDE DEF s, h
<1>5. Placed("tag", s)
  BY <1>2, <1>3 DEF Placed, Traced, Labels, Serving, Same, Fields
<1>6. Owned("tag", s, h)
  BY <1>4 DEF Owned
<1>7. s.id = rs[w].id /\ s.headers = rs[w].headers
  BY <1>3 DEF Same, Fields
<1> QED
  BY <1>1, <1>2, <1>3, <1>5, <1>6, <1>7, GoesKeeps

LEMMA ResolvePathKeeps ==
  ASSUME IInv, NEW w \in Workers, ResolvePath(w)
  PROVE  IInv'
<1> DEFINE site == vhost(w)
           goal == Resolve(files, site, rs[w].path)
<1>1. at[w] = "resolve" /\ UNCHANGED cache /\ Quiet
  BY DEF ResolvePath
<1>2. /\ Placed(at[w], rs[w]) /\ Fresh(own(w)) /\ Session(rs[w])
      /\ at[w] \notin {"idle"} \union Ending /\ rs[w].code # "304"
  BY <1>1, EarlyOwns DEF Placed
<1>3. rs[w].vhost \in SiteNames /\ site = Vhost(Sites, rs[w].vhost) /\ site.type = "htdocs"
  BY <1>1, <1>2 DEF Placed, Serving, vhost
<1>4. files \in [DOMAIN files -> Files]
  BY DEF IInv, Basics
<1>5. CASE \E code \in {"403", "404", "500"} : Fails(w, code)
  BY <1>1, <1>5, FailsKeeps
<1>6. CASE Malformed(rs[w].path) /\ Fails(w, "500")
  BY <1>5, <1>6
<1>7. CASE goal.found = "error" /\ Fails(w, goal.code)
  BY <1>5, <1>7, ErrorCodes
<1>8. ASSUME NEW h, h = header_add(own(w), "Location", goal.path),
             NEW s, s = [rs[w] EXCEPT !.code = "302"], Goes(w, "update", s, h)
      PROVE  IInv'
  <2>1. Same(s, rs[w], {"code"}) /\ s.code = "302"
    BY <1>2, <1>8 DEF Same, Session, Fields
  <2>2. Placed("update", s)
    BY <1>1, <1>2, <2>1 DEF Placed, Traced, Labels, Serving, Same, Fields
  <2>3. Owned("update", s, h)
    BY <1>2, <1>8, HandlersAdd DEF Owned
  <2>4. s.id = rs[w].id /\ s.headers = rs[w].headers
    BY <2>1 DEF Same, Fields
  <2> QED
    BY <1>1, <1>2, <1>8, <2>1, <2>2, <2>3, <2>4, GoesKeeps
<1>9. ASSUME ~Malformed(rs[w].path), goal.found = "file", NEW s, s = [rs[w] EXCEPT !.names = goal.names],
             Goes(w, "admit", s, own(w))
      PROVE  IInv'
  <2>1. Same(s, rs[w], {"names"}) /\ s.names = goal.names
    BY <1>2, <1>9 DEF Same, Session, Fields
  <2>2. Reaches(site, rs[w].path, goal.names)
    BY <1>2, <1>3, <1>4, <1>9, FindsFile DEF Placed
  <2> HIDE DEF goal, site
  <2>3. Placed("admit", s)
    BY <1>1, <1>2, <1>3, <2>1, <2>2 DEF Placed, Labels, Serving, Same, Fields
  <2>4. Owned("admit", s, own(w))
    BY <1>2 DEF Owned
  <2>5. s.id = rs[w].id /\ s.headers = rs[w].headers /\ s.code = rs[w].code
    BY <2>1 DEF Same, Fields
  <2> QED
    BY <1>1, <1>2, <1>9, <2>3, <2>4, <2>5, GoesKeeps
<1> QED
  BY <1>6, <1>7, <1>8, <1>9 DEF ResolvePath

LEMMA AdmitKeeps ==
  ASSUME IInv, NEW w \in Workers, Admit(w)
  PROVE  IInv'
<1> DEFINE names == rs[w].names
           codes == Admitted(files, vhost(w), names)
           type == files[names].type
           label == IF type \in vhost(w).providers THEN "provide" ELSE "read"
           s == [rs[w] EXCEPT !.body.type = type]
<1>1. at[w] = "admit" /\ UNCHANGED cache /\ Quiet
  BY DEF Admit
<1>2. /\ Placed(at[w], rs[w]) /\ Fresh(own(w)) /\ Session(rs[w])
      /\ at[w] \notin {"idle"} \union Ending /\ rs[w].code # "304"
  BY <1>1, EarlyOwns DEF Placed
<1>3. files \in [DOMAIN files -> Files]
  BY DEF IInv, Basics
<1>4. codes \subseteq {"200", "403", "404", "500"} /\ ("200" \in codes => names \in DOMAIN files)
  BY <1>3, AdmittedCodes
<1>5. ASSUME NEW code \in codes \ {"200"}, Fails(w, code) PROVE IInv'
  BY <1>1, <1>4, <1>5, FailsKeeps
<1>6. CASE "200" \in codes /\ Goes(w, label, s, own(w))
  <2>1. type \in MimeTypes
    BY <1>3, <1>4, <1>6 DEF Files
  <2> DEFINE body == [rs[w].body EXCEPT !.type = type]
  <2>2. Same(s, rs[w], {"body"}) /\ s.body = body
    BY <1>2 DEF Same, Session, Fields
  <2>3. body \in GoodBodies
    <3>1. rs[w].body \in GoodBodies
      BY <1>1, <1>2 DEF Placed
    <3> DEFINE b == rs[w].body
    <3> HIDE DEF b, type
    <3>2. b \in Bodies => [b EXCEPT !.type = type] \in Bodies
      BY <2>1 DEF Bodies
    <3>3. b \in Bodies => /\ [b EXCEPT !.type = type].kind = b.kind
                          /\ [b EXCEPT !.type = type].size = b.size
      BY DEF Bodies
    <3>4. b \in GoodBodies => [b EXCEPT !.type = type] \in GoodBodies
      BY <3>2, <3>3 DEF GoodBodies
    <3> QED
      BY <3>1, <3>4 DEF b
  <2>4. body # None
    BY <2>3, GoodIsBody
  <2>5. label \in {"provide", "read"}
    OBVIOUS
  <2> HIDE DEF s, body, label
  <2>6. Placed(label, s)
    BY <1>1, <1>2, <2>2, <2>3, <2>4, <2>5 DEF Placed, Labels, Serving, Same, Fields
  <2>7. Owned(label, s, own(w))
    BY <1>2, <2>5 DEF Owned
  <2>8. s.id = rs[w].id /\ s.headers = rs[w].headers /\ s.code = rs[w].code
    BY <2>2 DEF Same, Fields
  <2> QED
    BY <1>1, <1>2, <1>6, <2>6, <2>7, <2>8, GoesKeeps
<1> QED
  BY <1>5, <1>6 DEF Admit

LEMMA ProvideKeeps ==
  ASSUME IInv, NEW w \in Workers, Provide(w)
  PROVE  IInv'
<1> DEFINE none == [rs[w] EXCEPT !.static = FALSE, !.code = "500", !.body = None]
           body == [kind |-> "stream", content |-> Page("dynamic"), size |-> "unknown",
                    type |-> "application/octet-stream_id", pool |-> 0]
           some == [rs[w] EXCEPT !.static = FALSE, !.body = body]
           h == ErrorHeaders(vhost(w), own(w), "500")
<1>1. /\ at[w] = "provide" /\ UNCHANGED cache /\ Quiet
      /\ Goes(w, "tag", none, h) \/ Goes(w, "tag", some, own(w))
  BY DEF Provide
<1>2. /\ Placed(at[w], rs[w]) /\ Fresh(own(w)) /\ Session(rs[w])
      /\ at[w] \notin {"idle"} \union Ending /\ rs[w].code # "304"
  BY <1>1, EarlyOwns DEF Placed
<1>3. CASE Goes(w, "tag", none, h)
  <2>1. /\ Same(none, rs[w], {"static", "code", "body"})
        /\ none.static = FALSE /\ none.code = "500" /\ none.body = None
    BY <1>2 DEF Same, Session, Fields
  <2>2. Fresh(h)
    BY <1>2, HandlersAdd
  <2> HIDE DEF none, h
  <2>3. Placed("tag", none)
    BY <1>1, <1>2, <2>1 DEF Placed, Traced, Bodiless, Labels, Serving, Same, Fields
  <2>4. Owned("tag", none, h)
    BY <2>2 DEF Owned
  <2>5. none.id = rs[w].id /\ none.headers = rs[w].headers
    BY <2>1 DEF Same, Fields
  <2> QED
    BY <1>1, <1>2, <1>3, <2>1, <2>3, <2>4, <2>5, GoesKeeps
<1>4. CASE Goes(w, "tag", some, own(w))
  <2>1. body \in GoodBodies /\ body # None
    <3>1. Page("dynamic") \in Contents
      BY DEF Page, Contents
    <3> QED
      BY <3>1, GoodBody
  <2>2. body.kind = "stream" /\ body.pool = 0 /\ body.content = Page("dynamic")
    OBVIOUS
  <2> HIDE DEF body
  <2>3. /\ Same(some, rs[w], {"static", "body"})
        /\ some.static = FALSE /\ some.body = body
    BY <1>2 DEF Same, Session, Fields
  <2> HIDE DEF some
  <2>4. Placed("tag", some)
    BY <1>1, <1>2, <2>1, <2>2, <2>3 DEF Placed, Traced, Bodiless, Labels, Serving, Same, Fields
  <2>5. Owned("tag", some, own(w))
    BY <1>2 DEF Owned
  <2>6. some.id = rs[w].id /\ some.headers = rs[w].headers /\ some.code = rs[w].code
    BY <2>3 DEF Same, Fields
  <2> QED
    BY <1>1, <1>2, <1>4, <2>4, <2>5, <2>6, GoesKeeps
<1> QED
  BY <1>1, <1>3, <1>4

LEMMA ReadKeeps ==
  ASSUME IInv, NEW w \in Workers, Read(w)
  PROVE  IInv'
<1> DEFINE type == rs[w].body.type
           names == rs[w].names
           h == check_client_cache(vhost(w), type, own(w))
           g == ErrorHeaders(vhost(w), h, "500")
           body == [kind |-> IF files[names].size = "large" THEN "stream" ELSE "data",
                    content |-> Version(names), size |-> files[names].size,
                    type |-> type, pool |-> 0]
           page == generateBaseErrorPage(rs[w], "500")
           s == [rs[w] EXCEPT !.body = body]
<1>1. /\ at[w] = "read" /\ UNCHANGED cache /\ Quiet
      /\ \/ Goes(w, "tag", page, g)
         \/ Readable(files, names) /\ Goes(w, "tag", s, h)
  BY DEF Read
<1>2. /\ Placed(at[w], rs[w]) /\ Fresh(own(w)) /\ Session(rs[w]) /\ rs[w].id \in Nat
      /\ at[w] \notin {"idle"} \union Ending /\ rs[w].code # "304"
  BY <1>1, EarlyOwns DEF Placed
<1>3. Fresh(h) /\ Fresh(g)
  BY <1>2, HandlersAdd
<1>4. CASE Goes(w, "tag", page, g)
  <2>1. /\ Same(page, rs[w], {"code", "body"})
        /\ page.code = "500" /\ page.body \in GoodBodies /\ page.body # None
    BY <1>2, ErrorPage
  <2> HIDE DEF page, g
  <2>2. Placed("tag", page)
    BY <1>1, <1>2, <2>1 DEF Placed, Traced, Labels, Serving, Same, Fields
  <2>3. Owned("tag", page, g)
    BY <1>3 DEF Owned
  <2>4. page.id = rs[w].id /\ page.headers = rs[w].headers
    BY <2>1 DEF Same, Fields
  <2> QED
    BY <1>1, <1>2, <1>4, <2>1, <2>2, <2>3, <2>4, GoesKeeps
<1>5. CASE Readable(files, names) /\ Goes(w, "tag", s, h)
  <2>1. /\ files[names] \in Files /\ names \in DOMAIN Disk
    BY <1>5 DEF Readable, IInv, Basics
  <2>2. Version(names) \in Contents /\ "file" \in DOMAIN Version(names) /\ Version(names).file = names
    BY <2>1 DEF Version, Contents, Files
  <2>3. files[names].size \in {"empty", "small", "zippable", "large"}
    BY <2>1 DEF Files
  <2>4. type \in MimeTypes \union {"text/html", "application/octet-stream_id", None}
    BY <1>1, <1>2 DEF Placed, GoodBodies, Bodies
  <2>5. /\ body.pool = 0 /\ body.content = Version(names)
        /\ body.kind \in {"data", "stream"} /\ body.size # "unknown"
    BY <2>3
  <2>6. body \in GoodBodies /\ body # None
    <3> DEFINE kind == IF files[names].size = "large" THEN "stream" ELSE "data"
               size == files[names].size
               content == Version(names)
    <3>1. kind \in {"data", "stream"} /\ size \in {"empty", "small", "zippable", "large", "unknown"}
          /\ size # "unknown"
      BY <2>3
    <3>2. body = [kind |-> kind, content |-> content, size |-> size, type |-> type, pool |-> 0]
      OBVIOUS
    <3> HIDE DEF kind, size, content, body, type
    <3>3. content \in Contents /\ 0 \in Nat
      BY <2>2 DEF content
    <3> QED
      BY <2>4, <3>1, <3>2, <3>3, GoodBody
  <2> HIDE DEF body
  <2>7. Same(s, rs[w], {"body"}) /\ s.body = body
    BY <1>2 DEF Same, Session, Fields
  <2> HIDE DEF s, h
  <2>8. Traced(s)
    BY <1>1, <1>2, <2>2, <2>5, <2>6, <2>7 DEF Placed, Traced, FileOf, Same, Fields
  <2>9. Placed("tag", s)
    BY <1>1, <1>2, <2>6, <2>7, <2>8 DEF Placed, Labels, Serving, Same, Fields
  <2>10. Owned("tag", s, h)
    BY <1>3 DEF Owned
  <2>11. s.id = rs[w].id /\ s.headers = rs[w].headers /\ s.code = rs[w].code
    BY <2>7 DEF Same, Fields
  <2> QED
    BY <1>1, <1>2, <1>5, <2>9, <2>10, <2>11, GoesKeeps
<1> QED
  BY <1>1, <1>4, <1>5

LEMMA FinishKeeps ==
  ASSUME IInv, NEW w \in Workers, Finish(w)
  PROVE  IInv'
<1> DEFINE s == rs[w]
           label == IF s.body # None /\ s.body.size = "unknown" THEN "delayed" ELSE Handled(s)
           h == WithTag(s, own(w))
<1>1. at[w] = "tag" /\ UNCHANGED cache /\ Quiet
  BY DEF Finish
<1>2. /\ Placed(at[w], s) /\ Fresh(own(w)) /\ Session(s)
      /\ at[w] \notin {"idle"} \union Ending /\ s.code # "304"
  BY <1>1, EarlyOwns DEF Placed
<1>3. ~(Activated(s) /\ ~s.static)
  BY <1>1, <1>2 DEF Activated, Tagged, Placed, Traced
<1>4. Goes(w, label, s, h)
  BY <1>3 DEF Finish
<1>5. Fresh(h)
  BY <1>2, HandlersAdd
<1>6. label \in {"delayed", "update", "send"} /\ (label = "send" <=> s.body = None)
  BY DEF Handled
<1> HIDE DEF label, h, s
<1>7. Placed(label, s)
  BY <1>1, <1>2, <1>6 DEF Placed, Labels, Serving
<1>8. Owned(label, s, h)
  BY <1>5, <1>6 DEF Owned
<1> QED
  BY <1>1, <1>2, <1>4, <1>7, <1>8, GoesKeeps DEF s

LEMMA BackendHeadersKeeps ==
  ASSUME IInv, NEW w \in Workers, BackendHeaders(w)
  PROVE  IInv'
<1>1. at[w] = "delayed" /\ UNCHANGED cache /\ Quiet /\ Goes(w, "update", rs[w], own(w))
  BY DEF BackendHeaders
<1>2. /\ Placed(at[w], rs[w]) /\ Fresh(own(w))
      /\ at[w] \notin {"idle"} \union Ending /\ rs[w].code # "304"
  BY <1>1, EarlyOwns DEF Placed
<1>3. Placed("update", rs[w])
  BY <1>1, <1>2 DEF Placed, Labels, Serving
<1>4. Owned("update", rs[w], own(w))
  BY <1>2 DEF Owned
<1> QED
  BY <1>1, <1>2, <1>3, <1>4, GoesKeeps

-----------------------------------------------------------------------------
(* The caches only grow, and a container is in one when it was, or is the  *)
(* one that has just come to one.                                          *)
Grows ==
  \A u \in Caching : \A i \in DOMAIN cache[u] :
    i \in DOMAIN cache'[u] /\ cache'[u][i] = cache[u][i]

(* A worker that does nothing stays as it was, if the container it alone   *)
(* has does.                                                               *)
LEMMA OthersStay ==
  ASSUME NEW v \in Workers, Busy(v), at'[v] = at[v], rs'[v] = rs[v], Grows,
         1 .. asked \subseteq 1 .. asked',
         InCache(rs[v].headers)' <=> InCache(rs[v].headers),
         ~InCache(rs[v].headers) => headers'[rs[v].headers] = headers[rs[v].headers]
  PROVE  Busy(v)'
<1> DEFINE s == rs[v]
           c == s.headers
<1>1. Caching' = Caching
  BY DEF Caching
<1>2. Placed(at[v], rs[v])' /\ rs'[v].id \in 1 .. asked' /\ rs'[v].headers \in 1 .. asked'
  BY DEF Busy, Placed
<1>3. Validated(rs[v])'
  <2>1. SUFFICES ASSUME s.code = "304" PROVE Validated(rs[v])'
    BY DEF Validated
  <2>2. PICK i \in DOMAIN cache[s.vhost] :
          LET e == cache[s.vhost][i] IN
          s.vhost \in Caching /\ e.request_path = s.path /\ e.code = "200" /\ e.body.content = s.tag
    BY <2>1 DEF Busy, Validated
  <2>3. i \in DOMAIN cache'[s.vhost] /\ cache'[s.vhost][i] = cache[s.vhost][i]
    BY <2>2 DEF Grows
  <2> QED
    BY <1>1, <2>2, <2>3 DEF Validated
<1>4. CASE InCache(c)
  <2>1. Shared(at[v], s)
    BY <1>4 DEF Busy
  <2>2. Shared(at[v], rs[v])'
    BY <1>1, <2>1 DEF Shared, Grows
  <2> QED
    BY <1>2, <1>3, <1>4, <2>2 DEF Busy
<1>5. CASE ~InCache(c)
  <2>1. rs[v].headers = rs[v].id /\ Owned(at[v], rs[v], headers[rs[v].headers])
    BY <1>5 DEF Busy
  <2>2. Owned(at[v], rs[v], headers[rs[v].headers])'
    BY <1>5, <2>1 DEF Owned
  <2> QED
    BY <1>2, <1>3, <1>5, <2>1, <2>2 DEF Busy
<1> QED
  BY <1>4, <1>5

LEMMA HitKeeps ==
  ASSUME IInv, CachesList, NEW w \in Workers, Hit(w)
  PROVE  IInv'
<1>0. PICK e \in check_cache(w) \ {None} : rs' = [rs EXCEPT ![w] = Cached(rs[w], e)]
  BY DEF Hit
<1> DEFINE s == rs[w]
           t == Cached(s, e)
           label == Handled(t)
           c == cache[s.vhost]
<1>1. /\ at[w] = "htdocs" /\ e # None /\ UNCHANGED <<headers, cache>> /\ Quiet
      /\ rs' = [rs EXCEPT ![w] = t] /\ at' = [at EXCEPT ![w] = Handled(rs'[w])]
  BY <1>0 DEF Hit
<1>2. /\ at \in [Workers -> Labels] /\ rs = [v \in Workers |-> rs[v]]
  BY DEF IInv, Basics
<1>3. /\ Placed(at[w], s) /\ Session(s) /\ s.id \in 1 .. asked
  BY <1>1, EarlyOwns
<1>4. s.vhost \in SiteNames /\ s.vhost \in Caching /\ e \in cache_get(c, s.path, s.gzip, Held)
  <2>1. e \in IF Vhost(Sites, s.vhost).scache THEN cache_get(c, s.path, s.gzip, Held) ELSE {None}
    BY <1>0 DEF check_cache, vhost
  <2>2. s.vhost \in SiteNames /\ Vhost(Sites, s.vhost).type = "htdocs"
    BY <1>1, <1>3 DEF Placed, Serving
  <2>3. Vhost(Sites, s.vhost).scache /\ e \in cache_get(c, s.path, s.gzip, Held)
    <3> HIDE DEF c
    <3> QED
      BY <1>1, <2>1
  <2> QED
    BY <2>2, <2>3, CachesServe
<1>5. PICK i \in DOMAIN c : e = c[i] /\ c[i].request_path = s.path
  <2>1. PICK S : cache \in [Caching -> Seq(S)]
    BY DEF CachesList, CachesAreLists
  <2>2. c \in Seq(S) /\ Listing(c)
    BY <1>4, <2>1 DEF CachesList
  <2> HIDE DEF c
  <2> QED
    BY <1>1, <1>4, <2>2, FoundServes
<1>6. /\ Entered(s.vhost, e) /\ InCache(e.headers)
  BY <1>4, <1>5 DEF IInv, Kept, InCache
<1>7. /\ e.headers \in 1 .. asked /\ e.body \in GoodBodies /\ e.body # None
      /\ e.etag = e.body.content /\ e.code # "304"
      /\ e.code = "200" => FileOf(e.body, s.vhost, s.path)
  BY <1>5, <1>6, GoodIsBody DEF Entered
<1>8. /\ Same(t, s, {"headers", "code", "body"}) /\ t.headers = e.headers
      /\ \/ t.code = e.code /\ t.body = e.body
         \/ /\ t.code = "304" /\ t.body = None
            /\ e.code = "200" /\ e.etag = s.tag
  <2>1. Session(s)
    BY <1>3
  <2> QED
    BY <2>1 DEF Cached, NotModified, Same, Session, Fields
<1>9. label \in {"update", "send"} /\ (label = "send" <=> t.body = None)
  BY DEF Handled
<1>10. at'[w] = label /\ rs'[w] = t /\ \A v \in Workers \ {w} : at'[v] = at[v] /\ rs'[v] = rs[v]
  BY <1>1, <1>2
<1>11. /\ at' \in [Workers -> Labels] /\ rs' = [v \in Workers |-> rs'[v]]
  BY <1>1, <1>2, <1>9, <1>10 DEF Labels
<1> HIDE DEF t, label, s, c
<1>12. Basics'
  BY <1>1, <1>11 DEF IInv, Basics, Quiet
<1>13. /\ Caching' = Caching /\ asked' = asked /\ cache' = cache /\ headers' = headers
       /\ \A n : InCache(n)' <=> InCache(n)
  BY <1>1 DEF InCache, Caching, Quiet
<1>14. Working'
  <2>1. Placed(label, t)
    <3>1. Traced(t)
      BY <1>1, <1>3, <1>7, <1>8 DEF Placed, Traced, Same, Fields, s
    <3>2. t.vhost = s.vhost /\ Session(t) /\ t.body \in {None} \union GoodBodies
      BY <1>7, <1>8 DEF Same, Fields
    <3>3. Listed(t.path) /\ (t.body = None => Bodiless(t))
      BY <1>3, <1>7, <1>8 DEF Placed, Bodiless, Same, Fields
    <3> QED
      BY <1>4, <1>7, <1>8, <1>9, <3>1, <3>2, <3>3 DEF Placed, Labels, Serving
  <2>2. Shared(label, t)
    BY <1>4, <1>5, <1>8, <1>9 DEF Shared, c
  <2>3. Validated(t)
    BY <1>4, <1>5, <1>7, <1>8 DEF Validated, Same, Fields, c
  <2>4. Busy(w)'
    <3>1. Placed(at[w], rs[w])' /\ Validated(rs[w])' /\ Shared(at[w], rs[w])'
      BY <1>10, <1>13, <2>1, <2>2, <2>3 DEF Placed, Validated, Shared
    <3>2. t.id \in 1 .. asked /\ t.headers \in 1 .. asked /\ InCache(t.headers)
      BY <1>3, <1>6, <1>7, <1>8 DEF Same, Fields
    <3> QED
      BY <1>10, <1>13, <3>1, <3>2 DEF Busy
  <2>5. ASSUME NEW v \in Workers \ {w}, at[v] # "idle" PROVE Busy(v)'
    <3>1. Busy(v) /\ Grows
      BY <1>13, <2>5 DEF IInv, Working, Grows
    <3> QED
      BY <1>10, <1>13, <3>1, OthersStay
  <2>6. \A v \in Workers \ {w} : at[v] = "idle" => rs[v] = None
    BY DEF IInv, Working
  <2>7. at'[w] # "idle"
    BY <1>9, <1>10
  <2> QED
    BY <1>10, <2>4, <2>5, <2>6, <2>7 DEF Working
<1>15. Apart'
  <2>1. t.id = s.id /\ at[w] # "idle" /\ s = rs[w]
    BY <1>1, <1>8 DEF Same, Fields, s
  <2> QED
    BY <1>10, <2>1 DEF IInv, Apart
<1>16. Kept'
  BY <1>1, <1>13 DEF IInv, Kept, Entered
<1>17. Framed' /\ Answers'
  BY <1>1 DEF Framed, Answers, Quiet
<1> QED
  BY <1>12, <1>14, <1>15, <1>16, <1>17 DEF IInv

LEMMA StoreKeeps ==
  ASSUME IInv, NEW w \in Workers, Store(w)
  PROVE  IInv'
<1> DEFINE s == rs[w]
           c == s.headers
           u == s.vhost
           t == IF Activated(s) THEN Unmodified(s) ELSE s
           label == Handled(t)
           tagged == WithTag(s, own(w))
           typed == header_setoradd(tagged, "Content-Type", s.body.type)
           h == header_setoradd(typed, "Content-Length", s.body.content)
<1>0. PICK entries \in cache_add(cache[u], scache(s), Held) : cache' = [cache EXCEPT ![u] = entries]
  BY DEF Store
<1> DEFINE n == Len(cache[u]) + 1
           Stored(list) == [scache(s) EXCEPT !.list = IF list = 0 THEN n ELSE list]
<1>a. PICK list : entries = Append(cache[u], Stored(list))
  BY <1>0 DEF cache_add
<1> DEFINE e == Stored(list)
<1>1. /\ at[w] = "tag" /\ Goes(w, label, t, h) /\ Quiet /\ s.static /\ s.body.kind = "data"
      /\ cache' = [cache EXCEPT ![u] = Append(cache[u], e)] /\ Vhost(Sites, u).scache
  BY <1>0, <1>a DEF Store, Cacheable, vhost
<1>2. /\ at \in [Workers -> Labels] /\ rs = [v \in Workers |-> rs[v]]
      /\ headers = [i \in 1 .. asked |-> headers[i]]
      /\ cache = [v \in Caching |-> cache[v]] /\ \A v \in Caching : Listed(cache[v])
  BY DEF IInv, Basics
<1>3. /\ Placed("tag", s) /\ ~InCache(c) /\ c = s.id /\ c \in 1 .. asked
      /\ Fresh(own(w)) /\ Session(s) /\ s.code # "304"
  BY <1>1, EarlyOwns DEF Placed
<1>4. u \in SiteNames /\ u \in Caching
  BY <1>1, <1>3, CachesServe DEF Placed, Serving
<1>5. s.body \in GoodBodies /\ s.body # None /\ s.body.size # "unknown" /\ Traced(s)
  BY <1>1, <1>3, GoodIsBody DEF Placed, GoodBodies
<1>6. Says(h, s.body.content)
  <2>1. Fresh(tagged)
    BY <1>3, HandlersAdd
  <2>2. Fresh(typed)
    <3> HIDE DEF tagged
    <3> QED
      BY <2>1, TypePair DEF Fresh, Silent
  <2> HIDE DEF typed
  <2> QED
    BY <2>2, LengthPair
<1>7. /\ e.request_path = s.path /\ e.etag = s.body.content /\ e.code = s.code
      /\ e.headers = c /\ e.body = s.body
  BY DEF scache
<1>8. /\ Same(t, s, {"code", "body"})
      /\ \/ t.code = s.code /\ t.body = s.body
         \/ t.code = "304" /\ t.body = None /\ s.code = "200" /\ s.tag = s.body.content
  BY <1>3 DEF Activated, Tagged, Unmodified, Same, Session, Fields
<1>9. label \in {"update", "send"} /\ (label = "send" <=> t.body = None)
  BY DEF Handled
<1> HIDE DEF s, c, u, e, t, label, h, n
<1>10. /\ at' = [at EXCEPT ![w] = label] /\ rs' = [rs EXCEPT ![w] = t]
       /\ headers' = [headers EXCEPT ![c] = h] /\ asked' = asked
       /\ reply' = None /\ UNCHANGED <<files, changes, crashed>>
  BY <1>1 DEF Goes, Quiet, c, s
<1>11. /\ at'[w] = label /\ rs'[w] = t /\ headers'[c] = h
       /\ \A v \in Workers \ {w} : at'[v] = at[v] /\ rs'[v] = rs[v]
       /\ \A i \in 1 .. asked : i # c => headers'[i] = headers[i]
  BY <1>2, <1>3, <1>10
<1>12. /\ cache' = [v \in Caching |-> cache'[v]]
       /\ \A v \in Caching : Listed(cache'[v])
       /\ \A v \in Caching \ {u} : cache'[v] = cache[v]
       /\ DOMAIN cache'[u] = DOMAIN cache[u] \union {n}
       /\ \A i \in DOMAIN cache[u] : cache'[u][i] = cache[u][i]
       /\ cache'[u][n] = e
  <2>1. cache'[u] = Append(cache[u], e) /\ \A v \in Caching \ {u} : cache'[v] = cache[v]
    BY <1>1, <1>2, <1>4
  <2>2. cache' = [v \in Caching |-> cache'[v]]
    BY <1>1, <1>2
  <2>3. /\ Listed(Append(cache[u], e))
        /\ DOMAIN Append(cache[u], e) = DOMAIN cache[u] \union {n}
        /\ \A i \in DOMAIN cache[u] : Append(cache[u], e)[i] = cache[u][i]
        /\ Append(cache[u], e)[n] = e
    BY <1>2, <1>4, ListGrows DEF n
  <2> QED
    BY <1>2, <2>1, <2>2, <2>3
<1>13. Grows
  BY <1>4, <1>12 DEF Grows
<1>14. Caching' = Caching /\ \A i : InCache(i)' <=> (InCache(i) \/ i = c)
  <2>1. Caching' = Caching
    BY DEF Caching
  <2>2. \A i : InCache(i)' => InCache(i) \/ i = c
    BY <1>4, <1>7, <1>12, <2>1 DEF InCache
  <2>3. \A i : InCache(i) => InCache(i)'
    BY <1>13, <2>1 DEF InCache, Grows
  <2>4. \A i : i = c => InCache(i)'
    BY <1>4, <1>7, <1>12, <2>1 DEF InCache
  <2> QED
    BY <2>1, <2>2, <2>3, <2>4
<1>15. Basics'
  <2>1. /\ at' \in [Workers -> Labels] /\ rs' = [v \in Workers |-> rs'[v]]
        /\ headers' = [i \in 1 .. asked |-> headers'[i]]
    BY <1>2, <1>9, <1>10, <1>11 DEF Labels
  <2> QED
    BY <1>10, <1>12, <1>14, <2>1 DEF IInv, Basics
<1>16. Working'
  <2>1. Placed(label, t)
    <3>1. Traced(t)
      BY <1>5, <1>8 DEF Traced, Same, Fields
    <3>2. t.vhost = s.vhost /\ Session(t) /\ t.body \in {None} \union GoodBodies
      BY <1>5, <1>8 DEF Same, Fields
    <3>3. Listed(t.path) /\ (t.body = None => Bodiless(t))
      BY <1>3, <1>5, <1>8 DEF Placed, Bodiless, Same, Fields
    <3> QED
      BY <1>3, <1>4, <1>8, <1>9, <3>1, <3>2, <3>3 DEF Placed, Labels, Serving, u
  <2>2. Shared(at[w], rs[w])'
    <3>1. t.body # None => t.body = s.body /\ t.headers = c
      BY <1>8 DEF Same, Fields, c
    <3> QED
      BY <1>4, <1>7, <1>9, <1>11, <1>12, <1>14, <3>1 DEF Shared
  <2>3. Validated(rs[w])'
    <3>1. t.code = "304" => e.code = "200" /\ e.body.content = t.tag /\ t.vhost = u
                            /\ e.request_path = t.path
      BY <1>3, <1>7, <1>8 DEF Same, Fields, u
    <3> QED
      BY <1>4, <1>11, <1>12, <1>14, <3>1 DEF Validated
  <2>4. Busy(w)'
    <3>1. Placed(at[w], rs[w])'
      BY <1>11, <2>1 DEF Placed
    <3>2. t.id \in 1 .. asked /\ t.headers = c /\ InCache(rs[w].headers)'
      BY <1>3, <1>8, <1>11, <1>14 DEF Same, Fields, c
    <3> QED
      BY <1>3, <1>10, <1>11, <2>2, <2>3, <3>1, <3>2 DEF Busy
  <2>5. ASSUME NEW v \in Workers \ {w}, at[v] # "idle" PROVE Busy(v)'
    <3>1. Busy(v)
      BY <2>5 DEF IInv, Working
    <3>2. ~InCache(rs[v].headers) => rs[v].headers # c
      BY <1>1, <1>3, <2>5, <3>1 DEF IInv, Apart, Busy, s
    <3>3. InCache(rs[v].headers) => rs[v].headers # c
      BY <1>3
    <3>4. InCache(rs[v].headers)' <=> InCache(rs[v].headers)
      BY <1>11, <1>14, <3>2, <3>3
    <3>5. ~InCache(rs[v].headers) => headers'[rs[v].headers] = headers[rs[v].headers]
      BY <1>11, <3>1, <3>2 DEF Busy
    <3> QED
      BY <1>10, <1>11, <1>13, <3>1, <3>4, <3>5, OthersStay
  <2>6. \A v \in Workers \ {w} : at[v] = "idle" => rs[v] = None
    BY DEF IInv, Working
  <2>7. at'[w] # "idle"
    BY <1>9, <1>11
  <2> QED
    BY <1>11, <2>4, <2>5, <2>6, <2>7 DEF Working
<1>17. Apart'
  <2>1. t.id = s.id /\ at[w] # "idle" /\ s = rs[w]
    BY <1>1, <1>8 DEF Same, Fields, s
  <2> QED
    BY <1>11, <2>1 DEF IInv, Apart
<1>18. Kept'
  <2>1. ASSUME NEW v \in Caching, NEW i \in DOMAIN cache[v] PROVE Entered(v, cache[v][i])'
    <3>1. Entered(v, cache[v][i]) /\ InCache(cache[v][i].headers)
      BY <2>1 DEF IInv, Kept, InCache
    <3>2. headers'[cache[v][i].headers] = headers[cache[v][i].headers]
      BY <1>3, <1>11, <3>1 DEF Entered
    <3>3. cache'[v][i] = cache[v][i]
      BY <1>13 DEF Grows
    <3> QED
      BY <1>10, <3>1, <3>2, <3>3 DEF Entered
  <2>2. \A x, y : x = u /\ y = e => Entered(x, y)'
    <3>1. s.code = "200" => FileOf(s.body, u, s.path)
      BY <1>1, <1>5 DEF Traced, u, s
    <3> QED
      BY <1>1, <1>3, <1>5, <1>6, <1>7, <1>10, <1>11, <3>1 DEF Entered, s
  <2> QED
    BY <1>4, <1>12, <1>14, <2>1, <2>2 DEF Kept
<1>19. Framed' /\ Answers'
  BY <1>10 DEF Framed, Answers
<1> QED
  BY <1>15, <1>16, <1>17, <1>18, <1>19 DEF IInv

-----------------------------------------------------------------------------
(* The content headers.                                                    *)
LEMMA WritesKeep ==
  ASSUME IInv, NEW w \in Workers, at[w] \in {"update", "send"}, NEW label \in Sending,
         NEW s, Same(s, rs[w], {"measured"}), Placed(label, s), NEW h, Goes(w, label, s, h),
         UNCHANGED cache, Quiet,
         ~InCache(rs[w].headers) => Owned(label, s, h),
         InCache(rs[w].headers) => \A content : Says(own(w), content) => Says(h, content)
  PROVE  IInv'
<1> DEFINE c == rs[w].headers
<1>1. /\ at \in [Workers -> Labels] /\ rs = [v \in Workers |-> rs[v]]
      /\ headers = [i \in 1 .. asked |-> headers[i]]
  BY DEF IInv, Basics
<1>2. Busy(w) /\ c \in 1 .. asked /\ label \in Labels /\ label # "idle"
  BY DEF IInv, Working, Busy, Labels
<1>3. /\ at' = [at EXCEPT ![w] = label] /\ rs' = [rs EXCEPT ![w] = s]
      /\ headers' = [headers EXCEPT ![c] = h] /\ asked' = asked /\ cache' = cache
      /\ reply' = None /\ UNCHANGED <<files, changes, crashed>>
  BY DEF Goes, Quiet
<1>4. /\ headers[c] = own(w) /\ s.id = rs[w].id /\ s.headers = c /\ s.body = rs[w].body
      /\ s.vhost = rs[w].vhost /\ s.path = rs[w].path /\ s.tag = rs[w].tag /\ s.code = rs[w].code
  BY DEF own, Same, Fields
<1> HIDE DEF c
<1>5. /\ at'[w] = label /\ headers'[c] = h /\ rs'[w] = s
      /\ \A v \in Workers \ {w} : at'[v] = at[v] /\ rs'[v] = rs[v]
      /\ \A i \in 1 .. asked : i # c => headers'[i] = headers[i]
  BY <1>1, <1>2, <1>3
<1>6. Basics'
  <2>1. /\ at' \in [Workers -> Labels] /\ rs' = [v \in Workers |-> rs'[v]]
        /\ headers' = [i \in 1 .. asked |-> headers'[i]]
    BY <1>1, <1>2, <1>3
  <2> QED
    BY <1>3, <2>1 DEF IInv, Basics
<1>7. Caching = Caching' /\ Grows /\ \A i : InCache(i)' <=> InCache(i)
  BY <1>3 DEF InCache, Caching, Grows
<1>8. Working'
  <2>1. Busy(w)'
    <3>1. Placed(at[w], rs[w])'
      BY <1>5 DEF Placed
    <3>2. Validated(rs[w])'
      BY <1>2, <1>3, <1>4, <1>5, <1>7 DEF Busy, Validated
    <3>3. rs'[w].id \in 1 .. asked' /\ rs'[w].headers \in 1 .. asked'
      BY <1>2, <1>3, <1>4, <1>5 DEF Busy
    <3>4. CASE InCache(c)
      <4>1. Shared(at[w], rs[w])'
        BY <1>2, <1>3, <1>4, <1>5, <1>7, <3>4 DEF Busy, Shared, c
      <4> QED
        BY <1>4, <1>5, <1>7, <3>1, <3>2, <3>3, <3>4, <4>1 DEF Busy
    <3>5. CASE ~InCache(c)
      <4>1. Owned(at[w], rs[w], headers[rs[w].headers])'
        BY <1>4, <1>5, <3>5 DEF Owned, c
      <4>2. rs'[w].headers = rs'[w].id
        BY <1>2, <1>4, <1>5, <3>5 DEF Busy, c
      <4> QED
        BY <1>4, <1>5, <1>7, <3>1, <3>2, <3>3, <3>5, <4>1, <4>2 DEF Busy
    <3> QED
      BY <3>4, <3>5
  <2>2. ASSUME NEW v \in Workers \ {w}, at[v] # "idle" PROVE Busy(v)'
    <3>1. Busy(v)
      BY <2>2 DEF IInv, Working
    <3>2. ~InCache(rs[v].headers) => rs[v].headers # c
      BY <1>2, <2>2, <3>1 DEF IInv, Apart, Busy, c
    <3>3. ~InCache(rs[v].headers) => headers'[rs[v].headers] = headers[rs[v].headers]
      BY <1>5, <3>1, <3>2 DEF Busy
    <3>4. InCache(rs[v].headers)' <=> InCache(rs[v].headers)
      BY <1>5, <1>7
    <3> QED
      BY <1>3, <1>5, <1>7, <3>1, <3>3, <3>4, OthersStay
  <2>3. \A v \in Workers \ {w} : at[v] = "idle" => rs[v] = None
    BY DEF IInv, Working
  <2> QED
    BY <1>2, <1>5, <2>1, <2>2, <2>3 DEF Working
<1>9. Apart'
  BY <1>4, <1>5 DEF IInv, Apart
<1>10. Kept'
  <2>1. SUFFICES ASSUME NEW v \in Caching, NEW i \in DOMAIN cache[v]
                 PROVE  Entered(v, cache[v][i])'
    BY <1>3 DEF Kept, Caching
  <2>2. Entered(v, cache[v][i]) /\ InCache(cache[v][i].headers)
    BY DEF IInv, Kept, InCache
  <2>3. Says(headers'[cache[v][i].headers], cache[v][i].body.content)
    BY <1>4, <1>5, <2>2 DEF Entered, c
  <2> QED
    BY <1>3, <2>2, <2>3 DEF Entered
<1>11. Framed' /\ Answers'
  BY <1>3 DEF Framed, Answers
<1> QED
  BY <1>6, <1>8, <1>9, <1>10, <1>11 DEF IInv

(* What the headers of an entry that a session was given say.              *)
LEMMA SharedSays ==
  ASSUME IInv, NEW w \in Workers, Busy(w), InCache(rs[w].headers), rs[w].body # None
  PROVE  Says(own(w), rs[w].body.content) /\ rs[w].body.size # "unknown"
<1>1. Shared(at[w], rs[w])
  BY DEF Busy
<1>2. PICK v \in Caching : \E i \in DOMAIN cache[v] :
        cache[v][i].headers = rs[w].headers /\ cache[v][i].body = rs[w].body
  BY <1>1 DEF Shared
<1>3. PICK i \in DOMAIN cache[v] :
        cache[v][i].headers = rs[w].headers /\ cache[v][i].body = rs[w].body
  BY <1>2
<1>4. Entered(v, cache[v][i])
  BY DEF IInv, Kept
<1> QED
  BY <1>3, <1>4 DEF Entered, GoodBodies, own

LEMMA UpdateKeeps ==
  ASSUME IInv, NEW w \in Workers, Update(w)
  PROVE  IInv'
<1> DEFINE s == rs[w]
           h == updateContentHeaders(s, own(w))
<1>1. at[w] = "update" /\ Goes(w, "send", s, h) /\ UNCHANGED cache /\ Quiet
  BY DEF Update
<1>2. Busy(w) /\ s.body # None
  BY <1>1 DEF IInv, Working, Busy, Placed
<1>a. Placed("send", s) /\ Same(s, rs[w], {"measured"})
  BY <1>1, <1>2 DEF Busy, Placed, Labels, Serving, Same
<1>3. ASSUME ~InCache(s.headers) PROVE Owned("send", s, h)
  <2>1. Fresh(own(w))
    BY <1>1, <1>2, <1>3 DEF Busy, Owned, own
  <2>2. Tells(h, s)
    BY <2>1, UpdateTells
  <2> QED
    BY <2>2 DEF Owned
<1>4. ASSUME InCache(s.headers), NEW content, Says(own(w), content) PROVE Says(h, content)
  <2>1. Says(own(w), s.body.content) /\ s.body.size # "unknown"
    BY <1>2, <1>4, SharedSays
  <2>2. Says(h, s.body.content)
    BY <2>1, UpdateTells
  <2>3. content = s.body.content
    <3>1. <<"content-length", content>> \in Pairs(own(w))
      BY <1>4 DEF Says
    <3>2. <<"content-length", content>>[1] = "content-length"
          => <<"content-length", content>>[2] = s.body.content
      BY <2>1, <3>1 DEF Says
    <3> QED
      BY <3>2
  <2> QED
    BY <2>2, <2>3
<1> HIDE DEF h
<1> QED
  BY <1>1, <1>a, <1>3, <1>4, WritesKeep

LEMMA LoseUpdateKeeps ==
  ASSUME IInv, NEW w \in Workers, LoseUpdate(w)
  PROVE  IInv'
<1>1. at[w] = "update" /\ Goes(w, "send", rs[w], own(w)) /\ UNCHANGED cache /\ Quiet
  BY DEF LoseUpdate
<1>2. PICK v \in Workers \ {w} : at[v] = "update" /\ rs[v].headers = rs[w].headers
  BY DEF LoseUpdate
<1>3. Busy(w) /\ Busy(v)
  BY <1>1, <1>2 DEF IInv, Working
<1>4. InCache(rs[w].headers)
  <2>1. ASSUME ~InCache(rs[w].headers) PROVE rs[w].id = rs[v].id
    BY <1>2, <1>3, <2>1 DEF Busy
  <2> QED
    BY <1>1, <1>2, <2>1 DEF IInv, Apart
<1>5. Placed("send", rs[w]) /\ Same(rs[w], rs[w], {"measured"})
  BY <1>1, <1>3 DEF Busy, Placed, Labels, Serving, Same
<1> QED
  BY <1>1, <1>4, <1>5, WritesKeep

LEMMA MeasureKeeps ==
  ASSUME IInv, NEW w \in Workers, Measure(w)
  PROVE  IInv'
<1> DEFINE s == [rs[w] EXCEPT !.measured = own(w).list]
<1>1. /\ at[w] = "send" /\ rs[w].proto = "HTTP/1.1" /\ Goes(w, "write", s, own(w))
      /\ UNCHANGED cache /\ Quiet
  BY DEF Measure
<1>2. Busy(w) /\ Placed("send", rs[w]) /\ Session(rs[w])
  BY <1>1 DEF IInv, Working, Busy, Placed
<1>3. Same(s, rs[w], {"measured"}) /\ s.measured = own(w).list
  BY <1>2 DEF Same, Session, Fields
<1> HIDE DEF s
<1>4. Placed("write", s)
  BY <1>1, <1>2, <1>3 DEF Placed, Traced, Bodiless, Labels, Serving, Same, Fields
<1>5. ASSUME ~InCache(rs[w].headers) PROVE Owned("write", s, own(w))
  <2>1. rs[w].body # None => Tells(own(w), rs[w])
    BY <1>1, <1>2, <1>5 DEF Busy, Owned, own
  <2>2. s.body = rs[w].body /\ s.proto = rs[w].proto
    BY <1>3 DEF Same, Fields
  <2>3. s.body # None => Tells(own(w), s)
    BY <2>1, <2>2 DEF Tells
  <2> QED
    BY <1>3, <2>3 DEF Owned
<1> QED
  BY <1>1, <1>3, <1>4, <1>5, WritesKeep

-----------------------------------------------------------------------------
(* The response.                                                           *)
LEMMA TellsEnd ==
  ASSUME NEW h, NEW s, Tells(h, s)
  PROVE  LET lengths == Values(h, "Content-Length") IN
         /\ \A i \in DOMAIN lengths : lengths[i] = s.body.content
         /\ lengths = <<>> <=> s.body.size = "unknown"
         /\ s.body.size = "unknown" /\ s.proto = "HTTP/1.1"
            => Values(h, "Transfer-Encoding") # <<>>
<1> DEFINE lengths == Values(h, "Content-Length")
           codings == Values(h, "Transfer-Encoding")
           key == "content-length"
<1>1. Container(h)
  BY DEF Tells, Says, Silent, Fresh
<1>2. /\ \A i \in DOMAIN lengths : <<key, lengths[i]>> \in Pairs(h)
      /\ lengths = <<>> <=> \A p \in Pairs(h) : p[1] # key
      /\ codings = <<>> <=> \A p \in Pairs(h) : p[1] # "transfer-encoding"
  BY <1>1, LowerCase, ReadPairs
<1> HIDE DEF lengths, codings
<1>3. CASE s.body.size # "unknown"
  <2>1. Says(h, s.body.content)
    BY <1>3 DEF Tells
  <2>2. <<key, s.body.content>> \in Pairs(h) /\ <<key, s.body.content>>[1] = key
    BY <2>1 DEF Says
  <2>3. lengths # <<>>
    BY <1>2, <2>2
  <2>4. \A i \in DOMAIN lengths : lengths[i] = s.body.content
    <3>1. TAKE i \in DOMAIN lengths
    <3>2. <<key, lengths[i]>> \in Pairs(h)
      BY <1>2
    <3>3. <<key, lengths[i]>>[1] = key => <<key, lengths[i]>>[2] = s.body.content
      BY <2>1, <3>2 DEF Says
    <3> QED
      BY <3>3
  <2> QED
    BY <1>3, <2>3, <2>4 DEF lengths
<1>4. CASE s.body.size = "unknown"
  <2>1. Silent(h)
    BY <1>4 DEF Tells, Fresh
  <2>2. lengths = <<>>
    BY <1>2, <2>1 DEF Silent
  <2>3. s.proto = "HTTP/1.1" => codings # <<>>
    BY <1>2, <1>4 DEF Tells
  <2>4. \A i \in DOMAIN lengths : lengths[i] = s.body.content
    BY <2>2
  <2> QED
    BY <1>4, <2>2, <2>3, <2>4 DEF lengths, codings
<1> QED
  BY <1>3, <1>4

LEMMA DoneKeeps ==
  ASSUME IInv, NEW w \in Workers, at[w] \in Sending, NEW hdrs, NEW torn, Done(w, hdrs, torn),
         UNCHANGED <<files, changes, cache, asked>>,
         torn => InCache(rs[w].headers),
         rs[w].body = None => rs[w].proto = "HTTP/1.1",
         rs[w].body # None => Tells(hdrs, rs[w]),
         InCache(rs[w].headers) => \A content : Says(own(w), content) => Says(hdrs, content)
  PROVE  IInv'
<1> DEFINE s == rs[w]
           c == s.headers
<1>1. /\ at \in [Workers -> Labels] /\ rs = [v \in Workers |-> rs[v]]
      /\ headers = [i \in 1 .. asked |-> headers[i]]
  BY DEF IInv, Basics
<1>2. /\ Busy(w) /\ c \in 1 .. asked /\ s.id \in 1 .. asked /\ Traced(s)
      /\ s.body = None => Bodiless(s)
  BY DEF IInv, Working, Busy, Placed
<1>3. /\ reply' = [session |-> s, headers |-> hdrs, torn |-> torn, octets |-> SentWith(s)]
      /\ at' = [at EXCEPT ![w] = "idle"] /\ rs' = [rs EXCEPT ![w] = None]
      /\ headers' = [i \in DOMAIN headers |->
           IF i \in {s.id, c} /\ ~InCache(i) THEN header_new
           ELSE IF i = c THEN hdrs ELSE headers[i]]
      /\ UNCHANGED <<files, changes, cache, asked, crashed>>
  BY DEF Done
<1>4. headers[c] = own(w)
  BY DEF own
<1> HIDE DEF s, c
<1>5. /\ at'[w] = "idle" /\ rs'[w] = None
      /\ \A v \in Workers \ {w} : at'[v] = at[v] /\ rs'[v] = rs[v]
      /\ \A i \in 1 .. asked : /\ i \notin {s.id, c} => headers'[i] = headers[i]
                               /\ InCache(i) => headers'[i] = IF i = c THEN hdrs ELSE headers[i]
  BY <1>1, <1>3
<1>6. Basics'
  <2>1. /\ at' \in [Workers -> Labels] /\ rs' = [v \in Workers |-> rs'[v]]
    BY <1>1, <1>3, <1>5 DEF Labels
  <2>2. DOMAIN headers = 1 .. asked
    BY <1>1
  <2>3. headers' = [i \in 1 .. asked |-> headers'[i]]
    BY <1>3, <2>2
  <2> QED
    BY <1>3, <2>1, <2>3 DEF IInv, Basics
<1>7. Caching = Caching' /\ Grows /\ \A i : InCache(i)' <=> InCache(i)
  BY <1>3 DEF InCache, Caching, Grows
<1>8. Working'
  <2>1. ASSUME NEW v \in Workers \ {w}, at[v] # "idle" PROVE Busy(v)'
    <3>1. Busy(v)
      BY <2>1 DEF IInv, Working
    <3>2. ~InCache(rs[v].headers) => rs[v].headers \notin {s.id, c}
      BY <1>2, <2>1, <3>1 DEF IInv, Apart, Busy, c, s
    <3>3. ~InCache(rs[v].headers) => headers'[rs[v].headers] = headers[rs[v].headers]
      BY <1>5, <3>1, <3>2 DEF Busy
    <3>4. InCache(rs[v].headers)' <=> InCache(rs[v].headers)
      BY <1>5, <1>7
    <3> QED
      BY <1>3, <1>5, <1>7, <3>1, <3>3, <3>4, OthersStay
  <2>2. \A v \in Workers \ {w} : at[v] = "idle" => rs[v] = None
    BY DEF IInv, Working
  <2> QED
    BY <1>5, <2>1, <2>2 DEF Working
<1>9. Apart'
  BY <1>5 DEF IInv, Apart
<1>10. Kept'
  <2>1. SUFFICES ASSUME NEW v \in Caching, NEW i \in DOMAIN cache[v]
                 PROVE  Entered(v, cache[v][i])'
    BY <1>3 DEF Kept, Caching
  <2>2. Entered(v, cache[v][i]) /\ InCache(cache[v][i].headers)
    BY DEF IInv, Kept, InCache
  <2>3. Says(headers'[cache[v][i].headers], cache[v][i].body.content)
    BY <1>4, <1>5, <2>2 DEF Entered, c, s
  <2> QED
    BY <1>3, <2>2, <2>3 DEF Entered
<1>11. /\ reply'.session = s /\ reply'.headers = hdrs /\ reply'.octets = SentWith(s)
       /\ reply'.torn = torn
  BY <1>3, Zenon
<1>12. Framed'
  <2>1. ASSUME torn, NEW i, i = reply'.session.headers PROVE InCache(i)'
    BY <1>7, <1>11, <2>1 DEF s
  <2>2. s.body = None => s.code = "304" \/ Endless(s)
    BY <1>2 DEF Bodiless, Endless, s
  <2>3. s.body # None =>
          LET lengths == Values(hdrs, "Content-Length") IN
          /\ \A i \in DOMAIN lengths : lengths[i] = s.body.content
          /\ lengths = <<>> <=> s.body.size = "unknown"
          /\ s.body.size = "unknown" /\ s.proto = "HTTP/1.1"
             => Values(hdrs, "Transfer-Encoding") # <<>>
    BY TellsEnd DEF s
  <2>4. torn => InCache(reply.session.headers)'
    BY <2>1, Zenon
  <2>5. /\ ~torn /\ reply'.session.body = None
           => reply'.session.code = "304" \/ Endless(reply'.session)
        /\ ~torn /\ reply'.session.body # None =>
             LET lengths == Values(reply'.headers, "Content-Length") IN
             /\ \A i \in DOMAIN lengths : lengths[i] = reply'.session.body.content
             /\ lengths = <<>> <=> reply'.session.body.size = "unknown"
             /\ reply'.session.body.size = "unknown" /\ reply'.session.proto = "HTTP/1.1"
                => Values(reply'.headers, "Transfer-Encoding") # <<>>
    BY <1>11, <2>2, <2>3, Zenon
  <2> QED
    BY <1>11, <2>4, <2>5, Zenon DEF Framed
<1>13. Answers'
  <2>1. ASSUME s.code = "200"
        PROVE  IF s.static
                 THEN /\ "file" \in DOMAIN s.body.content
                      /\ Reaches(Vhost(Sites, s.vhost), s.path, s.body.content.file)
                      /\ s.body.kind = "data" /\ s.body.size # "empty" /\ s.method # "HEAD"
                         => reply'.octets = s.body.content
                 ELSE s.body.content = Page("dynamic")
    <3>1. s.body # None /\ s.body.pool = 0
      BY <1>2, <2>1 DEF Traced, FileOf
    <3>2. s.body.kind = "data" /\ s.body.size # "empty" /\ s.method # "HEAD"
          => reply'.octets = s.body.content
      BY <1>11, <3>1 DEF SentWith, Octets
    <3> QED
      BY <1>2, <2>1, <3>2 DEF Traced, FileOf
  <2>2. ASSUME s.code = "304"
        PROVE  \E i \in DOMAIN cache[s.vhost] :
                 LET e == cache[s.vhost][i] IN
                 /\ e.request_path = s.path /\ e.body # None /\ e.body.content = s.tag
                 /\ Reaches(Vhost(Sites, s.vhost), s.path, e.body.content.file)
    <3>1. Validated(s)
      BY <1>2 DEF Busy, s
    <3>2. PICK i \in DOMAIN cache[s.vhost] :
            LET e == cache[s.vhost][i] IN
            s.vhost \in Caching /\ e.request_path = s.path /\ e.code = "200" /\ e.body.content = s.tag
      BY <2>2, <3>1 DEF Validated
    <3>3. Entered(s.vhost, cache[s.vhost][i])
      BY <3>2 DEF IInv, Kept
    <3>4. cache[s.vhost][i].body # None
      BY <3>3, GoodIsBody DEF Entered
    <3> QED
      BY <3>2, <3>3, <3>4 DEF Entered, FileOf
  <2> DEFINE r == reply'
             d == cache'
  <2>3. /\ r.session.code = "200" =>
             IF r.session.static
               THEN /\ "file" \in DOMAIN r.session.body.content
                    /\ Reaches(Vhost(Sites, r.session.vhost), r.session.path, r.session.body.content.file)
                    /\ r.session.body.kind = "data" /\ r.session.body.size # "empty" /\ r.session.method # "HEAD"
                       => r.octets = r.session.body.content
               ELSE r.session.body.content = Page("dynamic")
        /\ r.session.code = "304" =>
             \E i \in DOMAIN d[r.session.vhost] :
               LET e == d[r.session.vhost][i] IN
               /\ e.request_path = r.session.path /\ e.body # None
               /\ e.body.content = r.session.tag
               /\ Reaches(Vhost(Sites, r.session.vhost), r.session.path, e.body.content.file)
    BY <1>3, <1>11, <2>1, <2>2
  <2> QED
    BY <2>3 DEF Answers, Reaches, Vhost
<1> QED
  BY <1>6, <1>8, <1>9, <1>10, <1>12, <1>13 DEF IInv

LEMMA CrashKeeps ==
  ASSUME IInv, Crash, UNCHANGED <<files, changes, cache, asked>>
  PROVE  IInv'
<1>1. crashed' = TRUE /\ reply' = None /\ UNCHANGED <<headers, at, rs, files, changes, cache, asked>>
  BY DEF Crash
<1>2. Basics'
  BY <1>1 DEF IInv, Basics
<1>3. Caching = Caching' /\ Grows /\ \A i : InCache(i)' <=> InCache(i)
  BY <1>1 DEF InCache, Caching, Grows
<1>4. Working'
  <2>1. ASSUME NEW v \in Workers, at[v] # "idle" PROVE Busy(v)'
    <3>1. Busy(v)
      BY <2>1 DEF IInv, Working
    <3> QED
      BY <1>1, <1>3, <3>1, OthersStay
  <2> QED
    BY <1>1, <2>1 DEF IInv, Working
<1>5. Apart' /\ Kept'
  BY <1>1, <1>3 DEF IInv, Apart, Kept, Entered
<1>6. Framed' /\ Answers'
  BY <1>1 DEF Framed, Answers
<1> QED
  BY <1>2, <1>4, <1>5, <1>6 DEF IInv

(* What a worker is about to send tells the end of its body.               *)
LEMMA ReadyTells ==
  ASSUME IInv, NEW w \in Workers, at[w] \in Sending, rs[w].body # None
  PROVE  Tells(own(w), rs[w])
<1>1. Busy(w)
  BY DEF IInv, Working
<1>2. CASE InCache(rs[w].headers)
  BY <1>1, <1>2, SharedSays DEF Tells
<1>3. CASE ~InCache(rs[w].headers)
  BY <1>1, <1>3 DEF Busy, Owned, own
<1> QED
  BY <1>2, <1>3

LEMMA SendHttp11Keeps ==
  ASSUME IInv, NEW w \in Workers, SendHttp11(w)
  PROVE  IInv'
<1>1. PICK torn : /\ Crash \/ Done(w, own(w), torn)
                  /\ torn => own(w).list # rs[w].measured
  BY Zenon DEF SendHttp11
<1>2. at[w] = "write" /\ UNCHANGED <<files, changes, cache, asked>>
  BY DEF SendHttp11
<1>3. CASE Crash
  BY <1>2, <1>3, CrashKeeps
<1>4. CASE Done(w, own(w), torn)
  <2>1. rs[w].body # None => Tells(own(w), rs[w])
    BY <1>2, ReadyTells
  <2>2. Busy(w) /\ rs[w].proto = "HTTP/1.1"
    BY <1>2 DEF IInv, Working, Busy, Placed
  <2>3. ~InCache(rs[w].headers) => own(w).list = rs[w].measured
    BY <1>2, <2>2 DEF Busy, Owned, own
  <2>4. torn => InCache(rs[w].headers)
    BY <1>1, <2>3, Zenon
  <2>5. at[w] \in Sending
    BY <1>2
  <2> QED
    BY <1>2, <1>4, <2>1, <2>2, <2>4, <2>5, DoneKeeps, Zenon
<1> QED
  BY <1>1, <1>3, <1>4, Zenon

LEMMA SendHttp2Keeps ==
  ASSUME IInv, NEW w \in Workers, SendHttp2(w)
  PROVE  IInv'
<1> DEFINE started == header_prepend(own(w), ":status", rs[w].code)
           hdrs == header_del(header_del(started, "connection"), "transfer-encoding")
<1>1. /\ at[w] = "send" /\ rs[w].proto = "HTTP/2" /\ UNCHANGED <<files, changes, cache, asked>>
      /\ Crash \/ (rs[w].body # None /\ Done(w, hdrs, FALSE))
  <2>1. at[w] = "send" /\ rs[w].proto = "HTTP/2" /\ UNCHANGED <<files, changes, cache, asked>>
    BY DEF SendHttp2
  <2>2. Crash \/ (rs[w].body # None /\ Done(w, hdrs, FALSE))
    BY DEF SendHttp2
  <2> QED
    BY <2>1, <2>2
<1>2. CASE Crash
  BY <1>1, <1>2, CrashKeeps
<1>3. CASE rs[w].body # None /\ Done(w, hdrs, FALSE)
  <2>1. Tells(own(w), rs[w])
    BY <1>1, <1>3, ReadyTells
  <2>2. Container(own(w))
    BY <2>1 DEF Tells, Says, Silent, Fresh
  <2>3. str_tolower(":status") \in LowerNames \ {"content-length", "transfer-encoding"}
    BY LowerCase DEF LowerNames
  <2>4. /\ Container(started) /\ Tells(started, rs[w])
        /\ \A content : Says(own(w), content) => Says(started, content)
    BY <2>1, <2>2, <2>3, OtherPair
  <2>5. hdrs = started
    <3> HIDE DEF started
    <3>1. "transfer-encoding" \notin DOMAIN started.map
      BY <1>1, <2>4 DEF Tells, Says, Fresh
    <3> QED
      BY <2>4, <3>1, NothingDeleted
  <2> HIDE DEF hdrs, started
  <2> QED
    BY <1>1, <1>3, <2>4, <2>5, DoneKeeps
<1> QED
  BY <1>1, <1>2, <1>3

-----------------------------------------------------------------------------
(* A request comes, and files change.                                      *)
LEMMA ReceiveKeeps ==
  ASSUME IInv, NEW w \in Workers, NEW r \in Asked, Receive(w, r)
  PROVE  IInv'
<1> DEFINE n == asked + 1
           s == [id |-> n, method |-> r.method, proto |-> r.proto, path |-> r.path,
                 lent |-> r.proto = "HTTP/2", gzip |-> r.gzip, tag |-> r.tag,
                 vhost |-> determine_vhost(Sites, r.host), code |-> "200", headers |-> n,
                 body |-> None, static |-> TRUE, names |-> <<>>, measured |-> <<>>]
<1>1. /\ at[w] = "idle" /\ asked < MaxRequests /\ asked' = n
      /\ headers' = Append(headers, header_new)
      /\ rs' = [rs EXCEPT ![w] = s] /\ at' = [at EXCEPT ![w] = "generate"]
      /\ reply' = None /\ UNCHANGED <<files, changes, cache, crashed>>
  BY DEF Receive
<1>2. /\ at \in [Workers -> Labels] /\ rs = [v \in Workers |-> rs[v]]
      /\ headers = [i \in 1 .. asked |-> headers[i]]
      /\ asked \in 0 .. MaxRequests /\ MaxRequests \in Nat
  BY SiteAssumption DEF IInv, Basics
<1>3. n \in 0 .. MaxRequests /\ asked \in Nat /\ n \in 1 .. n /\ n \notin 1 .. asked
      /\ 1 .. n = (1 .. asked) \union {n}
  BY <1>1, <1>2
<1>4. /\ headers' = [i \in 1 .. n |-> headers'[i]] /\ headers'[n] = header_new
      /\ \A i \in 1 .. asked : headers'[i] = headers[i]
  <2>1. Len(headers) = asked /\ headers \in Seq({headers[i] : i \in 1 .. asked})
    <3> DEFINE T == {headers[i] : i \in 1 .. asked}
    <3>1. headers \in [1 .. asked -> T]
      BY <1>2
    <3> HIDE DEF T
    <3>2. headers \in Seq(T) /\ Len(headers) = asked
      BY <1>3, <3>1
    <3> QED
      BY <3>2 DEF T
  <2> DEFINE T == {headers[i] : i \in 1 .. asked} \union {header_new}
  <2>2. headers \in Seq(T) /\ header_new \in T
    BY <2>1
  <2> HIDE DEF T
  <2> DEFINE more == Append(headers, header_new)
  <2>3. more = [i \in 1 .. n |-> more[i]]
    <3>1. more \in Seq(T) /\ Len(more) = asked + 1
      BY <2>1, <2>2
    <3> HIDE DEF more
    <3>2. DOMAIN more = 1 .. n /\ more \in [1 .. n -> T]
      BY <3>1 DEF n
    <3> QED
      BY <3>2
  <2> QED
    BY <1>1, <1>3, <2>1, <2>2, <2>3
<1>5. /\ s.id = n /\ s.headers = n /\ s.vhost \in {None} \union SiteNames /\ s.body = None
      /\ s.code = "200" /\ s.static = TRUE /\ Listed(s.path)
  <2>1. Listed(r.path)
    BY SiteAssumption
  <2> QED
    BY <2>1, VhostDetermined
<1>6. Session(s)
  BY DEF Session, Fields
<1> HIDE DEF n, s
<1>7. /\ at'[w] = "generate" /\ rs'[w] = s
      /\ \A v \in Workers \ {w} : at'[v] = at[v] /\ rs'[v] = rs[v]
      /\ at' \in [Workers -> Labels] /\ rs' = [v \in Workers |-> rs'[v]]
  BY <1>1, <1>2 DEF Labels
<1>8. Basics'
  BY <1>1, <1>3, <1>4, <1>7 DEF IInv, Basics
<1>9. /\ Caching = Caching' /\ Grows /\ \A i : InCache(i)' <=> InCache(i)
  BY <1>1 DEF InCache, Caching, Grows
<1>10. ~InCache(n)
  BY <1>3 DEF IInv, Kept, Entered, InCache
<1>11. Working'
  <2>1. Busy(w)'
    <3>1. Placed(at[w], rs[w])' /\ Validated(rs[w])'
      BY <1>5, <1>6, <1>7 DEF Placed, Validated, Labels, Serving
    <3>2. Fresh(header_new)
      <4> DEFINE new == header_new.list
      <4>1. new = <<>> /\ header_new.map = <<>>
        BY DEF header_new
      <4>2. DOMAIN new = {} /\ DOMAIN header_new.map = {}
        BY <4>1
      <4>3. Listed(new)
        BY <4>1 DEF Listed
      <4>4. Pairs(header_new) = {}
        BY <4>2 DEF Pairs
      <4> HIDE DEF new
      <4> QED
        BY <4>2, <4>3, <4>4 DEF Fresh, Silent, Container, new
    <3>3. Owned(at[w], rs[w], headers[rs[w].headers])'
      BY <1>4, <1>5, <1>7, <3>2 DEF Owned
    <3>4. \A i : i = n => ~InCache(i)'
      BY <1>9, <1>10
    <3>5. rs'[w].headers = n
      BY <1>5, <1>7
    <3>6. ~InCache(rs[w].headers)'
      BY <3>4, <3>5
    <3> QED
      BY <1>1, <1>3, <1>5, <1>7, <3>1, <3>3, <3>6 DEF Busy
  <2>2. ASSUME NEW v \in Workers \ {w}, at[v] # "idle" PROVE Busy(v)'
    <3>1. Busy(v) /\ rs[v].headers \in 1 .. asked
      BY <2>2 DEF IInv, Working, Busy
    <3>2. headers'[rs[v].headers] = headers[rs[v].headers]
      BY <1>4, <3>1
    <3>3. InCache(rs[v].headers)' <=> InCache(rs[v].headers)
      BY <1>7, <1>9
    <3>4. 1 .. asked \subseteq 1 .. asked'
      BY <1>1, <1>3
    <3> QED
      BY <1>7, <1>9, <3>1, <3>2, <3>3, <3>4, OthersStay
  <2>3. \A v \in Workers \ {w} : at[v] = "idle" => rs[v] = None
    BY DEF IInv, Working
  <2> QED
    BY <1>7, <2>1, <2>2, <2>3 DEF Working
<1>12. Apart'
  <2>1. \A v \in Workers : at[v] # "idle" => rs[v].id # n
    BY <1>3 DEF IInv, Working, Busy
  <2> QED
    BY <1>5, <1>7, <2>1 DEF IInv, Apart
<1>13. Kept'
  <2>1. SUFFICES ASSUME NEW v \in Caching, NEW i \in DOMAIN cache[v]
                 PROVE  Entered(v, cache[v][i])'
    BY <1>1 DEF Kept, Caching
  <2>2. Entered(v, cache[v][i])
    BY DEF IInv, Kept
  <2>3. headers'[cache[v][i].headers] = headers[cache[v][i].headers]
    BY <1>4, <2>2 DEF Entered
  <2> QED
    BY <1>1, <1>3, <2>2, <2>3 DEF Entered
<1>14. Framed' /\ Answers'
  BY <1>1 DEF Framed, Answers
<1> QED
  BY <1>8, <1>11, <1>12, <1>13, <1>14 DEF IInv

LEMMA ChangeKeeps ==
  ASSUME IInv, NEW f \in Volatile, Change(f)
  PROVE  IInv'
<1>1. /\ changes < MaxChanges /\ changes' = changes + 1
      /\ \/ files' = Put(f)
         \/ files' = [g \in DOMAIN files \ {f} |-> files[g]]
      /\ reply' = None /\ UNCHANGED <<cache, headers, asked, at, rs, crashed>>
  BY DEF Change
<1>2. /\ changes \in 0 .. MaxChanges /\ MaxChanges \in Nat /\ f \in DOMAIN Disk
      /\ Disk \in [DOMAIN Disk -> Files]
  BY SiteAssumption DEF IInv, Basics
<1>3. DOMAIN files \subseteq DOMAIN Disk /\ files \in [DOMAIN files -> Files]
  BY DEF IInv, Basics
<1>4. [Disk[f] EXCEPT !.ver = changes + 1] \in Files
  <2>1. Disk[f] \in Files /\ changes + 1 \in Nat
    BY <1>2
  <2> QED
    BY <2>1 DEF Files
<1>5. DOMAIN files' \subseteq DOMAIN Disk /\ files' \in [DOMAIN files' -> Files]
  <2>1. CASE files' = Put(f)
    <3> DEFINE D == DOMAIN files \union {f}
               put == [Disk[f] EXCEPT !.ver = changes + 1]
    <3>1. files' = [g \in D |-> IF g = f THEN put ELSE files[g]]
      BY <2>1 DEF Put
    <3>2. put \in Files /\ \A g \in D : g # f => files[g] \in Files
      BY <1>3, <1>4
    <3>3. D \subseteq DOMAIN Disk
      BY <1>2, <1>3
    <3> HIDE DEF D, put
    <3>4. DOMAIN files' = D /\ files' \in [D -> Files]
      BY <3>1, <3>2
    <3> QED
      BY <3>3, <3>4
  <2>2. CASE files' = [g \in DOMAIN files \ {f} |-> files[g]]
    BY <1>3, <2>2
  <2> QED
    BY <1>1, <2>1, <2>2
<1>6. Basics'
  <2>1. changes' \in 0 .. MaxChanges
    BY <1>1, <1>2
  <2> QED
    BY <1>1, <1>5, <2>1 DEF IInv, Basics
<1>7. Caching = Caching' /\ Grows /\ \A i : InCache(i)' <=> InCache(i)
  BY <1>1 DEF InCache, Caching, Grows
<1>8. Working'
  <2>1. ASSUME NEW v \in Workers, at[v] # "idle" PROVE Busy(v)'
    <3>1. Busy(v)
      BY <2>1 DEF IInv, Working
    <3> QED
      BY <1>1, <1>7, <3>1, OthersStay
  <2> QED
    BY <1>1, <2>1 DEF IInv, Working
<1>9. Apart' /\ Kept'
  BY <1>1, <1>7 DEF IInv, Apart, Kept, Entered
<1>10. Framed' /\ Answers'
  BY <1>1 DEF Framed, Answers
<1> QED
  BY <1>6, <1>8, <1>9, <1>10 DEF IInv

LEMMA StutterKeeps ==
  ASSUME IInv, UNCHANGED vars
  PROVE  IInv'
<1>1. UNCHANGED <<files, changes, cache, headers, asked, at, rs, reply, crashed>>
  BY DEF vars
<1>2. Caching = Caching' /\ Grows /\ \A i : InCache(i)' <=> InCache(i)
  BY <1>1 DEF InCache, Caching, Grows
<1>3. Working'
  <2>1. ASSUME NEW v \in Workers, at[v] # "idle" PROVE Busy(v)'
    <3>1. Busy(v)
      BY <2>1 DEF IInv, Working
    <3> QED
      BY <1>1, <1>2, <3>1, OthersStay
  <2> QED
    BY <1>1, <2>1 DEF IInv, Working
<1>4. Basics' /\ Apart' /\ Kept'
  BY <1>1, <1>2 DEF IInv, Basics, Apart, Kept, Entered
<1>5. Answers'
  BY <1>1 DEF IInv, Answers
<1>6. Framed'
  BY <1>1, Zenon DEF IInv, Framed, InCache, Caching, Endless
<1> QED
  BY <1>3, <1>4, <1>5, <1>6 DEF IInv

LEMMA InitKeeps == Init => IInv
<1>1. SUFFICES ASSUME Init PROVE IInv
  OBVIOUS
<1>2. /\ files = Disk /\ changes = 0 /\ cache = [v \in Caching |-> cache_new]
      /\ headers = <<>> /\ asked = 0 /\ at = [w \in Workers |-> "idle"]
      /\ rs = [w \in Workers |-> None] /\ reply = None /\ crashed = FALSE
  BY <1>1 DEF Init
<1>3. \A v \in Caching : cache[v] = <<>> /\ DOMAIN cache[v] = {} /\ Listed(cache[v])
  <2>1. Listed(<<>>)
    BY DEF Listed
  <2> QED
    BY <1>2, <2>1 DEF cache_new
<1>4. Basics
  <2>1. /\ at \in [Workers -> Labels] /\ rs = [w \in Workers |-> rs[w]]
        /\ cache = [v \in Caching |-> cache[v]]
    BY <1>2 DEF Labels
  <2>2. asked \in 0 .. MaxRequests /\ changes \in 0 .. MaxChanges /\ files \in [DOMAIN files -> Files]
    BY <1>2, SiteAssumption
  <2>3. headers = [i \in 1 .. asked |-> headers[i]]
    BY <1>2
  <2> QED
    BY <1>2, <1>3, <2>1, <2>2, <2>3 DEF Basics
<1>5. Working /\ Apart
  BY <1>2 DEF Working, Apart
<1>6. Kept
  BY <1>3 DEF Kept
<1>7. Framed /\ Answers
  BY <1>2 DEF Framed, Answers
<1> QED
  BY <1>4, <1>5, <1>6, <1>7 DEF IInv

LEMMA StepKeeps ==
  ASSUME IInv, CachesList, [Next]_vars
  PROVE  IInv'
<1>1. ASSUME NEW w \in Workers, Work(w) PROVE IInv'
  <2>1. CASE Generate(w) \/ Mount(w) \/ Redirect(w) \/ Hit(w) \/ Miss(w)
    BY <2>1, GenerateKeeps, MountKeeps, RedirectKeeps, HitKeeps, MissKeeps
  <2>2. CASE ResolvePath(w) \/ Admit(w) \/ Provide(w) \/ Read(w)
    BY <2>2, ResolvePathKeeps, AdmitKeeps, ProvideKeeps, ReadKeeps
  <2>3. CASE Store(w) \/ Finish(w) \/ BackendHeaders(w)
    BY <2>3, StoreKeeps, FinishKeeps, BackendHeadersKeeps
  <2>4. CASE Update(w) \/ LoseUpdate(w) \/ Measure(w) \/ SendHttp11(w) \/ SendHttp2(w)
    BY <2>4, UpdateKeeps, LoseUpdateKeeps, MeasureKeeps, SendHttp11Keeps, SendHttp2Keeps
  <2> QED
    BY <1>1, <2>1, <2>2, <2>3, <2>4 DEF Work
<1>2. ASSUME NEW w \in Workers, NEW r \in Asked, Receive(w, r) PROVE IInv'
  BY <1>2, ReceiveKeeps
<1>3. ASSUME NEW f \in Volatile, Change(f) PROVE IInv'
  BY <1>3, ChangeKeeps
<1>4. CASE UNCHANGED vars
  BY <1>4, StutterKeeps
<1> QED
  BY <1>1, <1>2, <1>3, <1>4, Zenon DEF Next

LEMMA Invariant == Spec => []IInv
<1>1. Init => IInv
  BY InitKeeps
<1>2. IInv /\ CachesList /\ [Next]_vars => IInv'
  BY StepKeeps
<1> QED
  BY <1>1, <1>2, CachesListed, PTL DEF Spec

-----------------------------------------------------------------------------
(* A busy worker has a session, headers that exist and, where a body is    *)
(* needed, one.                                                            *)
THEOREM TypeCorrect == Spec => []TypeOK
<1>1. IInv => TypeOK
  BY DEF IInv, Basics, Working, Busy, Placed, SiteNames, TypeOK
<1> QED
  BY <1>1, Invariant, PTL

(* The headers of a response tell the end of its body, or it is one of     *)
(* those that do not; it is torn only if other workers could add to its    *)
(* headers because an entry of a cache has them.                           *)
THEOREM FramesBodies == Spec => []Framed
<1>1. IInv => Framed
  BY DEF IInv
<1> QED
  BY <1>1, Invariant, PTL

(* A static response with code 200 is that of a file the segments of its   *)
(* path lead to, whatever the path, and carries its octets unless a HEAD   *)
(* is answered or the file is streamed; any other is a provider's; who is  *)
(* told that nothing has changed has what an entry of the cache for its    *)
(* path holds, and that is such a file.                                    *)
THEOREM AnswersTheNames == Spec => []Answers
<1>1. IInv => Answers
  BY DEF IInv
<1> QED
  BY <1>1, Invariant, PTL

(* A response with code 200 to an ordinary path is that of the file its    *)
(* names lead to, or a provider's, through the cache or not: the loop that *)
(* splits paths in place has split such a path as its slashes say.         *)
THEOREM AnswersThePath == Spec => []RightBody
<1>1. IInv => RightBody
  BY OrdinaryLeads DEF RightBody, OrdinaryReply, IInv, Answers
<1> QED
  BY <1>1, Invariant, PTL

(* Who is told that nothing has changed has what an entry of the cache for *)
(* its path holds, and that is the file the path leads to, if it is an     *)
(* ordinary one.                                                           *)
THEOREM NothingNewForThePath == Spec => []NotModifiedRight
<1>1. IInv => NotModifiedRight
  BY OrdinaryLeads DEF NotModifiedRight, OrdinaryReply, IInv, Answers
<1> QED
  BY <1>1, Invariant, PTL
=============================================================================
