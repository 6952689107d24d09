------------------------- MODULE SandboxCopy_proofs -------------------------
(***************************************************************************)
(* Proofs about SandboxCopy, for every repository, set of ignored names,   *)
(* sandbox root and length of a path.  A path below the repository or the  *)
(* copy is written Source \o q or Destination \o q throughout: q is what   *)
(* the two have in common.                                                 *)
(***************************************************************************)
EXTENDS SandboxCopy, SequenceTheorems, TLAPS

Call == [from : Path, to : Path, left : SUBSET Name]

(* The calls of copytree; their order does not matter to what follows.     *)
Calls == Range(stack)

(* Where a call is below the repository.                                   *)
Place(call) == SubSeq(call.from, Len(Source) + 1, Len(call.from))

(* Where the copy is below the repository, if it is.                       *)
Way == SubSeq(Destination, Len(Source) + 1, Len(Destination))

KeptPath == {p \in Path : \A i \in DOMAIN p : p[i] \notin Ignored}

CopyTyped ==
    /\ root \in Root /\ errors \in BOOLEAN
    /\ files \subseteq Path /\ folders \subseteq Path /\ files \cap folders = {}
    /\ stack \in Seq(Call)
    /\ copy \in {"none", "copying", "copied", "failed"}
    /\ copy = "copying" <=> stack # <<>>
    /\ copy = "none" => files = File /\ folders = Folder /\ ~errors
    /\ copy = "copied" => ~errors
    /\ copy = "failed" => errors
    /\ copy \in {"copying", "copied"} => Parents \cup {Destination} \subseteq folders

(* What was there still is, and all that is new is where it may be.        *)
Grown ==
    /\ File \subseteq files /\ \A p \in files \ File : IsStrictPrefix(Destination, p)
    /\ Folder \subseteq folders
    /\ \A p \in folders \ Folder : IsPrefix(Destination, p) \/ p \in Parents

(* What is in the copy has an original.                                    *)
Mirrored ==
    \A q \in Below(Destination, files \cup folders) :
        /\ q \in KeptPath
        /\ Destination \o q \in files => Source \o q \in files
        /\ Destination \o q \in folders => Source \o q \in folders

(* A call copies a directory to its place in the copy, where it and those  *)
(* above it have been made, and has entries left that are to be copied.    *)
CallOK(call) ==
    LET r == Place(call)
    IN  /\ r \in KeptPath
        /\ call.from = Source \o r /\ call.to = Destination \o r
        /\ Len(call.to) <= MaxPath
        /\ call.left \cap Ignored = {}
        /\ \A n \in call.left : Append(call.from, n) \in files \cup folders
        /\ \A j \in 0 .. Len(r) : Destination \o SubSeq(r, 1, j) \in folders

CallsOK == \A call \in Calls : CallOK(call)

(* A call is to come to this: its list has the next name on the way.       *)
Awaits(call, q) ==
    \E k \in 0 .. Len(q) - 1 :
        call.from = Source \o SubSeq(q, 1, k) /\ q[k + 1] \in call.left

(* What is to be copied is copied or in the list of a call.                *)
Covered ==
    copy # "none" /\ ~errors =>
        \A q \in Repository :
            \/ Destination \o q \in files \cup folders
            \/ \E call \in Calls : Awaits(call, q)

(* Of a copy in a directory of the repository there is a call that has the *)
(* copy, or the next directory on the way to it, in its list; when that is *)
(* done, it is at the copy of the way.                                     *)
Endless ==
    copy # "none" /\ ~errors /\ RootInside /\ root # Source =>
        \E call \in Calls :
            LET q == Place(call)
            IN  IsPrefix(q, Way \o q) /\ (Way \o q)[Len(q) + 1] \in call.left

Excused == errors => Excuse

CopyInv ==
    /\ CopyTyped
    /\ Grown
    /\ Mirrored
    /\ CallsOK
    /\ Covered
    /\ Endless
    /\ Excused

-----------------------------------------------------------------------------
(* Paths.                                                                  *)

(* A path begins with another if it is that path and something after it.   *)
LEMMA PrefixIsConcat ==
    ASSUME NEW s \in Path, NEW p \in Path
    PROVE  IsPrefix(s, p) <=> \E t \in Path : p = s \o t
<1>1. ASSUME IsPrefix(s, p) PROVE \E t \in Path : p = s \o t
  <2>1. Len(s) \in Nat /\ Len(p) \in Nat /\ Len(s) <= Len(p)
    BY <1>1, LenProperties DEF IsPrefix, Path
  <2>2. SubSeq(p, 1, Len(s)) = s
    BY <1>1, SubSeqFull DEF IsPrefix, Path
  <2>3. SubSeq(p, Len(s) + 1, Len(p)) \in Path
    <3>1. \A i \in Len(s) + 1 .. Len(p) : p[i] \in Name
      BY <2>1, ElementOfSeq DEF Path
    <3> QED BY <2>1, <3>1, SubSeqProperties DEF Path
  <2>4. SubSeq(p, 1, Len(s)) \o SubSeq(p, Len(s) + 1, Len(p)) = SubSeq(p, 1, Len(p))
    <3>1. 1 \in 1 .. Len(p) + 1 /\ Len(s) \in 0 .. Len(p) /\ Len(p) \in Len(s) .. Len(p)
      BY <2>1
    <3>2. 1 - 1 = 0
      OBVIOUS
    <3> QED BY <3>1, <3>2, ConcatAdjacentSubSeq DEF Path
  <2>5. SubSeq(p, 1, Len(p)) = p
    BY SubSeqFull DEF Path
  <2> QED BY <2>2, <2>3, <2>4, <2>5
<1>2. ASSUME NEW t \in Path, p = s \o t PROVE IsPrefix(s, p)
  <2>1. /\ Len(s) \in Nat /\ Len(t) \in Nat /\ Len(p) = Len(s) + Len(t)
        /\ \A i \in 1 .. Len(s) + Len(t) : p[i] = IF i <= Len(s) THEN s[i] ELSE t[i - Len(s)]
    BY <1>2, LenProperties, ConcatProperties DEF Path
  <2>2. SubSeq(p, 1, Len(s)) = SubSeq(s, 1, Len(s))
    <3>1. CASE Len(s) = 0
      BY <2>1, <3>1, SubSeqEmpty
    <3>2. CASE Len(s) # 0
      <4>1. 1 \in 1 .. Len(s) /\ Len(s) \in 1 .. Len(s)
        BY <2>1, <3>2
      <4> QED BY <4>1, <1>2, SubSeqOfConcat1 DEF Path
    <3> QED BY <3>1, <3>2
  <2> QED BY <2>1, <2>2 DEF IsPrefix
<1> QED BY <1>1, <1>2

(* What comes after it is a path, the same for the same path.              *)
LEMMA ConcatPath ==
    ASSUME NEW s \in Path, NEW t \in Path
    PROVE  /\ s \o t \in Path
           /\ Len(s) \in Nat /\ Len(t) \in Nat /\ Len(s \o t) = Len(s) + Len(t)
           /\ SubSeq(s \o t, Len(s) + 1, Len(s \o t)) = t
           /\ s \o t = s <=> t = <<>>
           /\ t = <<>> <=> Len(t) = 0
<1>1. /\ s \o t \in Path /\ Len(s) \in Nat /\ Len(t) \in Nat
      /\ Len(s \o t) = Len(s) + Len(t)
  BY LenProperties, ConcatProperties DEF Path
<1>2. t = <<>> <=> Len(t) = 0
  BY <1>1, EmptySeq DEF Path
<1>3. SubSeq(s \o t, Len(s) + 1, Len(s \o t)) = t
  <2>1. CASE t = <<>>
    BY <1>1, <1>2, <2>1, SubSeqEmpty
  <2>2. CASE t # <<>>
    <3>1. /\ Len(s) + 1 \in Len(s) + 1 .. Len(s) + Len(t)
          /\ Len(s) + Len(t) \in Len(s) + 1 .. Len(s) + Len(t)
          /\ Len(s) + 1 - Len(s) = 1 /\ Len(s) + Len(t) - Len(s) = Len(t)
      BY <1>1, <1>2, <2>2
    <3>2. SubSeq(s \o t, Len(s) + 1, Len(s) + Len(t)) = SubSeq(t, 1, Len(t))
      BY <3>1, SubSeqOfConcat2 DEF Path
    <3>3. SubSeq(t, 1, Len(t)) = t
      BY SubSeqFull DEF Path
    <3> QED BY <1>1, <3>2, <3>3
  <2> QED BY <2>1, <2>2
<1> QED BY <1>1, <1>2, <1>3, ConcatEqualIffEmpty DEF Path

(* What comes after the same path is the same.                             *)
LEMMA Cancel ==
    ASSUME NEW s \in Path, NEW t \in Path, NEW u \in Path, s \o t = s \o u
    PROVE  t = u
<1>1. SubSeq(s \o t, Len(s) + 1, Len(s \o t)) = t
  BY ConcatPath
<1>2. SubSeq(s \o u, Len(s) + 1, Len(s \o u)) = u
  BY ConcatPath
<1> QED BY <1>1, <1>2

(* The first names of a path.                                              *)
LEMMA FirstNames ==
    ASSUME NEW p \in Path, NEW k \in 0 .. Len(p)
    PROVE  /\ SubSeq(p, 1, k) \in Path /\ Len(SubSeq(p, 1, k)) = k
           /\ \A i \in 1 .. k : SubSeq(p, 1, k)[i] = p[i]
<1>1. Len(p) \in Nat /\ k \in Int /\ 0 <= k /\ k <= Len(p)
  BY LenProperties DEF Path
<1>2. \A i \in 1 .. k : p[i] \in Name
  BY <1>1, ElementOfSeq DEF Path
<1>3. /\ SubSeq(p, 1, k) \in Seq(Name)
      /\ Len(SubSeq(p, 1, k)) = IF 1 <= k THEN k - 1 + 1 ELSE 0
      /\ \A i \in 1 .. k - 1 + 1 : SubSeq(p, 1, k)[i] = p[1 + i - 1]
  BY <1>1, <1>2, SubSeqProperties
<1>4. \A i \in 1 .. k : SubSeq(p, 1, k)[i] = p[i]
  BY <1>1, <1>3
<1> QED BY <1>1, <1>3, <1>4 DEF Path

(* A path is its first names with the next and the rest after them.        *)
LEMMA NextName ==
    ASSUME NEW p \in Path, NEW k \in 0 .. Len(p) - 1
    PROVE  /\ p[k + 1] \in Name
           /\ SubSeq(p, 1, k + 1) = Append(SubSeq(p, 1, k), p[k + 1])
<1>1. Len(p) \in Nat /\ k \in 0 .. Len(p) /\ k + 1 \in 0 .. Len(p) /\ k + 1 \in 1 .. Len(p)
  BY LenProperties DEF Path
<1>2. p[k + 1] \in Name
  BY <1>1, ElementOfSeq DEF Path
<1> DEFINE a == SubSeq(p, 1, k)
           b == SubSeq(p, 1, k + 1)
           c == Append(a, p[k + 1])
<1>3. /\ a \in Seq(Name) /\ Len(a) = k /\ \A i \in 1 .. k : a[i] = p[i]
      /\ b \in Seq(Name) /\ Len(b) = k + 1 /\ \A i \in 1 .. k + 1 : b[i] = p[i]
  BY <1>1, FirstNames DEF Path
<1> HIDE DEF a, b
<1>4. /\ c \in Seq(Name) /\ Len(c) = Len(a) + 1
      /\ \A i \in 1 .. Len(a) : c[i] = a[i]
      /\ c[Len(a) + 1] = p[k + 1]
  BY <1>2, <1>3, AppendProperties
<1> HIDE DEF c
<1>5. \A i \in 1 .. k + 1 : b[i] = c[i]
  BY <1>1, <1>3, <1>4
<1>6. b = c
  BY <1>1, <1>3, <1>4, <1>5, SeqEqual
<1> QED BY <1>2, <1>6 DEF a, b, c

(* A path with one more name.                                              *)
LEMMA AppendPath ==
    ASSUME NEW s \in Path, NEW t \in Path, NEW n \in Name
    PROVE  /\ Append(t, n) \in Path /\ Append(t, n) # <<>>
           /\ Len(t) \in Nat /\ Len(Append(t, n)) = Len(t) + 1
           /\ Append(s \o t, n) = s \o Append(t, n)
           /\ \A k \in 0 .. Len(t) : SubSeq(Append(t, n), 1, k) = SubSeq(t, 1, k)
           /\ \A i \in 1 .. Len(t) : Append(t, n)[i] = t[i]
           /\ Append(t, n)[Len(t) + 1] = n
<1>1. /\ Append(t, n) \in Path /\ Append(t, n) # <<>>
      /\ Len(t) \in Nat /\ Len(Append(t, n)) = Len(t) + 1
      /\ \A i \in 1 .. Len(t) : Append(t, n)[i] = t[i]
      /\ Append(t, n)[Len(t) + 1] = n
  <2>1. t \in Seq(Name)
    BY DEF Path
  <2>2. Len(t) \in Nat
    BY <2>1, LenProperties
  <2> QED BY <2>1, <2>2, AppendProperties DEF Path
<1>2. Append(s \o t, n) = s \o Append(t, n)
  <2>1. s \o t \in Seq(Name) /\ <<n>> \in Seq(Name)
    BY ConcatProperties DEF Path
  <2>2. Append(s \o t, n) = (s \o t) \o <<n>> /\ Append(t, n) = t \o <<n>>
    BY <2>1, AppendIsConcat DEF Path
  <2>3. (s \o t) \o <<n>> = s \o (t \o <<n>>)
    BY <2>1, ConcatAssociative DEF Path
  <2> QED BY <2>2, <2>3
<1>3. ASSUME NEW k \in 0 .. Len(t) PROVE SubSeq(Append(t, n), 1, k) = SubSeq(t, 1, k)
  <2> DEFINE a == SubSeq(Append(t, n), 1, k)
             b == SubSeq(t, 1, k)
  <2>1. k \in 0 .. Len(Append(t, n))
    BY <1>1
  <2>2. /\ a \in Path /\ Len(a) = k /\ \A i \in 1 .. k : a[i] = Append(t, n)[i]
        /\ b \in Path /\ Len(b) = k /\ \A i \in 1 .. k : b[i] = t[i]
    BY <1>1, <2>1, FirstNames, Zenon
  <2> HIDE DEF a, b
  <2>3. \A i \in 1 .. k : a[i] = b[i]
    BY <1>1, <2>2
  <2>4. a = b
    BY <2>2, <2>3, SeqEqual DEF Path
  <2> QED BY <2>4 DEF a, b
<1> QED BY <1>1, <1>2, <1>3

(* One more name on a path below another.                                  *)
LEMMA AppendBelow ==
    ASSUME NEW s \in Path, NEW t \in Path, NEW n \in Name
    PROVE  Append(s \o t, n) = s \o Append(t, n)
BY AppendPath

(* The same path with the last name told apart.                            *)
LEMMA SameAppend ==
    ASSUME NEW s \in Path, NEW t \in Path, NEW m \in Name, NEW n \in Name,
           Append(s, m) = Append(t, n)
    PROVE  s = t /\ m = n
BY AppendInjective DEF Path

(* The last name of a path, and those before it.                           *)
LEMMA LastName ==
    ASSUME NEW p \in Path, p # <<>>
    PROVE  Front(p) \in Path /\ Last(p) \in Name /\ p = Append(Front(p), Last(p))
<1>1. Len(p) \in Nat /\ Len(p) # 0
  BY EmptySeq, LenProperties DEF Path
<1>2. Len(p) - 1 \in 0 .. Len(p) - 1 /\ Len(p) - 1 \in 0 .. Len(p) /\ Len(p) - 1 + 1 = Len(p)
  BY <1>1
<1>3. SubSeq(p, 1, Len(p)) = p
  BY SubSeqFull DEF Path
<1> QED BY <1>2, <1>3, NextName, FirstNames DEF Front, Last

(* The entries of a directory.                                             *)
LEMMA ListedEntry ==
    ASSUME NEW path \in Path, NEW there \in SUBSET Path
    PROVE  \A n : n \in Listed(path, there) <=>
                    n \in Name /\ n \notin Ignored /\ Append(path, n) \in there
<1>1. ASSUME NEW n \in Listed(path, there)
      PROVE  n \in Name /\ n \notin Ignored /\ Append(path, n) \in there
  <2>1. PICK q \in there : q # <<>> /\ Front(q) = path /\ Last(q) = n
    BY <1>1 DEF Listed
  <2>2. q \in Path
    BY <2>1
  <2> QED BY <1>1, <2>1, <2>2, LastName DEF Listed
<1>2. ASSUME NEW n \in Name, n \notin Ignored, Append(path, n) \in there
      PROVE  n \in Listed(path, there)
  <2> DEFINE q == Append(path, n)
  <2>1. q \in Path /\ q # <<>>
    BY AppendPath
  <2>2. Front(q) \in Path /\ Last(q) \in Name /\ q = Append(Front(q), Last(q))
    BY <2>1, LastName
  <2>3. Front(q) = path /\ Last(q) = n
    BY <2>2, SameAppend
  <2> QED BY <1>2, <2>1, <2>3 DEF Listed
<1> QED BY <1>1, <1>2

(* What is below a directory.                                              *)
LEMMA BelowEntry ==
    ASSUME NEW path \in Path, NEW there \in SUBSET Path
    PROVE  \A q : q \in Below(path, there) <=> q \in Path /\ q # <<>> /\ path \o q \in there
<1>1. ASSUME NEW q \in Below(path, there) PROVE q \in Path /\ q # <<>> /\ path \o q \in there
  <2>1. PICK p \in there : /\ IsPrefix(path, p) /\ path # p
                           /\ q = SubSeq(p, Len(path) + 1, Len(p))
    BY <1>1 DEF Below, IsStrictPrefix
  <2>2. PICK t \in Path : p = path \o t
    BY <2>1, PrefixIsConcat
  <2> QED BY <2>1, <2>2, ConcatPath
<1>2. ASSUME NEW q \in Path, q # <<>>, path \o q \in there PROVE q \in Below(path, there)
  <2>1. IsPrefix(path, path \o q) /\ path # path \o q
    BY <1>2, PrefixIsConcat, ConcatPath
  <2>2. q = SubSeq(path \o q, Len(path) + 1, Len(path \o q))
    BY ConcatPath
  <2> QED BY <1>2, <2>1, <2>2 DEF Below, IsStrictPrefix
<1> QED BY <1>1, <1>2

(* One path begins with another, name by name.                             *)
LEMMA PrefixNames ==
    ASSUME NEW s \in Path, NEW p \in Path
    PROVE  IsPrefix(s, p) <=> Len(s) <= Len(p) /\ \A i \in 1 .. Len(s) : s[i] = p[i]
<1>1. Len(s) \in Nat /\ Len(p) \in Nat
  BY LenProperties DEF Path
<1>2. CASE Len(s) <= Len(p)
  <2> DEFINE a == SubSeq(s, 1, Len(s))
             b == SubSeq(p, 1, Len(s))
  <2>1. /\ a \in Path /\ Len(a) = Len(s) /\ \A i \in 1 .. Len(s) : a[i] = s[i]
        /\ b \in Path /\ Len(b) = Len(s) /\ \A i \in 1 .. Len(s) : b[i] = p[i]
    <3>1. Len(s) \in 0 .. Len(s) /\ Len(s) \in 0 .. Len(p)
      BY <1>1, <1>2
    <3> QED BY <3>1, FirstNames
  <2>2. IsPrefix(s, p) <=> a = b
    BY <1>2 DEF IsPrefix
  <2> HIDE DEF a, b
  <2>3. (\A i \in 1 .. Len(s) : s[i] = p[i]) => a = b
    BY <2>1, SeqEqual DEF Path
  <2> QED BY <1>2, <2>1, <2>2, <2>3
<1>3. CASE ~(Len(s) <= Len(p))
  BY <1>3 DEF IsPrefix
<1> QED BY <1>2, <1>3

(* The first names of a path below another.                                *)
LEMMA FirstBelow ==
    ASSUME NEW s \in Path, NEW t \in Path, NEW k \in 0 .. Len(t)
    PROVE  SubSeq(s \o t, 1, Len(s) + k) = s \o SubSeq(t, 1, k)
<1> DEFINE u == SubSeq(t, 1, k)
           a == SubSeq(s \o t, 1, Len(s) + k)
           b == s \o u
<1>1. /\ Len(s) \in Nat /\ Len(t) \in Nat /\ k \in Nat /\ k <= Len(t)
      /\ s \o t \in Path /\ Len(s \o t) = Len(s) + Len(t)
      /\ \A i \in 1 .. Len(s) + Len(t) :
           (s \o t)[i] = IF i <= Len(s) THEN s[i] ELSE t[i - Len(s)]
  BY LenProperties, ConcatProperties DEF Path
<1>2. u \in Path /\ Len(u) = k /\ \A i \in 1 .. k : u[i] = t[i]
  BY FirstNames
<1>3. /\ a \in Path /\ Len(a) = Len(s) + k
      /\ \A i \in 1 .. Len(s) + k : a[i] = (s \o t)[i]
  <2>1. Len(s) + k \in 0 .. Len(s \o t)
    BY <1>1
  <2> QED BY <1>1, <2>1, FirstNames
<1> HIDE DEF u, a
<1>4. /\ b \in Path /\ Len(b) = Len(s) + k
      /\ \A i \in 1 .. Len(s) + k : b[i] = IF i <= Len(s) THEN s[i] ELSE u[i - Len(s)]
  BY <1>2, ConcatProperties DEF Path
<1> HIDE DEF b
<1>5. ASSUME NEW i \in 1 .. Len(s) + k PROVE a[i] = b[i]
  <2>1. i \in 1 .. Len(s) + Len(t) /\ (i <= Len(s) \/ i - Len(s) \in 1 .. k)
    BY <1>1
  <2> QED BY <1>1, <1>2, <1>3, <1>4, <2>1
<1>6. a = b
  BY <1>3, <1>4, <1>5, SeqEqual DEF Path
<1> QED BY <1>6 DEF a, b, u

(* The first names of the first names of a path.                           *)
LEMMA FirstOfFirst ==
    ASSUME NEW p \in Path, NEW i \in 0 .. Len(p), NEW j \in 0 .. i
    PROVE  SubSeq(SubSeq(p, 1, i), 1, j) = SubSeq(p, 1, j)
<1> DEFINE u == SubSeq(p, 1, i)
           a == SubSeq(u, 1, j)
           b == SubSeq(p, 1, j)
<1>1. Len(p) \in Nat /\ j \in 0 .. Len(p) /\ j <= i
  BY LenProperties DEF Path
<1>2. u \in Path /\ Len(u) = i /\ \A k \in 1 .. i : u[k] = p[k]
  BY FirstNames
<1>3. b \in Path /\ Len(b) = j /\ \A k \in 1 .. j : b[k] = p[k]
  BY <1>1, FirstNames
<1> HIDE DEF u, b
<1>4. a \in Path /\ Len(a) = j /\ \A k \in 1 .. j : a[k] = u[k]
  BY <1>2, FirstNames
<1> HIDE DEF a
<1>5. \A k \in 1 .. j : a[k] = b[k]
  BY <1>1, <1>2, <1>3, <1>4
<1>6. a = b
  BY <1>3, <1>4, <1>5, SeqEqual DEF Path
<1> QED BY <1>6 DEF a, b, u

(* Paths that are copied, and what one more name makes of them.            *)
LEMMA KeptPaths ==
    ASSUME NEW q \in KeptPath
    PROVE  /\ q \in Path
           /\ \A k \in 0 .. Len(q) : SubSeq(q, 1, k) \in KeptPath
           /\ \A k \in 1 .. Len(q) : q[k] \in Name /\ q[k] \notin Ignored
           /\ \A n \in Name : n \notin Ignored => Append(q, n) \in KeptPath
<1>1. q \in Path /\ Len(q) \in Nat /\ DOMAIN q = 1 .. Len(q)
  BY LenProperties DEF KeptPath, Path
<1>2. \A k \in 1 .. Len(q) : q[k] \in Name /\ q[k] \notin Ignored
  BY <1>1, ElementOfSeq DEF KeptPath, Path
<1>3. ASSUME NEW k \in 0 .. Len(q) PROVE SubSeq(q, 1, k) \in KeptPath
  <2> DEFINE a == SubSeq(q, 1, k)
  <2>1. a \in Path /\ Len(a) = k /\ \A i \in 1 .. k : a[i] = q[i]
    BY <1>1, FirstNames
  <2> HIDE DEF a
  <2>2. DOMAIN a = 1 .. k
    BY <2>1, LenProperties DEF Path
  <2>3. a \in KeptPath
    BY <1>1, <1>2, <2>1, <2>2 DEF KeptPath
  <2> QED BY <2>3 DEF a
<1>4. ASSUME NEW n \in Name, n \notin Ignored PROVE Append(q, n) \in KeptPath
  <2> DEFINE a == Append(q, n)
  <2>1. /\ a \in Path /\ Len(a) = Len(q) + 1
        /\ \A i \in 1 .. Len(q) : a[i] = q[i]
        /\ a[Len(q) + 1] = n
    BY <1>1, AppendPath
  <2> HIDE DEF a
  <2>2. DOMAIN a = 1 .. Len(q) + 1
    BY <2>1, LenProperties DEF Path
  <2>3. a \in KeptPath
    BY <1>1, <1>2, <1>4, <2>1, <2>2 DEF KeptPath
  <2> QED BY <2>3 DEF a
<1> QED BY <1>1, <1>2, <1>3, <1>4

-----------------------------------------------------------------------------
(* The repository, the sandbox root and the place of the copy.             *)

(* Where they are.                                                         *)
LEMMA Places ==
    ASSUME root \in Root
    PROVE  /\ Source \in Path /\ File \subseteq Path /\ Folder \subseteq Path
           /\ root \in Path /\ CopyName \in Name
           /\ Destination \in Path /\ Len(root) \in Nat
           /\ Len(Destination) = Len(root) + 1 /\ Len(Destination) <= MaxPath
           /\ MaxPath \in Nat
           /\ \A i \in 1 .. Len(root) : Destination[i] = root[i]
           /\ Destination[Len(root) + 1] = CopyName
<1>1. Source \in Path /\ File \subseteq Path /\ Folder \subseteq Path /\ root \in Path
  BY SandboxAssumption
<1>2. CopyName \in Name
  BY SandboxAssumption
<1>3. /\ Destination \in Path /\ Len(root) \in Nat /\ Len(Destination) = Len(root) + 1
      /\ \A i \in 1 .. Len(root) : Destination[i] = root[i]
      /\ Destination[Len(root) + 1] = CopyName
  BY <1>1, <1>2, AppendPath DEF Destination
<1>4. Len(root) < MaxPath /\ MaxPath \in Nat
  BY SandboxAssumption
<1> QED BY <1>1, <1>2, <1>3, <1>4

(* Nothing of the repository is at the place of the copy or below it, nor  *)
(* are the directories above it.                                           *)
LEMMA PlaceIsFree ==
    ASSUME root \in Root, NEW q \in Path
    PROVE  Destination \o q \notin File \cup Folder \cup Parents
<1>1. Destination \in Path /\ Destination \o q \in Path
  BY Places, ConcatPath
<1>2. IsPrefix(Destination, Destination \o q)
  BY <1>1, PrefixIsConcat
<1>3. Destination \o q \notin File \cup Folder
  BY <1>2, SandboxAssumption DEF Destination
<1>4. ASSUME NEW i \in 1 .. Len(root) PROVE SubSeq(root, 1, i) # Destination \o q
  <2>1. i \in 0 .. Len(root) /\ root \in Path /\ Len(root) \in Nat
    BY Places
  <2>2. Len(SubSeq(root, 1, i)) = i
    BY <2>1, FirstNames
  <2>3. /\ Len(Destination \o q) = Len(Destination) + Len(q) /\ Len(q) \in Nat
        /\ Len(Destination) = Len(root) + 1
    BY <1>1, Places, ConcatPath, Zenon
  <2>4. i <= Len(root) /\ i \in Nat
    BY <2>1
  <2> QED BY <2>1, <2>2, <2>3, <2>4
<1> QED BY <1>3, <1>4 DEF Parents

(* The directories above the copy: paths, and not those of a file.         *)
LEMMA ParentPaths ==
    ASSUME root \in Root
    PROVE  /\ Parents \subseteq Path
           /\ (Parents \cup {Destination}) \cap File = {}
<1>1. root \in Path /\ Len(root) \in Nat /\ Destination \in Path
  BY Places
<1>2. ASSUME NEW i \in 1 .. Len(root)
      PROVE  SubSeq(root, 1, i) \in Path /\ SubSeq(root, 1, i) \notin File
  <2>1. i \in 0 .. Len(root)
    BY <1>1
  <2> QED BY <1>1, <2>1, FirstNames, SandboxAssumption
<1>3. Destination \notin File
  <2>1. <<>> \in Path
    BY EmptySeq DEF Path
  <2>2. Destination \o <<>> = Destination
    BY <1>1, ConcatEmptySeq DEF Path
  <2> QED BY <2>1, <2>2, PlaceIsFree
<1> QED BY <1>2, <1>3 DEF Parents

(* What there is to copy, and the directories above it.                    *)
LEMMA ToCopy ==
    ASSUME root \in Root
    PROVE  /\ \A q : q \in Repository <=> /\ q \in KeptPath /\ q # <<>>
                                          /\ Source \o q \in File \cup Folder \cup Parents
           /\ \A q \in Repository : \A k \in 1 .. Len(q) - 1 :
                Source \o SubSeq(q, 1, k) \in Folder \cup Parents
<1>1. /\ Source \in Path /\ File \cup Folder \cup Parents \subseteq Path
      /\ root \in Path /\ Len(root) \in Nat /\ Len(Source) \in Nat
  BY Places, ParentPaths, LenProperties DEF Path
<1>2. \A q : q \in Repository <=> /\ q \in KeptPath /\ q # <<>>
                                  /\ Source \o q \in File \cup Folder \cup Parents
  BY <1>1, BelowEntry DEF Repository, Kept, KeptPath
<1>3. ASSUME NEW q \in Repository, NEW k \in 1 .. Len(q) - 1
      PROVE  Source \o SubSeq(q, 1, k) \in Folder \cup Parents
  <2> DEFINE p == Source \o q
             m == Len(Source) + k
  <2>1. q \in Path /\ p \in File \cup Folder \cup Parents
    BY <1>2 DEF KeptPath
  <2>2. /\ Len(q) \in Nat /\ p \in Path /\ Len(p) = Len(Source) + Len(q)
    BY <1>1, <2>1, ConcatPath
  <2>3. k \in 0 .. Len(q) /\ m \in Len(Source) .. Len(p) - 1 /\ m >= 1
    BY <1>1, <2>2
  <2>4. SubSeq(p, 1, m) = Source \o SubSeq(q, 1, k)
    BY <1>1, <2>1, <2>3, FirstBelow
  <2> HIDE DEF p, m
  <2>5. CASE p \in File \cup Folder
    <3>1. SubSeq(p, 1, m) \in Folder
      BY <2>3, <2>5, SandboxAssumption
    <3> QED BY <2>4, <3>1
  <2>6. CASE p \in Parents
    <3>1. PICK i \in 1 .. Len(root) : p = SubSeq(root, 1, i)
      BY <2>6 DEF Parents
    <3>2. i \in 0 .. Len(root)
      BY <1>1
    <3>3. Len(p) = i
      BY <1>1, <3>1, <3>2, FirstNames
    <3>4. m \in 0 .. i /\ m \in 1 .. Len(root)
      BY <1>1, <2>2, <2>3, <3>2, <3>3
    <3>5. SubSeq(p, 1, m) = SubSeq(root, 1, m)
      BY <1>1, <3>1, <3>2, <3>4, FirstOfFirst
    <3>6. SubSeq(p, 1, m) \in Parents
      BY <3>4, <3>5 DEF Parents
    <3> QED BY <2>4, <3>6
  <2> QED BY <2>1, <2>5, <2>6
<1> QED BY <1>2, <1>3

(* What is copied is in the copy only if the sandbox root is inside, and   *)
(* if that is the repository itself, by the name of the copy.              *)
LEMMA BelowCopy ==
    ASSUME root \in Root, NEW q \in KeptPath, q # <<>>,
           IsPrefix(Destination, Source \o q)
    PROVE  RootInside /\ (root = Source => Head(q) = CopyName)
<1> DEFINE p == Source \o q
<1>1. /\ Source \in Path /\ root \in Path /\ q \in Path /\ Destination \in Path
      /\ Len(Source) \in Nat /\ Len(root) \in Nat /\ Len(q) \in Nat /\ Len(q) # 0
      /\ p \in Path /\ Len(p) = Len(Source) + Len(q)
      /\ \A i \in 1 .. Len(Source) + Len(q) :
           p[i] = IF i <= Len(Source) THEN Source[i] ELSE q[i - Len(Source)]
  BY Places, KeptPaths, ConcatPath, ConcatProperties DEF Path
<1>2. /\ Len(Destination) = Len(root) + 1 /\ Len(Destination) <= Len(p)
      /\ \A i \in 1 .. Len(root) + 1 : Destination[i] = p[i]
      /\ \A i \in 1 .. Len(root) : root[i] = p[i]
      /\ p[Len(root) + 1] = CopyName
  <2>1. Len(Destination) <= Len(p) /\ \A i \in 1 .. Len(Destination) : Destination[i] = p[i]
    BY <1>1, PrefixNames
  <2>2. /\ Len(Destination) = Len(root) + 1
        /\ \A i \in 1 .. Len(root) : Destination[i] = root[i]
        /\ Destination[Len(root) + 1] = CopyName
    BY Places
  <2>3. (\A i \in 1 .. Len(root) : i \in 1 .. Len(root) + 1)
        /\ Len(root) + 1 \in 1 .. Len(root) + 1
    BY <1>1
  <2> HIDE DEF p
  <2> QED BY <2>1, <2>2, <2>3
<1> HIDE DEF p
<1>3. Len(Source) <= Len(root)
  <2> SUFFICES ASSUME Len(Source) > Len(root) PROVE FALSE
    BY <1>1
  <2>1. \A i \in 1 .. Len(Destination) : Destination[i] = Source[i]
    BY <1>1, <1>2
  <2>2. IsPrefix(Destination, Source)
    BY <1>1, <1>2, <2>1, PrefixNames
  <2> QED BY <2>2, SandboxAssumption DEF Destination
<1>4. IsPrefix(Source, root)
  <2>1. ASSUME NEW i \in 1 .. Len(Source) PROVE Source[i] = root[i]
    <3>1. i <= Len(Source) /\ i \in 1 .. Len(root) /\ i \in 1 .. Len(Source) + Len(q)
      BY <1>1, <1>3
    <3>2. p[i] = Source[i] /\ root[i] = p[i]
      BY <1>1, <1>2, <3>1
    <3> QED BY <3>2
  <2>2. Source \in Path /\ root \in Path /\ Len(Source) <= Len(root)
    BY <1>1, <1>3
  <2> QED BY <2>1, <2>2, PrefixNames
<1>5. \A i \in 1 .. Len(root) : i > Len(Source) => root[i] \notin Ignored
  <2> SUFFICES ASSUME NEW i \in 1 .. Len(root), i > Len(Source)
               PROVE  root[i] \notin Ignored
    OBVIOUS
  <2>1. i - Len(Source) \in 1 .. Len(q) /\ root[i] = q[i - Len(Source)]
    BY <1>1, <1>2
  <2> QED BY <2>1, KeptPaths
<1>6. DOMAIN root = 1 .. Len(root)
  BY <1>1, LenProperties DEF Path
<1>7. root = Source => Head(q) = CopyName
  <2> HAVE root = Source
  <2>1. p[Len(Source) + 1] = q[1]
    BY <1>1
  <2>2. Head(q) = q[1]
    BY <1>1 DEF Path
  <2> QED BY <1>2, <2>1, <2>2
<1> QED BY <1>4, <1>5, <1>6, <1>7 DEF RootInside

-----------------------------------------------------------------------------
(* Copies inside the repository.                                           *)

(* The way from the repository to the copy.                                *)
LEMMA WayInside ==
    ASSUME root \in Root, RootInside
    PROVE  /\ Way \in KeptPath /\ Destination = Source \o Way
           /\ Len(Way) \in Nat /\ Len(Source) \in Nat
           /\ Len(Source) + Len(Way) = Len(root) + 1
           /\ root # Source => Len(Way) >= 2
<1>1. /\ Source \in Path /\ root \in Path /\ Destination \in Path
      /\ Len(root) \in Nat /\ Len(Source) \in Nat
      /\ Len(Destination) = Len(root) + 1
      /\ \A i \in 1 .. Len(root) : Destination[i] = root[i]
      /\ Destination[Len(root) + 1] = CopyName
  BY Places, LenProperties DEF Path
<1>2. /\ Len(Source) <= Len(root)
      /\ \A i \in 1 .. Len(Source) : Source[i] = root[i]
  BY <1>1, PrefixNames DEF RootInside
<1>3. IsPrefix(Source, Destination)
  <2>1. \A i \in 1 .. Len(Source) : Source[i] = Destination[i]
    BY <1>1, <1>2
  <2> QED BY <1>1, <1>2, <2>1, PrefixNames
<1>4. PICK t \in Path : Destination = Source \o t
  BY <1>1, <1>3, PrefixIsConcat
<1>5. Way = t /\ Len(t) \in Nat /\ Len(Destination) = Len(Source) + Len(t)
  BY <1>1, <1>4, ConcatPath DEF Way
<1>6. \A i \in 1 .. Len(t) : t[i] \notin Ignored
  <2> SUFFICES ASSUME NEW i \in 1 .. Len(t) PROVE t[i] \notin Ignored
    OBVIOUS
  <2> DEFINE j == Len(Source) + i
  <2>1. (Source \o t)[j] = t[i]
    <3>1. \A k \in 1 .. Len(Source) + Len(t) : (Source \o t)[k] =
            IF k <= Len(Source) THEN Source[k] ELSE t[k - Len(Source)]
      BY <1>1, ConcatProperties DEF Path
    <3>2. j \in 1 .. Len(Source) + Len(t) /\ ~(j <= Len(Source)) /\ j - Len(Source) = i
      BY <1>1, <1>5
    <3> QED BY <3>1, <3>2
  <2>2. j > Len(Source) /\ (j \in 1 .. Len(root) \/ j = Len(root) + 1)
    BY <1>1, <1>5
  <2> HIDE DEF j
  <2>3. CASE j \in 1 .. Len(root)
    <3>1. DOMAIN root = 1 .. Len(root)
      BY <1>1, LenProperties DEF Path
    <3>2. root[j] \notin Ignored
      BY <2>2, <2>3, <3>1 DEF RootInside
    <3> QED BY <1>1, <1>4, <2>1, <2>3, <3>2
  <2>4. CASE j = Len(root) + 1
    BY <1>1, <1>4, <2>1, <2>4, SandboxAssumption
  <2> QED BY <2>2, <2>3, <2>4
<1>7. t \in KeptPath
  <2>1. DOMAIN t = 1 .. Len(t)
    BY LenProperties DEF Path
  <2> QED BY <1>6, <2>1 DEF KeptPath
<1>8. root # Source => Len(t) >= 2
  <2> SUFFICES ASSUME Len(t) < 2 PROVE root = Source
    BY <1>5
  <2>1. Len(Source) = Len(root)
    BY <1>1, <1>2, <1>5
  <2> QED BY <1>1, <1>2, <2>1, SeqEqual DEF Path
<1> QED BY <1>1, <1>4, <1>5, <1>7, <1>8

(* A path that goes this way, again and again, has a next name on it; and  *)
(* the directory is there, as part of the way or of the copy.              *)
LEMMA OnTheWay ==
    ASSUME root \in Root, RootInside, root # Source,
           NEW q \in KeptPath, IsPrefix(q, Way \o q),
           NEW there, Parents \cup {Destination} \subseteq there,
           \A j \in 0 .. Len(q) - 1 : Destination \o SubSeq(q, 1, j) \in there
    PROVE  LET n == (Way \o q)[Len(q) + 1]
           IN  /\ n \in Name /\ n \notin Ignored
               /\ IsPrefix(Append(q, n), Way \o Append(q, n))
               /\ Append(Source \o q, n) \in there
<1> DEFINE w == Way
           p == w \o q
           n == p[Len(q) + 1]
           r == Append(q, n)
<1>1. /\ w \in KeptPath /\ w \in Path /\ Destination = Source \o w
      /\ Source \in Path /\ q \in Path
      /\ Len(w) \in Nat /\ Len(Source) \in Nat /\ Len(q) \in Nat /\ Len(root) \in Nat
      /\ Len(Source) + Len(w) = Len(root) + 1 /\ Len(w) >= 2
  BY WayInside, Places, KeptPaths, LenProperties DEF Path
<1> HIDE DEF w
<1>2. /\ p \in Path /\ Len(p) = Len(w) + Len(q)
      /\ \A i \in 1 .. Len(w) + Len(q) : p[i] = IF i <= Len(w) THEN w[i] ELSE q[i - Len(w)]
  BY <1>1, ConcatPath, ConcatProperties DEF Path
<1>3. Len(q) <= Len(p) /\ \A i \in 1 .. Len(q) : q[i] = p[i]
  BY <1>1, <1>2, PrefixNames DEF w
<1> HIDE DEF p
<1>4. n \in Name /\ n \notin Ignored
  <2>1. Len(q) + 1 \in 1 .. Len(w) + Len(q)
    BY <1>1
  <2>2. CASE Len(q) + 1 <= Len(w)
    <3>1. Len(q) + 1 \in 1 .. Len(w) /\ n = w[Len(q) + 1]
      BY <1>1, <1>2, <2>1, <2>2
    <3> QED BY <1>1, <3>1, KeptPaths
  <2>3. CASE ~(Len(q) + 1 <= Len(w))
    <3>1. Len(q) + 1 - Len(w) \in 1 .. Len(q) /\ n = q[Len(q) + 1 - Len(w)]
      BY <1>1, <1>2, <2>1, <2>3
    <3> QED BY <3>1, KeptPaths
  <2> QED BY <2>2, <2>3
<1>5. /\ r \in Path /\ Len(r) = Len(q) + 1
      /\ \A i \in 1 .. Len(q) : r[i] = q[i]
      /\ r[Len(q) + 1] = n
      /\ Append(Source \o q, n) = Source \o r
  <2> HIDE DEF n
  <2>1. Source \in Path /\ q \in Path /\ n \in Name
    BY <1>1, <1>4
  <2>2. /\ r \in Path /\ Len(r) = Len(q) + 1
        /\ r[Len(q) + 1] = n
        /\ Append(Source \o q, n) = Source \o r
    BY <2>1, AppendPath
  <2>3. \A i \in 1 .. Len(q) : r[i] = q[i]
    BY <2>1, AppendPath
  <2> HIDE DEF r
  <2> QED BY <2>2, <2>3, Zenon
<1> HIDE DEF r
<1>6. \A i \in 1 .. Len(r) : r[i] = p[i]
  <2>1. r[Len(q) + 1] = p[Len(q) + 1]
    BY <1>5
  <2>2. \A i \in 1 .. Len(r) : i = Len(q) + 1 \/ i \in 1 .. Len(q)
    BY <1>1, <1>5
  <2> HIDE DEF n, p
  <2> QED BY <1>3, <1>5, <2>1, <2>2
<1>7. IsPrefix(r, w \o r)
  <2> DEFINE z == w \o r
  <2>1. /\ z \in Path /\ Len(z) = Len(w) + Len(r)
        /\ \A i \in 1 .. Len(w) + Len(r) : z[i] = IF i <= Len(w) THEN w[i] ELSE r[i - Len(w)]
    <3>1. w \in Path /\ r \in Path /\ w \in Seq(Name) /\ r \in Seq(Name)
      BY <1>1, <1>5 DEF Path
    <3>2. z \in Path /\ Len(z) = Len(w) + Len(r)
      BY <3>1, ConcatPath
    <3> QED BY <3>1, <3>2, ConcatProperties
  <2> HIDE DEF z
  <2>2. ASSUME NEW i \in 1 .. Len(r) PROVE r[i] = z[i]
    <3>1. i \in 1 .. Len(w) + Len(q) /\ i \in 1 .. Len(w) + Len(r)
      BY <1>1, <1>5
    <3>2. CASE i <= Len(w)
      BY <1>2, <1>6, <2>1, <3>1, <3>2
    <3>3. CASE ~(i <= Len(w))
      <4>1. i - Len(w) \in 1 .. Len(q)
        BY <1>1, <1>5, <3>3
      <4>2. r[i - Len(w)] = q[i - Len(w)]
        BY <1>5, <4>1
      <4> QED BY <1>2, <1>6, <2>1, <3>1, <3>3, <4>2
    <3> QED BY <3>2, <3>3
  <2>3. Len(r) <= Len(z)
    BY <1>1, <1>5, <2>1
  <2>4. IsPrefix(r, z)
    BY <1>5, <2>1, <2>2, <2>3, PrefixNames
  <2> QED BY <2>4 DEF z
<1>8. Source \o r \in there
  <2>1. CASE Len(r) <= Len(w)
    <3> DEFINE m == Len(Source) + Len(r)
    <3>1. \A i \in 1 .. Len(r) : r[i] = w[i]
      BY <1>1, <1>2, <1>5, <1>6, <2>1
    <3>2. Len(r) \in 0 .. Len(w) /\ m \in 1 .. Len(root) + 1
      BY <1>1, <1>5, <2>1
    <3>3. r = SubSeq(w, 1, Len(r))
      <4> DEFINE b == SubSeq(w, 1, Len(r))
      <4>1. b \in Path /\ Len(b) = Len(r) /\ \A i \in 1 .. Len(r) : b[i] = w[i]
        BY <1>1, <3>2, FirstNames
      <4> HIDE DEF b
      <4>2. r = b
        BY <1>5, <3>1, <4>1, SeqEqual DEF Path
      <4> QED BY <4>2 DEF b
    <3>4. Source \o r = SubSeq(Destination, 1, m)
      <4>1. SubSeq(Source \o w, 1, Len(Source) + Len(r)) = Source \o SubSeq(w, 1, Len(r))
        BY <1>1, <3>2, FirstBelow
      <4> QED BY <1>1, <3>3, <4>1
    <3> HIDE DEF m
    <3>5. CASE m = Len(root) + 1
      <4>1. Destination \in Path /\ Len(Destination) = Len(root) + 1
        BY Places
      <4>2. SubSeq(Destination, 1, Len(Destination)) = Destination
        BY <4>1, SubSeqFull DEF Path
      <4>3. Source \o r = Destination
        BY <3>4, <3>5, <4>1, <4>2
      <4> QED BY <4>3
    <3>6. CASE m # Len(root) + 1
      <4>1. m \in 1 .. Len(root) /\ m \in 0 .. Len(root)
        <5>1. Len(root) \in Nat
          BY <1>1
        <5> QED BY <3>2, <3>6, <5>1
      <4>2. SubSeq(Destination, 1, m) = SubSeq(root, 1, m)
        BY <4>1, Places, AppendPath DEF Destination
      <4>3. SubSeq(root, 1, m) \in Parents
        BY <4>1 DEF Parents
      <4> QED BY <3>4, <4>2, <4>3
    <3> QED BY <3>5, <3>6
  <2>2. CASE ~(Len(r) <= Len(w))
    <3> DEFINE j == Len(r) - Len(w)
               u == SubSeq(q, 1, j)
    <3>1. j \in 0 .. Len(q) - 1 /\ j \in 0 .. Len(q) /\ Len(w) + j = Len(r)
      BY <1>1, <1>5, <2>2
    <3>2. u \in Path /\ Destination \o u \in there
      BY <1>1, <3>1, FirstNames
    <3>3. SubSeq(p, 1, Len(r)) = w \o u
      <4>1. SubSeq(w \o q, 1, Len(w) + j) = w \o SubSeq(q, 1, j)
        BY <1>1, <3>1, FirstBelow
      <4> QED BY <3>1, <4>1 DEF p
    <3>4. r = SubSeq(p, 1, Len(r))
      <4> DEFINE b == SubSeq(p, 1, Len(r))
      <4>1. Len(r) \in 0 .. Len(p)
        BY <1>1, <1>2, <1>5
      <4>2. b \in Path /\ Len(b) = Len(r) /\ \A i \in 1 .. Len(r) : b[i] = p[i]
        BY <1>2, <4>1, FirstNames
      <4> HIDE DEF b
      <4>3. r = b
        BY <1>5, <1>6, <4>2, SeqEqual DEF Path
      <4> QED BY <4>3 DEF b
    <3> HIDE DEF u, j
    <3>5. Source \o (w \o u) = (Source \o w) \o u
      <4>1. Source \in Seq(Name) /\ w \in Seq(Name) /\ u \in Seq(Name)
        BY <1>1, <3>2 DEF Path
      <4> QED BY <4>1, ConcatAssociative
    <3> QED BY <1>1, <3>2, <3>3, <3>4, <3>5
  <2> QED BY <2>1, <2>2
<1> QED BY <1>4, <1>5, <1>7, <1>8 DEF p, r, w

-----------------------------------------------------------------------------
(* The stack.                                                              *)

(* A call is done with an entry of its list.                               *)
Shorter(call, n) == [call EXCEPT !.left = @ \ {n}]

(* The call for the directory that an entry is.                            *)
Nested(call, n) ==
    [from |-> Append(call.from, n), to |-> Append(call.to, n),
     left |-> Listed(Append(call.from, n), files \cup folders)]

(* The current call and those that wait for it.                            *)
Current(call, rest) == call \in Call /\ rest \subseteq Call /\ Calls = {call} \cup rest

(* One call more on a stack.                                               *)
LEMMA Pushed ==
    ASSUME NEW s \in Seq(Call), NEW c \in Call
    PROVE  <<c>> \o s \in Seq(Call) /\ <<c>> \o s # <<>> /\ Range(<<c>> \o s) = {c} \cup Range(s)
<1> DEFINE t == <<c>>
<1>1. t \in Seq(Call) /\ t # <<>> /\ Range(t) = {c}
  BY DEF Range
<1> HIDE DEF t
<1>2. t \o s \in Seq(Call)
  BY <1>1, ConcatProperties
<1>3. Range(t \o s) = Range(t) \cup Range(s)
  BY <1>1, RangeConcatenation
<1>4. t \o s # <<>>
  BY <1>1, ConcatEqualIffEmpty
<1>5. t \o s \in Seq(Call) /\ t \o s # <<>> /\ Range(t \o s) = {c} \cup Range(s)
  BY <1>1, <1>2, <1>3, <1>4
<1> QED BY <1>5 DEF t

(* The first call of a stack, and the others.                              *)
LEMMA TopOfStack ==
    ASSUME stack \in Seq(Call), stack # <<>>
    PROVE  Current(Top, Range(Tail(stack))) /\ Tail(stack) \in Seq(Call)
<1>1. Top \in Call /\ Tail(stack) \in Seq(Call)
  BY HeadTailProperties DEF Top
<1>2. stack = <<Top>> \o Tail(stack)
  BY DEF Top
<1>3. Range(stack) = {Top} \cup Range(Tail(stack))
  BY <1>1, <1>2, Pushed, Zenon
<1> QED BY <1>1, <1>3, RangeOfSeq DEF Current, Calls

(* The type of a call that is done with an entry.                          *)
LEMMA ShorterCall ==
    ASSUME NEW c \in Call, NEW n
    PROVE  /\ Shorter(c, n) \in Call
           /\ Shorter(c, n).from = c.from /\ Shorter(c, n).to = c.to
           /\ Shorter(c, n).left = c.left \ {n}
BY DEF Call, Shorter

(* What each step does to the stack: a file is copied,                     *)
LEMMA FileStep ==
    ASSUME CopyTyped, CopyFile
    PROVE  \E c \in Call, rest \in SUBSET Call : \E n \in c.left :
             /\ Current(c, rest) /\ Len(c.to) < MaxPath
             /\ Append(c.from, n) \in files /\ files' = files \cup {Append(c.to, n)}
             /\ Calls' = {Shorter(c, n)} \cup rest
             /\ stack' \in Seq(Call) /\ stack' # <<>>
             /\ errors' \in ErrorsAfter(Append(c.from, n))
             /\ UNCHANGED <<root, folders, copy>>
<1>1. stack \in Seq(Call) /\ stack # <<>>
  BY DEF CopyTyped, CopyFile
<1>2. Current(Top, Range(Tail(stack))) /\ Tail(stack) \in Seq(Call) /\ Top \in Call
  BY <1>1, TopOfStack DEF Current
<1>3. PICK n \in Top.left : /\ Copying(n) /\ Append(Top.from, n) \in files
                            /\ files' = files \cup {Append(Top.to, n)}
                            /\ errors' \in ErrorsAfter(Append(Top.from, n))
                            /\ stack' = Without(n)
  BY DEF CopyFile
<1>4. stack' = <<Shorter(Top, n)>> \o Tail(stack)
  BY <1>3 DEF Without, Shorter
<1>5. /\ stack' \in Seq(Call) /\ stack' # <<>>
      /\ Calls' = {Shorter(Top, n)} \cup Range(Tail(stack))
  BY <1>2, <1>4, ShorterCall, Pushed DEF Calls
<1> QED BY <1>2, <1>3, <1>5 DEF Copying, CopyFile, Current

(* a directory is made, and the call for it is on top,                     *)
LEMMA FolderStep ==
    ASSUME CopyTyped, CopyFolder
    PROVE  \E c \in Call, rest \in SUBSET Call : \E n \in c.left :
             /\ Current(c, rest) /\ Len(c.to) < MaxPath
             /\ Append(c.from, n) \in folders /\ folders' = folders \cup {Append(c.to, n)}
             /\ (Nested(c, n) \in Call =>
                   /\ Calls' = {Nested(c, n), Shorter(c, n)} \cup rest
                   /\ stack' \in Seq(Call) /\ stack' # <<>>)
             /\ UNCHANGED <<root, files, errors, copy>>
<1>1. stack \in Seq(Call) /\ stack # <<>>
  BY DEF CopyTyped, CopyFolder
<1>2. Current(Top, Range(Tail(stack))) /\ Tail(stack) \in Seq(Call) /\ Top \in Call
  BY <1>1, TopOfStack DEF Current
<1>3. PICK n \in Top.left : /\ Copying(n) /\ Append(Top.from, n) \in folders
                            /\ folders' = folders \cup {Append(Top.to, n)}
                            /\ stack' = <<Nested(Top, n)>> \o Without(n)
  BY DEF CopyFolder, Nested
<1>4. Without(n) = <<Shorter(Top, n)>> \o Tail(stack)
  BY DEF Without, Shorter
<1>5. Without(n) \in Seq(Call) /\ Range(Without(n)) = {Shorter(Top, n)} \cup Range(Tail(stack))
  BY <1>2, <1>4, ShorterCall, Pushed
<1>6. Nested(Top, n) \in Call =>
        /\ Calls' = {Nested(Top, n), Shorter(Top, n)} \cup Range(Tail(stack))
        /\ stack' \in Seq(Call) /\ stack' # <<>>
  BY <1>3, <1>5, Pushed DEF Calls
<1> QED BY <1>2, <1>3, <1>6 DEF Copying, CopyFolder, Current

(* an entry whose path is too long is given up,                            *)
LEMMA TooLongStep ==
    ASSUME CopyTyped, NameTooLong
    PROVE  \E c \in Call, rest \in SUBSET Call : \E n \in c.left :
             /\ Current(c, rest) /\ Len(c.to) = MaxPath
             /\ Calls' = {Shorter(c, n)} \cup rest
             /\ stack' \in Seq(Call) /\ stack' # <<>> /\ errors' = TRUE
             /\ UNCHANGED <<root, files, folders, copy>>
<1>1. stack \in Seq(Call) /\ stack # <<>>
  BY DEF CopyTyped, NameTooLong
<1>2. Current(Top, Range(Tail(stack))) /\ Tail(stack) \in Seq(Call) /\ Top \in Call
  BY <1>1, TopOfStack DEF Current
<1>3. PICK n \in Top.left : stack' = Without(n)
  BY DEF NameTooLong
<1>4. stack' = <<Shorter(Top, n)>> \o Tail(stack)
  BY <1>3 DEF Without, Shorter
<1>5. /\ stack' \in Seq(Call) /\ stack' # <<>>
      /\ Calls' = {Shorter(Top, n)} \cup Range(Tail(stack))
  BY <1>2, <1>4, ShorterCall, Pushed DEF Calls
<1> QED BY <1>2, <1>3, <1>5 DEF NameTooLong, Current

(* or because it is not reliable,                                          *)
LEMMA FailStep ==
    ASSUME CopyTyped, EntryFails
    PROVE  \E c \in Call, rest \in SUBSET Call : \E n \in c.left :
             /\ Current(c, rest) /\ Append(c.from, n) \in Unreliable
             /\ Calls' = {Shorter(c, n)} \cup rest
             /\ stack' \in Seq(Call) /\ stack' # <<>> /\ errors' = TRUE
             /\ UNCHANGED <<root, files, folders, copy>>
<1>1. stack \in Seq(Call) /\ stack # <<>>
  BY DEF CopyTyped, EntryFails
<1>2. Current(Top, Range(Tail(stack))) /\ Tail(stack) \in Seq(Call) /\ Top \in Call
  BY <1>1, TopOfStack DEF Current
<1>3. PICK n \in Top.left : Append(Top.from, n) \in Unreliable /\ stack' = Without(n)
  BY DEF EntryFails
<1>4. stack' = <<Shorter(Top, n)>> \o Tail(stack)
  BY <1>3 DEF Without, Shorter
<1>5. /\ stack' \in Seq(Call) /\ stack' # <<>>
      /\ Calls' = {Shorter(Top, n)} \cup Range(Tail(stack))
  BY <1>2, <1>4, ShorterCall, Pushed DEF Calls
<1> QED BY <1>2, <1>3, <1>5 DEF EntryFails, Current

(* or the current call ends.                                               *)
LEMMA EndStep ==
    ASSUME CopyTyped, EndFolder
    PROVE  \E c \in Call, rest \in SUBSET Call :
             /\ Current(c, rest) /\ c.left = {}
             /\ Calls' = rest /\ stack' \in Seq(Call)
             /\ copy' = IF stack' # <<>> THEN "copying" ELSE IF errors' THEN "failed" ELSE "copied"
             /\ errors' \in ErrorsAfter(c.from)
             /\ UNCHANGED <<root, files, folders>>
<1>1. stack \in Seq(Call) /\ stack # <<>>
  BY DEF CopyTyped, EndFolder
<1>2. Current(Top, Range(Tail(stack))) /\ Tail(stack) \in Seq(Call) /\ Top \in Call
  BY <1>1, TopOfStack DEF Current
<1>3. Calls' = Range(Tail(stack)) /\ stack' = Tail(stack)
  BY DEF EndFolder, Calls
<1> QED BY <1>2, <1>3 DEF EndFolder, Current

-----------------------------------------------------------------------------
(* Calls and their entries.                                                *)

(* The sandbox root stays, and with it what depends on it alone.           *)
LEMMA RootStays ==
    ASSUME root' = root
    PROVE  /\ Destination' = Destination /\ Parents' = Parents /\ Way' = Way
           /\ Repository' = Repository /\ RootInside' = RootInside
           /\ Excuse' = Excuse
BY DEF Destination, Parents, Way, Repository, RootInside, Excuse

(* A call is as good with fewer entries and more that is there.            *)
LEMMA CallStays ==
    ASSUME root' = root, files \subseteq files', folders \subseteq folders',
           NEW c, CallOK(c), NEW d, d.from = c.from, d.to = c.to, d.left \subseteq c.left
    PROVE  CallOK(d)'
<1>1. Place(d) = Place(c)
  BY DEF Place
<1> QED BY <1>1, RootStays DEF CallOK

(* An entry of a call: its path below the repository, and that of its copy.*)
LEMMA Entry ==
    ASSUME root \in Root, NEW c \in Call, CallOK(c), NEW n \in c.left
    PROVE  LET q == Append(Place(c), n)
           IN  /\ Place(c) \in KeptPath /\ n \in Name /\ n \notin Ignored
               /\ q \in KeptPath /\ q \in Path /\ q # <<>>
               /\ Append(c.from, n) = Source \o q /\ Append(c.to, n) = Destination \o q
               /\ Source \o q \in Path /\ Destination \o q \in Path
               /\ Source \o q \in files \cup folders
               /\ IsStrictPrefix(Destination, Destination \o q)
               /\ Len(c.to) \in Nat /\ Len(Destination \o q) = Len(c.to) + 1
<1> DEFINE r == Place(c)
           q == Append(r, n)
<1>1. /\ r \in KeptPath /\ n \in Name /\ n \notin Ignored
      /\ c.from = Source \o r /\ c.to = Destination \o r
      /\ Append(c.from, n) \in files \cup folders
  BY DEF CallOK, Call
<1>2. r \in Path /\ Source \in Path /\ Destination \in Path /\ c.to \in Path
  BY <1>1, KeptPaths, Places DEF Call
<1> HIDE DEF r
<1>3. q \in KeptPath /\ q \in Path /\ q # <<>>
  BY <1>1, KeptPaths, AppendPath
<1>4. Append(c.from, n) = Source \o q /\ Append(c.to, n) = Destination \o q
  <2>1. Append(Source \o r, n) = Source \o q /\ Append(Destination \o r, n) = Destination \o q
    BY <1>1, <1>2, AppendBelow
  <2> QED BY <1>1, <2>1
<1>5. Len(c.to) \in Nat /\ Len(Append(c.to, n)) = Len(c.to) + 1
  BY <1>1, <1>2, AppendPath
<1> HIDE DEF q
<1>6. Source \o q \in Path /\ Destination \o q \in Path /\ Destination \o q # Destination
  BY <1>2, <1>3, ConcatPath
<1>7. IsStrictPrefix(Destination, Destination \o q)
  BY <1>2, <1>3, <1>6, PrefixIsConcat DEF IsStrictPrefix
<1> QED BY <1>1, <1>3, <1>4, <1>5, <1>6, <1>7 DEF r, q

(* The call for an entry that is a directory.                              *)
LEMMA NestedCall ==
    ASSUME root \in Root, files \subseteq Path, folders \subseteq Path,
           NEW c \in Call, CallOK(c), NEW n \in c.left, Len(c.to) < MaxPath,
           root' = root, files' = files, folders' = folders \cup {Append(c.to, n)},
           NEW d, d = Nested(c, n)
    PROVE  d \in Call /\ Place(d) = Append(Place(c), n) /\ CallOK(d)'
<1> DEFINE r == Place(c)
           q == Append(r, n)
<1>1. /\ r \in KeptPath /\ r \in Path /\ n \in Name /\ q \in KeptPath /\ q \in Path
      /\ Append(c.from, n) = Source \o q /\ Append(c.to, n) = Destination \o q
      /\ Source \in Path /\ Source \o q \in Path /\ Destination \o q \in Path
      /\ Len(c.to) \in Nat /\ Len(Destination \o q) = Len(c.to) + 1 /\ MaxPath \in Nat
  BY Entry, Places, KeptPaths
<1>2. /\ Len(r) \in Nat /\ Len(q) = Len(r) + 1
      /\ \A k \in 0 .. Len(r) : SubSeq(q, 1, k) = SubSeq(r, 1, k)
  BY <1>1, AppendPath
<1>3. SubSeq(q, 1, Len(q)) = q
  BY <1>1, SubSeqFull DEF Path
<1>4. \A j \in 0 .. Len(r) : Destination \o SubSeq(r, 1, j) \in folders
  BY DEF CallOK
<1> HIDE DEF q, r
<1>5. \A m : m \in Listed(Source \o q, files \cup folders) <=>
               m \in Name /\ m \notin Ignored /\ Append(Source \o q, m) \in files \cup folders
  BY <1>1, ListedEntry
<1>6. /\ d.from = Source \o q /\ d.to = Destination \o q
      /\ d.left = Listed(Source \o q, files \cup folders) /\ d \in Call
  BY <1>1, <1>5 DEF Nested, Call
<1>7. Place(d) = q
  BY <1>1, <1>6, ConcatPath DEF Place
<1>8. \A j \in 0 .. Len(q) : Destination \o SubSeq(q, 1, j) \in folders'
  <2> SUFFICES ASSUME NEW j \in 0 .. Len(q)
               PROVE  Destination \o SubSeq(q, 1, j) \in folders'
    OBVIOUS
  <2>1. CASE j \in 0 .. Len(r)
    <3>1. SubSeq(q, 1, j) = SubSeq(r, 1, j) /\ Destination \o SubSeq(r, 1, j) \in folders
      BY <1>2, <1>4, <2>1
    <3> QED BY <3>1
  <2>2. CASE j = Len(q)
    <3>1. SubSeq(q, 1, j) = q
      BY <1>3, <2>2
    <3> QED BY <1>1, <3>1
  <2>3. j \in 0 .. Len(r) \/ j = Len(q)
    BY <1>2
  <2> QED BY <2>1, <2>2, <2>3
<1>9. Len(d.to) <= MaxPath
  BY <1>1, <1>6
<1>10. d.left \cap Ignored = {}
  BY <1>5, <1>6
<1>11. \A m \in d.left : Append(d.from, m) \in files' \cup folders'
  BY <1>5, <1>6
<1>12. CallOK(d)'
  BY <1>1, <1>6, <1>7, <1>8, <1>9, <1>10, <1>11, RootStays DEF CallOK
<1> QED BY <1>6, <1>7, <1>12 DEF q, r

(* The rest of a path that is to be copied, when it is the turn of a name. *)
LEMMA Comes ==
    ASSUME root \in Root, NEW c \in Call, CallOK(c), NEW q \in Repository,
           NEW k \in 0 .. Len(q) - 1, c.from = Source \o SubSeq(q, 1, k)
    PROVE  /\ q \in Path /\ q[k + 1] \in Name /\ q[k + 1] \notin Ignored
           /\ Append(c.from, q[k + 1]) = Source \o SubSeq(q, 1, k + 1)
           /\ Append(c.to, q[k + 1]) = Destination \o SubSeq(q, 1, k + 1)
           /\ k + 1 = Len(q) => SubSeq(q, 1, k + 1) = q
           /\ k + 1 # Len(q) => /\ k + 1 \in 0 .. Len(q) - 1
                                /\ Source \o SubSeq(q, 1, k + 1) \in Folder \cup Parents
<1> DEFINE r == Place(c)
           u == SubSeq(q, 1, k)
           v == SubSeq(q, 1, k + 1)
<1>1. /\ q \in KeptPath /\ q \in Path /\ Source \in Path /\ Destination \in Path
      /\ Len(q) \in Nat /\ k \in 0 .. Len(q) /\ k + 1 \in 1 .. Len(q)
  <2>1. q \in KeptPath /\ q \in Path
    BY ToCopy, KeptPaths
  <2>2. Len(q) \in Nat
    BY <2>1, LenProperties DEF Path
  <2> QED BY <2>1, <2>2, Places
<1>2. u \in Path /\ v = Append(u, q[k + 1]) /\ q[k + 1] \in Name
  BY <1>1, FirstNames, NextName
<1>3. q[k + 1] \notin Ignored
  BY <1>1, KeptPaths
<1>4. r \in Path /\ c.from = Source \o r /\ c.to = Destination \o r
  BY KeptPaths DEF CallOK
<1> HIDE DEF r, u
<1>5. r = u
  BY <1>1, <1>2, <1>4, Cancel DEF u
<1>6. /\ Append(c.from, q[k + 1]) = Source \o v
      /\ Append(c.to, q[k + 1]) = Destination \o v
  <2>1. /\ Append(Source \o u, q[k + 1]) = Source \o Append(u, q[k + 1])
        /\ Append(Destination \o u, q[k + 1]) = Destination \o Append(u, q[k + 1])
    BY <1>1, <1>2, AppendBelow
  <2> QED BY <1>2, <1>4, <1>5, <2>1
<1>7. k + 1 = Len(q) => v = q
  BY <1>1, SubSeqFull DEF Path
<1>8. k + 1 # Len(q) => k + 1 \in 1 .. Len(q) - 1 /\ k + 1 \in 0 .. Len(q) - 1
  BY <1>1
<1>9. k + 1 # Len(q) => Source \o v \in Folder \cup Parents
  BY <1>8, ToCopy
<1> QED BY <1>1, <1>2, <1>3, <1>6, <1>7, <1>8, <1>9

-----------------------------------------------------------------------------
(* The invariant.                                                          *)

(* It holds before the copy.                                               *)
LEMMA CopyInvInit == CopyInit => CopyInv
<1> SUFFICES ASSUME CopyInit PROVE CopyInv
  OBVIOUS
<1>1. /\ root \in Root /\ files = File /\ folders = Folder
      /\ stack = <<>> /\ errors = FALSE /\ copy = "none"
  BY DEF CopyInit
<1>2. Calls = {}
  BY <1>1 DEF Calls, Range
<1>3. CopyTyped
  <2>1. <<>> \in Seq(Call)
    BY EmptySeq
  <2> QED BY <1>1, <2>1, SandboxAssumption DEF CopyTyped
<1>4. Mirrored
  <2>1. Destination \in Path /\ File \cup Folder \subseteq Path
    BY <1>1, Places
  <2>2. Below(Destination, File \cup Folder) = {}
    BY <1>1, <2>1, BelowEntry, PlaceIsFree
  <2> QED BY <1>1, <2>2 DEF Mirrored
<1> QED BY <1>1, <1>2, <1>3, <1>4 DEF CopyInv, Grown, CallsOK, Covered, Endless, Excused

(* What is below the place of the copy, in the words of the invariant.     *)
LEMMA MirroredEntry ==
    ASSUME CopyTyped, Mirrored, NEW q \in Path, q # <<>>
    PROVE  /\ Destination \o q \in files \cup folders => q \in KeptPath
           /\ Destination \o q \in files => Source \o q \in files
           /\ Destination \o q \in folders => Source \o q \in folders
<1>1. Destination \in Path /\ files \cup folders \subseteq Path
  BY Places DEF CopyTyped
<1>2. q \in Below(Destination, files \cup folders) <=> Destination \o q \in files \cup folders
  BY <1>1, BelowEntry
<1> QED BY <1>2 DEF Mirrored

(* Nothing is copied; there are only the directories on the way.           *)
LEMMA NoCopy ==
    ASSUME CopyInv, CannotBegin
    PROVE  CopyInv'
<1>1. PICK made \in 0 .. Len(Destination) :
        folders' = folders \cup {SubSeq(Destination, 1, i) : i \in 1 .. made}
  BY DEF CannotBegin
<1>2. /\ root' = root /\ files' = File /\ errors' = TRUE /\ copy' = "failed" /\ stack' = stack
      /\ root \in Root /\ files = File /\ folders = Folder /\ stack = <<>>
      /\ {Source, root} \cap Unreliable # {}
  BY DEF CannotBegin, CopyInv, CopyTyped
<1>3. /\ File \subseteq Path /\ Folder \subseteq Path /\ Parents \subseteq Path
      /\ Destination \in Path /\ (Parents \cup {Destination}) \cap File = {}
      /\ File \cap Folder = {} /\ Len(Destination) = Len(root) + 1 /\ Len(root) \in Nat
  BY <1>2, Places, ParentPaths, SandboxAssumption
<1>4. ASSUME NEW i \in 1 .. made PROVE SubSeq(Destination, 1, i) \in Parents \cup {Destination}
  <2>1. CASE i = Len(root) + 1
    BY <1>3, <2>1, SubSeqFull DEF Path
  <2>2. CASE i # Len(root) + 1
    <3>1. i \in 1 .. Len(root) /\ i \in 0 .. Len(root)
      BY <1>3, <2>2
    <3>2. SubSeq(Destination, 1, i) = SubSeq(root, 1, i)
      BY <1>2, <3>1, Places, AppendPath DEF Destination
    <3> QED BY <3>1, <3>2 DEF Parents
  <2> QED BY <2>1, <2>2
<1>5. folders' \subseteq Folder \cup Parents \cup {Destination} /\ folders \subseteq folders'
  BY <1>1, <1>2, <1>4
<1>6. RootInside' = RootInside /\ Destination' = Destination /\ Way' = Way
       /\ Repository' = Repository /\ Parents' = Parents /\ Excuse' = Excuse
  BY <1>2, RootStays
<1>7. CopyTyped'
  BY <1>2, <1>3, <1>5, <1>6 DEF CopyInv, CopyTyped
<1>8. Grown'
  <2>1. IsPrefix(Destination, Destination)
    <3>1. <<>> \in Path /\ Destination = Destination \o <<>>
      BY <1>3, EmptySeq, ConcatEmptySeq DEF Path
    <3> QED BY <1>3, <3>1, PrefixIsConcat
  <2> QED BY <1>2, <1>5, <1>6, <2>1 DEF Grown
<1>9. Mirrored'
  <2> DEFINE there == files' \cup folders'
  <2>1. ASSUME NEW q \in Below(Destination, there) PROVE FALSE
    <3>1. there \in SUBSET Path
      BY <1>2, <1>3, <1>5
    <3>2. there \subseteq File \cup Folder \cup Parents \cup {Destination}
      BY <1>2, <1>5
    <3> HIDE DEF there
    <3>3. q \in Path /\ q # <<>> /\ Destination \o q \in there
      BY <1>3, <2>1, <3>1, BelowEntry
    <3>4. Destination \o q # Destination
      BY <1>3, <3>3, ConcatPath
    <3> QED BY <1>2, <3>2, <3>3, <3>4, PlaceIsFree
  <2> QED BY <1>6, <2>1 DEF Mirrored
<1>10. CallsOK'
  BY <1>2 DEF CallsOK, Calls, Range
<1>11. Covered' /\ Endless' /\ Excused'
  BY <1>2, <1>6 DEF Covered, Endless, Excused, Excuse
<1> QED BY <1>7, <1>8, <1>9, <1>10, <1>11 DEF CopyInv

(* The directory for the copy is made, and the repository is listed.       *)
LEMMA CreateStep ==
    ASSUME CopyInv, CreateCopy
    PROVE  CopyInv'
<1>1. /\ copy = "none" /\ root' = root /\ files' = File /\ errors' = FALSE /\ copy' = "copying"
      /\ folders' = Folder \cup Parents \cup {Destination}
      /\ root \in Root /\ root' \in Root /\ files = File /\ folders = Folder /\ ~errors
  BY DEF CreateCopy, CopyInv, CopyTyped
<1>2. /\ File \subseteq Path /\ Folder \subseteq Path /\ Parents \subseteq Path
      /\ Destination \in Path /\ Source \in Path /\ (Parents \cup {Destination}) \cap File = {}
      /\ File \cap Folder = {} /\ Len(Destination) <= MaxPath /\ Source \in Folder
  BY <1>1, Places, ParentPaths, SandboxAssumption
<1>3. <<>> \in Path /\ Len(<<>>) = 0 /\ <<>> \in KeptPath
  BY EmptySeq DEF Path, KeptPath
<1>4. Source \o <<>> = Source /\ Destination \o <<>> = Destination
  BY <1>2, ConcatEmptySeq DEF Path
<1> DEFINE list == Listed(Source, files \cup folders')
           c == [from |-> Source, to |-> Destination, left |-> list]
<1>5. \A n : n \in list <=> /\ n \in Name /\ n \notin Ignored
                            /\ Append(Source, n) \in files \cup folders'
  <2> DEFINE all == files \cup folders'
  <2>1. all \in SUBSET Path
    BY <1>1, <1>2
  <2> HIDE DEF all
  <2>2. \A n : n \in Listed(Source, all) <=>
                n \in Name /\ n \notin Ignored /\ Append(Source, n) \in all
    BY <1>2, <2>1, ListedEntry
  <2> QED BY <2>2 DEF all
<1>6. PICK d : d = c
  OBVIOUS
<1>7. stack' = <<d>>
  BY <1>6 DEF CreateCopy
<1>8. /\ d.from = Source /\ d.to = Destination /\ d.left = list /\ d \in Call
      /\ \A n \in d.left : n \in Name /\ n \notin Ignored
                           /\ Append(Source, n) \in files \cup folders'
  BY <1>2, <1>5, <1>6 DEF Call
<1> HIDE DEF list
<1>9. Place(d) = <<>>
  BY <1>2, <1>3, <1>4, <1>8, ConcatPath DEF Place
<1>10. stack' \in Seq(Call) /\ stack' # <<>> /\ Calls' = {d}
  BY <1>7, <1>8 DEF Calls, Range
<1>11. RootInside' = RootInside /\ Destination' = Destination /\ Way' = Way
       /\ Repository' = Repository /\ Parents' = Parents /\ Excuse' = Excuse
  BY <1>1, RootStays
<1>12. CopyTyped'
  BY <1>1, <1>2, <1>10, <1>11 DEF CopyTyped
<1>13. Grown'
  <2>1. IsPrefix(Destination, Destination)
    BY <1>2, <1>3, <1>4, PrefixIsConcat
  <2> QED BY <1>1, <1>11, <2>1 DEF Grown
<1>14. Mirrored'
  <2>1. ASSUME NEW q \in Below(Destination, File \cup (Folder \cup Parents \cup {Destination}))
        PROVE  FALSE
    <3>1. /\ q \in Path /\ q # <<>>
          /\ Destination \o q \in File \cup (Folder \cup Parents \cup {Destination})
      <4> DEFINE all == File \cup (Folder \cup Parents \cup {Destination})
      <4>1. all \in SUBSET Path
        BY <1>2
      <4> HIDE DEF all
      <4>2. q \in Below(Destination, all) =>
              q \in Path /\ q # <<>> /\ Destination \o q \in all
        BY <1>2, <4>1, BelowEntry
      <4> QED BY <2>1, <4>2 DEF all
    <3>2. Destination \o q # Destination
      BY <1>2, <3>1, ConcatPath
    <3> QED BY <1>1, <3>1, <3>2, PlaceIsFree
  <2> QED BY <1>1, <1>11, <2>1 DEF Mirrored
<1>15. CallsOK'
  <2>1. CallOK(d)'
    <3>1. \A j \in 0 .. Len(Place(d)) : Destination \o SubSeq(Place(d), 1, j) \in folders'
      <4> SUFFICES ASSUME NEW j \in 0 .. Len(Place(d))
                   PROVE  Destination \o SubSeq(Place(d), 1, j) \in folders'
        OBVIOUS
      <4>1. j = 0
        BY <1>3, <1>9
      <4>2. SubSeq(Place(d), 1, j) = <<>>
        BY <4>1, SubSeqEmpty
      <4> QED BY <1>1, <1>4, <4>2
    <3>2. d.left \cap Ignored = {} /\ \A n \in d.left : Append(d.from, n) \in files' \cup folders'
      BY <1>1, <1>8
    <3> QED BY <1>2, <1>3, <1>4, <1>8, <1>9, <1>11, <3>1, <3>2 DEF CallOK
  <2> QED BY <1>10, <2>1 DEF CallsOK
<1>16. Covered'
  <2>1. ASSUME NEW q \in Repository PROVE Awaits(d, q)
    <3>1. /\ q \in KeptPath /\ q \in Path /\ q # <<>>
          /\ Source \o q \in File \cup Folder \cup Parents
      BY <1>1, <2>1, ToCopy, KeptPaths
    <3>2. Len(q) \in Nat /\ Len(q) >= 1 /\ 1 \in 1 .. Len(q) /\ 0 \in 0 .. Len(q) - 1 /\ 0 + 1 = 1
      BY <3>1, EmptySeq DEF Path
    <3>3. SubSeq(q, 1, 0) = <<>>
      BY SubSeqEmpty
    <3>4. q[1] \in Name /\ q[1] \notin Ignored
      BY <3>1, <3>2, KeptPaths
    <3>5. Append(Source, q[1]) = Source \o SubSeq(q, 1, 1)
      <4>1. SubSeq(q, 1, 1) = Append(<<>>, q[1])
        BY <3>1, <3>2, <3>3, NextName
      <4>2. Append(Source \o <<>>, q[1]) = Source \o Append(<<>>, q[1])
        BY <1>2, <1>3, <3>4, AppendBelow
      <4> QED BY <1>4, <4>1, <4>2
    <3>6. Source \o SubSeq(q, 1, 1) \in files \cup folders'
      <4>1. CASE Len(q) = 1
        <5>1. SubSeq(q, 1, Len(q)) = q
          BY <3>1, SubSeqFull DEF Path
        <5> QED BY <1>1, <3>1, <4>1, <5>1
      <4>2. CASE Len(q) # 1
        <5> DEFINE l == Len(q)
        <5>1. 1 \in 1 .. l - 1
          <6>1. l \in Nat /\ l >= 1 /\ l # 1
            BY <3>2, <4>2
          <6> HIDE DEF l
          <6> QED BY <6>1
        <5> QED BY <1>1, <2>1, <5>1, ToCopy
      <4> QED BY <4>1, <4>2
    <3>7. q[1] \in d.left
      BY <1>5, <1>8, <3>4, <3>5, <3>6
    <3> QED BY <1>4, <1>8, <3>2, <3>3, <3>7 DEF Awaits
  <2> QED BY <1>10, <1>11, <2>1 DEF Covered
<1>17. Endless'
  <2>1. ASSUME RootInside, root # Source
        PROVE  IsPrefix(<<>>, Way \o <<>>) /\ (Way \o <<>>)[0 + 1] \in d.left
    <3>1. IsPrefix(<<>>, Way \o <<>>)
      <4>1. Way \in Path /\ Way \o <<>> = <<>> \o Way
        BY <1>1, <2>1, WayInside, KeptPaths, ConcatEmptySeq DEF Path
      <4>2. Way \o <<>> \in Path
        BY <1>3, <4>1, ConcatPath
      <4> QED BY <1>3, <4>1, <4>2, PrefixIsConcat
    <3> DEFINE n == (Way \o <<>>)[0 + 1]
               there == folders'
    <3>2. Parents \cup {Destination} \subseteq there
      BY <1>1
    <3>3. \A j \in 0 .. 0 - 1 : Destination \o SubSeq(<<>>, 1, j) \in there
      OBVIOUS
    <3> HIDE DEF there
    <3>4. n \in Name /\ n \notin Ignored /\ Append(Source \o <<>>, n) \in there
      BY <1>1, <1>3, <2>1, <3>1, <3>2, <3>3, OnTheWay
    <3> QED BY <1>4, <1>5, <1>8, <3>1, <3>4 DEF there
  <2> QED BY <1>1, <1>3, <1>9, <1>10, <1>11, <2>1 DEF Endless
<1>18. Excused'
  BY <1>1 DEF Excused
<1> QED BY <1>12, <1>13, <1>14, <1>15, <1>16, <1>17, <1>18 DEF CopyInv

(* What the invariant says of the current call and its entries.            *)
LEMMA CurrentCall ==
    ASSUME CopyInv, NEW c \in Call, NEW rest \in SUBSET Call, Current(c, rest)
    PROVE  root \in Root /\ CallOK(c) /\ \A d \in rest : CallOK(d)
BY DEF CopyInv, CopyTyped, CallsOK, Current

(* The others stay as they are when there is more.                         *)
LEMMA OthersStay ==
    ASSUME CopyInv, root' = root, files \subseteq files', folders \subseteq folders',
           NEW c \in Call, NEW rest \in SUBSET Call, Current(c, rest)
    PROVE  \A d \in rest : CallOK(d)'
BY CurrentCall, CallStays

(* The current call stays as good without an entry.                        *)
LEMMA ShorterStays ==
    ASSUME CopyInv, root' = root, files \subseteq files', folders \subseteq folders',
           NEW c \in Call, NEW rest \in SUBSET Call, Current(c, rest), NEW n,
           NEW d, d = Shorter(c, n)
    PROVE  CallOK(d)'
<1>1. d.from = c.from /\ d.to = c.to /\ d.left \subseteq c.left
  BY ShorterCall
<1> QED BY <1>1, CurrentCall, CallStays

(* What is awaited of a call still is when it is done with another entry;  *)
(* other calls are as they were.                                           *)
LEMMA StillAwaited ==
    ASSUME CopyInv, copy # "none", ~errors,
           NEW c \in Call, NEW rest \in SUBSET Call, Current(c, rest), NEW n \in c.left,
           NEW q \in Repository, Destination \o q \notin files \cup folders
    PROVE  \/ \E d \in {Shorter(c, n)} \cup rest : Awaits(d, q)
           \/ \E k \in 0 .. Len(q) - 1 : c.from = Source \o SubSeq(q, 1, k) /\ q[k + 1] = n
<1>1. PICK d \in Calls : Awaits(d, q)
  BY DEF CopyInv, Covered
<1>2. PICK k \in 0 .. Len(q) - 1 : d.from = Source \o SubSeq(q, 1, k) /\ q[k + 1] \in d.left
  BY <1>1 DEF Awaits
<1>3. CASE d \in rest
  BY <1>1, <1>3
<1>4. CASE d = c /\ q[k + 1] # n
  <2>1. Shorter(c, n).from = c.from /\ q[k + 1] \in Shorter(c, n).left
    BY <1>2, <1>4, ShorterCall
  <2> QED BY <1>2, <1>4, <2>1 DEF Awaits
<1>5. CASE d = c /\ q[k + 1] = n
  BY <1>2, <1>5
<1> QED BY <1>1, <1>3, <1>4, <1>5 DEF Current

(* A call that goes round in the copy still does when another entry is     *)
(* done, unless it is the one on the way, which is a directory.            *)
LEMMA StillEndless ==
    ASSUME CopyInv, copy # "none", ~errors, RootInside, root # Source,
           NEW c \in Call, NEW rest \in SUBSET Call, Current(c, rest), NEW n \in c.left
    PROVE  \/ \E d \in {Shorter(c, n)} \cup rest :
                /\ IsPrefix(Place(d), Way \o Place(d))
                /\ (Way \o Place(d))[Len(Place(d)) + 1] \in d.left
           \/ /\ IsPrefix(Place(c), Way \o Place(c))
              /\ n = (Way \o Place(c))[Len(Place(c)) + 1]
              /\ Append(c.from, n) \in folders
<1>1. PICK d \in Calls : /\ IsPrefix(Place(d), Way \o Place(d))
                         /\ (Way \o Place(d))[Len(Place(d)) + 1] \in d.left
  BY DEF CopyInv, Endless
<1>2. CASE d \in rest
  BY <1>1, <1>2
<1>3. CASE d = c /\ n # (Way \o Place(c))[Len(Place(c)) + 1]
  <2>1. Place(Shorter(c, n)) = Place(c) /\ Shorter(c, n).left = c.left \ {n}
    BY ShorterCall DEF Place
  <2> QED BY <1>1, <1>3, <2>1
<1>4. CASE d = c /\ n = (Way \o Place(c))[Len(Place(c)) + 1]
  <2> DEFINE q == Place(c)
  <2>1. /\ root \in Root /\ q \in KeptPath /\ c.from = Source \o q
        /\ \A j \in 0 .. Len(q) : Destination \o SubSeq(q, 1, j) \in folders
    BY CurrentCall DEF CallOK
  <2>2. Parents \cup {Destination} \subseteq folders
    BY DEF CopyInv, CopyTyped
  <2>3. IsPrefix(q, Way \o q) /\ n = (Way \o q)[Len(q) + 1]
    BY <1>1, <1>4
  <2> HIDE DEF q
  <2>4. \A j \in 0 .. Len(q) - 1 : Destination \o SubSeq(q, 1, j) \in folders
    <3>1. Len(q) \in Nat
      BY <2>1, KeptPaths, LenProperties DEF Path
    <3>2. \A j \in 0 .. Len(q) - 1 : j \in 0 .. Len(q)
      BY <3>1
    <3> QED BY <2>1, <3>2
  <2>5. Append(Source \o q, n) \in folders
    BY <2>1, <2>2, <2>3, <2>4, OnTheWay
  <2> QED BY <2>1, <2>3, <2>5 DEF q
<1> QED BY <1>1, <1>2, <1>3, <1>4 DEF Current

(* What is in the place of the copy is of the repository only if the root  *)
(* is inside; anything else there is was there before.                     *)
LEMMA Outside ==
    ASSUME CopyTyped, Grown, NEW q \in KeptPath, q # <<>>
    PROVE  /\ Source \o q \in files => Source \o q \in File \/ RootInside
           /\ Source \o q \in folders => Source \o q \in Folder \cup Parents \/ RootInside
           /\ root = Source /\ Head(q) # CopyName =>
                /\ Source \o q \in files => Source \o q \in File
                /\ Source \o q \in folders => Source \o q \in Folder \cup Parents
<1>1. /\ Source \o q \in files => Source \o q \in File \/ IsPrefix(Destination, Source \o q)
      /\ Source \o q \in folders =>
           Source \o q \in Folder \cup Parents \/ IsPrefix(Destination, Source \o q)
  BY DEF Grown, IsStrictPrefix
<1>2. IsPrefix(Destination, Source \o q) => RootInside /\ (root = Source => Head(q) = CopyName)
  BY BelowCopy DEF CopyTyped
<1> QED BY <1>1, <1>2

(* An error that is noted stays noted, and a new one is excused.           *)
LEMMA Noted ==
    ASSUME errors \in BOOLEAN, NEW path, NEW e \in ErrorsAfter(path),
           path \in Unreliable => Excuse
    PROVE  e \in BOOLEAN /\ (errors => e) /\ (e => errors \/ Excuse)
<1>1. e = errors \/ (e = TRUE /\ path \in Unreliable)
  BY DEF ErrorsAfter
<1>2. CASE e = errors
  BY <1>2, Zenon
<1>3. CASE e = TRUE /\ path \in Unreliable
  BY <1>3, Zenon
<1> QED BY <1>1, <1>2, <1>3, Zenon

(* An error with an entry of a call, or with its directory, is excused.    *)
LEMMA ErrorExcused ==
    ASSUME CopyInv, NEW c \in Call, NEW rest \in SUBSET Call, Current(c, rest)
    PROVE  /\ c.from \in Unreliable => Excuse
           /\ \A n \in c.left :
                Append(c.from, n) \in Unreliable \/ Len(c.to) = MaxPath => Excuse
<1>1. CopyTyped /\ Grown /\ root \in Root /\ CallOK(c)
  BY CurrentCall DEF CopyInv
<1>2. ASSUME NEW q \in KeptPath, q # <<>>, Source \o q \in files \cup folders,
             Source \o q \in Unreliable \/ Len(Destination) + Len(q) > MaxPath
      PROVE  Excuse
  <2> SUFFICES ASSUME ~RootInside PROVE Excuse
    BY DEF Excuse
  <2>1. Source \o q \in File \cup Folder \cup Parents
    BY <1>1, <1>2, Outside
  <2>2. q \in Repository
    BY <1>1, <1>2, <2>1, ToCopy
  <2> QED BY <1>2, <2>2 DEF Excuse
<1>3. ASSUME c.from \in Unreliable PROVE Excuse
  <2> DEFINE r == Place(c)
  <2>1. r \in KeptPath /\ c.from = Source \o r
    BY <1>1 DEF CallOK
  <2>2. Source \in Path /\ r \in Path
    BY <1>1, <2>1, Places, KeptPaths
  <2>3. Destination \o SubSeq(r, 1, Len(r)) \in folders
    <3>1. Len(r) \in 0 .. Len(r)
      BY <2>2, LenProperties DEF Path
    <3> QED BY <1>1, <3>1 DEF CallOK
  <2>4. Destination \o r \in folders
    BY <2>2, <2>3, SubSeqFull DEF Path
  <2> HIDE DEF r
  <2>5. CASE r = <<>>
    <3>1. c.from = Source
      BY <2>1, <2>2, <2>5, ConcatPath
    <3> QED BY <1>3, <3>1 DEF Excuse
  <2>6. CASE r # <<>>
    <3>1. Source \o r \in folders
      BY <1>1, <2>2, <2>4, <2>6, MirroredEntry DEF CopyInv
    <3> QED BY <1>2, <1>3, <2>1, <2>6, <3>1
  <2> QED BY <2>5, <2>6
<1>4. ASSUME NEW n \in c.left, Append(c.from, n) \in Unreliable \/ Len(c.to) = MaxPath
      PROVE  Excuse
  <2> DEFINE q == Append(Place(c), n)
  <2>1. /\ q \in KeptPath /\ q \in Path /\ q # <<>> /\ Source \o q \in files \cup folders
        /\ Append(c.from, n) = Source \o q
        /\ Len(c.to) \in Nat /\ Len(Destination \o q) = Len(c.to) + 1
    BY <1>1, Entry
  <2> HIDE DEF q
  <2>2. Destination \in Path /\ MaxPath \in Nat
    BY <1>1, Places
  <2>3. Len(Destination \o q) = Len(Destination) + Len(q)
    BY <2>1, <2>2, ConcatPath
  <2>4. Len(c.to) = MaxPath => Len(Destination) + Len(q) > MaxPath
    BY <2>1, <2>2, <2>3
  <2> QED BY <1>2, <1>4, <2>1, <2>4
<1> QED BY <1>3, <1>4

(* A file is copied.                                                       *)
LEMMA FilePreserves == ASSUME CopyInv, CopyFile PROVE CopyInv'
<1>0. CopyTyped /\ Grown /\ Mirrored /\ copy = "copying"
  BY DEF CopyInv, CopyFile
<1>1. PICK c \in Call, rest \in SUBSET Call : \E n \in c.left :
             /\ Current(c, rest) /\ Len(c.to) < MaxPath
             /\ Append(c.from, n) \in files /\ files' = files \cup {Append(c.to, n)}
             /\ Calls' = {Shorter(c, n)} \cup rest
             /\ stack' \in Seq(Call) /\ stack' # <<>>
             /\ errors' \in ErrorsAfter(Append(c.from, n))
             /\ UNCHANGED <<root, folders, copy>>
  BY <1>0, FileStep
<1>2. PICK n \in c.left :
             /\ Current(c, rest) /\ Len(c.to) < MaxPath
             /\ Append(c.from, n) \in files /\ files' = files \cup {Append(c.to, n)}
             /\ Calls' = {Shorter(c, n)} \cup rest
             /\ stack' \in Seq(Call) /\ stack' # <<>>
             /\ errors' \in ErrorsAfter(Append(c.from, n))
             /\ UNCHANGED <<root, folders, copy>>
  BY <1>1
<1> DEFINE q == Append(Place(c), n)
<1>3. /\ root \in Root /\ CallOK(c) /\ root' = root /\ errors \in BOOLEAN
      /\ errors' \in BOOLEAN /\ (errors => errors') /\ (errors' => errors \/ Excuse)
      /\ files \subseteq files' /\ folders' = folders /\ folders \subseteq folders'
  <2>1. /\ root \in Root /\ CallOK(c) /\ errors \in BOOLEAN
    BY <1>0, <1>2, CurrentCall DEF CopyTyped
  <2>2. Append(c.from, n) \in Unreliable => Excuse
    BY <1>2, ErrorExcused
  <2>3. errors' \in BOOLEAN /\ (errors => errors') /\ (errors' => errors \/ Excuse)
    BY <1>2, <2>1, <2>2, Noted, Zenon
  <2>4. root' = root /\ files \subseteq files' /\ folders' = folders /\ folders \subseteq folders'
    BY <1>2
  <2> QED BY <2>1, <2>3, <2>4, Zenon
<1>4. /\ q \in KeptPath /\ q \in Path /\ q # <<>>
      /\ Append(c.from, n) = Source \o q /\ Append(c.to, n) = Destination \o q
      /\ Destination \o q \in Path /\ IsStrictPrefix(Destination, Destination \o q)
  BY <1>3, Entry
<1>5. Source \o q \in files /\ files' = files \cup {Destination \o q}
  BY <1>2, <1>4
<1> HIDE DEF q
<1>6. RootInside' = RootInside /\ Destination' = Destination /\ Way' = Way
       /\ Repository' = Repository /\ Parents' = Parents /\ Excuse' = Excuse
  BY <1>3, RootStays
<1>7. CopyTyped'
  <2>1. Destination \o q \notin folders
    BY <1>0, <1>4, <1>5, MirroredEntry DEF CopyTyped
  <2>2. errors' \in BOOLEAN
    BY <1>3, Zenon
  <2> QED BY <1>0, <1>2, <1>4, <1>5, <1>6, <2>1, <2>2 DEF CopyTyped
<1>8. Grown'
  BY <1>0, <1>3, <1>4, <1>5, <1>6 DEF Grown
<1>9. Mirrored'
  <2> SUFFICES ASSUME NEW p \in Below(Destination, files' \cup folders)
               PROVE  /\ p \in KeptPath
                      /\ Destination \o p \in files' => Source \o p \in files'
                      /\ Destination \o p \in folders => Source \o p \in folders
    BY <1>3, <1>6 DEF Mirrored
  <2>1. Destination \in Path /\ files' \cup folders \in SUBSET Path
    BY <1>3, <1>7, Places DEF CopyTyped
  <2>2. p \in Path /\ p # <<>> /\ Destination \o p \in files' \cup folders
    BY <2>1, BelowEntry
  <2>3. Destination \o p = Destination \o q => p = q
    BY <1>4, <2>1, <2>2, Cancel
  <2> QED BY <1>0, <1>4, <1>5, <2>2, <2>3, MirroredEntry
<1>10. CallsOK'
  BY <1>2, <1>3, OthersStay, ShorterStays DEF CallsOK
<1>11. Covered'
  <2> SUFFICES ASSUME ~errors', NEW p \in Repository, Destination \o p \notin files' \cup folders
               PROVE  \E d \in {Shorter(c, n)} \cup rest : Awaits(d, p)
    BY <1>2, <1>3, <1>6 DEF Covered
  <2>0. Destination \o p \notin files \cup folders
    BY <1>3
  <2>b. ~errors
    BY <1>3, Zenon
  <2>a. \/ \E d \in {Shorter(c, n)} \cup rest : Awaits(d, p)
        \/ \E k \in 0 .. Len(p) - 1 : c.from = Source \o SubSeq(p, 1, k) /\ p[k + 1] = n
    <3>1. /\ copy # "none" /\ ~errors /\ Current(c, rest)
          /\ c \in Call /\ rest \in SUBSET Call /\ n \in c.left
          /\ p \in Repository /\ Destination \o p \notin files \cup folders
      BY <1>0, <1>2, <2>0, <2>b
    <3> HIDE DEF q
    <3> QED BY <3>1, StillAwaited
  <2> SUFFICES ASSUME NEW k \in 0 .. Len(p) - 1,
                      c.from = Source \o SubSeq(p, 1, k), p[k + 1] = n
               PROVE  FALSE
    BY <2>a
  <2>1. /\ Append(c.from, n) = Source \o SubSeq(p, 1, k + 1)
        /\ Append(c.to, n) = Destination \o SubSeq(p, 1, k + 1)
        /\ k + 1 = Len(p) => SubSeq(p, 1, k + 1) = p
        /\ k + 1 # Len(p) => Source \o SubSeq(p, 1, k + 1) \in Folder \cup Parents
    <3>1. root \in Root /\ CallOK(c)
      BY <1>3
    <3>2. /\ Append(c.from, p[k + 1]) = Source \o SubSeq(p, 1, k + 1)
          /\ Append(c.to, p[k + 1]) = Destination \o SubSeq(p, 1, k + 1)
          /\ k + 1 = Len(p) => SubSeq(p, 1, k + 1) = p
          /\ k + 1 # Len(p) => Source \o SubSeq(p, 1, k + 1) \in Folder \cup Parents
      BY <3>1, Comes
    <3> QED BY <3>2
  <2>2. Folder \cup Parents \subseteq folders /\ files \cap folders = {}
    BY <1>0 DEF CopyTyped, Grown
  <2> QED BY <1>2, <2>1, <2>2
<1>12. Endless'
  <2> SUFFICES ASSUME ~errors', RootInside, root # Source
               PROVE  \E d \in {Shorter(c, n)} \cup rest :
                        /\ IsPrefix(Place(d), Way \o Place(d))
                        /\ (Way \o Place(d))[Len(Place(d)) + 1] \in d.left
    BY <1>2, <1>3, <1>6 DEF Endless
  <2>1. Append(c.from, n) \notin folders
    BY <1>0, <1>2 DEF CopyTyped
  <2>2. ~errors
    BY <1>3, Zenon
  <2> QED BY <1>0, <1>2, <2>1, <2>2, StillEndless
<1>13. Excused'
  BY <1>3, <1>6 DEF CopyInv, Excused
<1> QED BY <1>7, <1>8, <1>9, <1>10, <1>11, <1>12, <1>13 DEF CopyInv

(* A directory is made, and the call for it begins.                        *)
LEMMA FolderPreserves == ASSUME CopyInv, CopyFolder PROVE CopyInv'
<1>0. CopyTyped /\ Grown /\ Mirrored /\ copy = "copying"
  BY DEF CopyInv, CopyFolder
<1>1. PICK c \in Call, rest \in SUBSET Call : \E n \in c.left :
             /\ Current(c, rest) /\ Len(c.to) < MaxPath
             /\ Append(c.from, n) \in folders /\ folders' = folders \cup {Append(c.to, n)}
             /\ (Nested(c, n) \in Call =>
                   /\ Calls' = {Nested(c, n), Shorter(c, n)} \cup rest
                   /\ stack' \in Seq(Call) /\ stack' # <<>>)
             /\ UNCHANGED <<root, files, errors, copy>>
  BY <1>0, FolderStep
<1>2. PICK n \in c.left :
             /\ Current(c, rest) /\ Len(c.to) < MaxPath
             /\ Append(c.from, n) \in folders /\ folders' = folders \cup {Append(c.to, n)}
             /\ (Nested(c, n) \in Call =>
                   /\ Calls' = {Nested(c, n), Shorter(c, n)} \cup rest
                   /\ stack' \in Seq(Call) /\ stack' # <<>>)
             /\ UNCHANGED <<root, files, errors, copy>>
  BY <1>1
<1> DEFINE q == Append(Place(c), n)
<1>3. /\ root \in Root /\ CallOK(c) /\ root' = root
      /\ files' = files /\ files \subseteq files' /\ folders \subseteq folders'
      /\ files \subseteq Path /\ folders \subseteq Path
  BY <1>0, <1>2, CurrentCall DEF CopyTyped
<1>4. PICK e : e = Nested(c, n)
  OBVIOUS
<1>5. e \in Call /\ Place(e) = q /\ CallOK(e)'
  BY <1>2, <1>3, <1>4, NestedCall
<1>6. Calls' = {e, Shorter(c, n)} \cup rest /\ stack' \in Seq(Call) /\ stack' # <<>>
  BY <1>2, <1>4, <1>5
<1>7. /\ q \in KeptPath /\ q \in Path /\ q # <<>> /\ Place(c) \in KeptPath
      /\ Append(c.from, n) = Source \o q /\ Append(c.to, n) = Destination \o q
      /\ Destination \o q \in Path /\ IsStrictPrefix(Destination, Destination \o q)
      /\ Source \o q \in Path
  BY <1>3, Entry
<1>8. Source \o q \in folders /\ folders' = folders \cup {Destination \o q}
  BY <1>2, <1>7
<1>9. /\ e.from = Source \o q
      /\ \A m : m \in e.left <=> /\ m \in Name /\ m \notin Ignored
                                 /\ Append(Source \o q, m) \in files \cup folders
  <2>1. e.from = Append(c.from, n) /\ e.left = Listed(Append(c.from, n), files \cup folders)
    BY <1>4 DEF Nested
  <2>2. files \cup folders \in SUBSET Path
    BY <1>3
  <2>3. Append(c.from, n) \in Path /\ Append(c.from, n) = Source \o q
    BY <1>7
  <2> HIDE DEF q
  <2> QED BY <2>1, <2>2, <2>3, ListedEntry
<1> HIDE DEF q
<1>10. RootInside' = RootInside /\ Destination' = Destination /\ Way' = Way
       /\ Repository' = Repository /\ Parents' = Parents /\ Excuse' = Excuse
  BY <1>3, RootStays
<1>11. CopyTyped'
  <2>1. Destination \o q \notin files
    BY <1>0, <1>7, <1>8, MirroredEntry DEF CopyTyped
  <2> QED BY <1>0, <1>2, <1>3, <1>6, <1>7, <1>8, <1>10, <2>1 DEF CopyTyped
<1>12. Grown'
  BY <1>0, <1>3, <1>7, <1>8, <1>10 DEF Grown, IsStrictPrefix
<1>13. Mirrored'
  <2> SUFFICES ASSUME NEW p \in Below(Destination, files \cup folders')
               PROVE  /\ p \in KeptPath
                      /\ Destination \o p \in files => Source \o p \in files
                      /\ Destination \o p \in folders' => Source \o p \in folders'
    BY <1>3, <1>10 DEF Mirrored
  <2>1. Destination \in Path /\ files \cup folders' \in SUBSET Path
    BY <1>3, <1>11, Places DEF CopyTyped
  <2>2. p \in Path /\ p # <<>> /\ Destination \o p \in files \cup folders'
    BY <2>1, BelowEntry
  <2>3. Destination \o p = Destination \o q => p = q
    BY <1>7, <2>1, <2>2, Cancel
  <2> QED BY <1>0, <1>7, <1>8, <2>2, <2>3, MirroredEntry
<1>14. CallsOK'
  BY <1>3, <1>5, <1>2, <1>6, OthersStay, ShorterStays DEF CallsOK
<1>15. Covered'
  <2> SUFFICES ASSUME ~errors, NEW p \in Repository, Destination \o p \notin files \cup folders'
               PROVE  \E d \in {e, Shorter(c, n)} \cup rest : Awaits(d, p)
    BY <1>2, <1>3, <1>6, <1>10 DEF Covered
  <2>0. Destination \o p \notin files \cup folders
    BY <1>3
  <2>a. \/ \E d \in {Shorter(c, n)} \cup rest : Awaits(d, p)
        \/ \E k \in 0 .. Len(p) - 1 : c.from = Source \o SubSeq(p, 1, k) /\ p[k + 1] = n
    <3>1. copy # "none" /\ Current(c, rest)
      BY <1>0, <1>2
    <3> QED BY <2>0, <3>1, StillAwaited
  <2> SUFFICES ASSUME NEW k \in 0 .. Len(p) - 1,
                      c.from = Source \o SubSeq(p, 1, k), p[k + 1] = n
               PROVE  Awaits(e, p)
    BY <2>a
  <2>1. /\ p \in Path
        /\ Append(c.from, n) = Source \o SubSeq(p, 1, k + 1)
        /\ Append(c.to, n) = Destination \o SubSeq(p, 1, k + 1)
        /\ k + 1 = Len(p) => SubSeq(p, 1, k + 1) = p
        /\ k + 1 # Len(p) => k + 1 \in 0 .. Len(p) - 1
    <3>1. /\ p \in Path
          /\ Append(c.from, p[k + 1]) = Source \o SubSeq(p, 1, k + 1)
          /\ Append(c.to, p[k + 1]) = Destination \o SubSeq(p, 1, k + 1)
          /\ k + 1 = Len(p) => SubSeq(p, 1, k + 1) = p
          /\ k + 1 # Len(p) => k + 1 \in 0 .. Len(p) - 1
      <4>1. root \in Root /\ CallOK(c)
        BY <1>3
      <4> QED BY <4>1, Comes
    <3> QED BY <3>1
  <2>2. k + 1 # Len(p)
    BY <1>2, <2>1
  <2> DEFINE m == k + 1
  <2>3. /\ m \in 0 .. Len(p) - 1 /\ e.from = Source \o SubSeq(p, 1, m)
    BY <1>7, <1>9, <2>1, <2>2
  <2> HIDE DEF m
  <2>4. /\ p[m + 1] \in Name /\ p[m + 1] \notin Ignored
        /\ Append(e.from, p[m + 1]) \in files \cup folders
    <3>1. /\ SubSeq(p, 1, m + 1) \in Path /\ p[m + 1] \in Name
          /\ SubSeq(p, 1, m + 1) = Append(SubSeq(p, 1, m), p[m + 1])
          /\ SubSeq(p, 1, m) \in Path
      <4>1. Len(p) \in Nat
        BY <2>1, LenProperties DEF Path
      <4>2. m \in 0 .. Len(p) /\ m + 1 \in 0 .. Len(p)
        BY <2>3, <4>1
      <4> QED BY <2>1, <2>3, <4>2, FirstNames, NextName
    <3>2. p \in KeptPath /\ m + 1 \in 1 .. Len(p) /\ Source \in Path
      <4>1. p \in KeptPath
        BY <1>3, ToCopy
      <4>2. Len(p) \in Nat
        BY <2>1, LenProperties DEF Path
      <4> QED BY <1>3, <2>3, <4>1, <4>2, Places
    <3>3. Append(e.from, p[m + 1]) = Source \o SubSeq(p, 1, m + 1)
      <4>1. Append(Source \o SubSeq(p, 1, m), p[m + 1])
              = Source \o Append(SubSeq(p, 1, m), p[m + 1])
        BY <3>1, <3>2, AppendBelow
      <4> QED BY <2>3, <3>1, <4>1
    <3>4. Source \o SubSeq(p, 1, m + 1) \in File \cup Folder \cup Parents
      <4>1. CASE m + 1 = Len(p)
        <5>1. SubSeq(p, 1, m + 1) = p
          BY <2>1, <4>1, SubSeqFull DEF Path
        <5> QED BY <1>3, <5>1, ToCopy
      <4>2. CASE m + 1 # Len(p)
        <5>1. m + 1 \in 1 .. Len(p) - 1
          <6>1. Len(p) \in Nat
            BY <2>1, LenProperties DEF Path
          <6> QED BY <2>3, <4>2, <6>1
        <5> QED BY <1>3, <5>1, ToCopy
      <4> QED BY <4>1, <4>2
    <3>5. File \cup Folder \cup Parents \subseteq files \cup folders
      BY <1>0 DEF CopyTyped, Grown
    <3> QED BY <3>1, <3>2, <3>3, <3>4, <3>5, KeptPaths
  <2>5. p[m + 1] \in e.left
    BY <1>9, <2>4
  <2> QED BY <2>3, <2>5 DEF Awaits
<1>16. Endless'
  <2> SUFFICES ASSUME ~errors, RootInside, root # Source
               PROVE  \E d \in {e, Shorter(c, n)} \cup rest :
                        /\ IsPrefix(Place(d), Way \o Place(d))
                        /\ (Way \o Place(d))[Len(Place(d)) + 1] \in d.left
    BY <1>2, <1>6, <1>10 DEF Endless
  <2> SUFFICES ASSUME IsPrefix(Place(c), Way \o Place(c)),
                      n = (Way \o Place(c))[Len(Place(c)) + 1]
               PROVE  /\ IsPrefix(q, Way \o q)
                      /\ (Way \o q)[Len(q) + 1] \in e.left
    BY <1>0, <1>2, <1>5, StillEndless
  <2> DEFINE r == Place(c)
  <2>1. /\ r \in KeptPath /\ r \in Path /\ Len(r) \in Nat /\ n \in Name /\ q = Append(r, n)
        /\ IsPrefix(r, Way \o r) /\ n = (Way \o r)[Len(r) + 1]
        /\ \A j \in 0 .. Len(r) : Destination \o SubSeq(r, 1, j) \in folders
    <3>1. r \in KeptPath /\ r \in Path /\ n \in Name
      BY <1>3, <1>7, Entry, KeptPaths
    <3>2. \A j \in 0 .. Len(r) : Destination \o SubSeq(r, 1, j) \in folders
      BY <1>3 DEF CallOK
    <3> QED BY <3>1, <3>2, LenProperties DEF q, Path
  <2>2. Parents \cup {Destination} \subseteq folders
    BY <1>0 DEF CopyTyped
  <2> HIDE DEF r
  <2>3. IsPrefix(q, Way \o q)
    <3>1. \A j \in 0 .. Len(r) - 1 : Destination \o SubSeq(r, 1, j) \in folders
      <4>1. \A j \in 0 .. Len(r) - 1 : j \in 0 .. Len(r)
        BY <2>1
      <4> QED BY <2>1, <4>1
    <3> QED BY <1>3, <2>1, <2>2, <3>1, OnTheWay
  <2>4. \A j \in 0 .. Len(q) - 1 : Destination \o SubSeq(q, 1, j) \in folders
    <3>1. /\ Len(q) - 1 = Len(r)
          /\ \A j \in 0 .. Len(r) : SubSeq(q, 1, j) = SubSeq(r, 1, j)
      BY <2>1, AppendPath
    <3> QED BY <2>1, <3>1
  <2> DEFINE m == (Way \o q)[Len(q) + 1]
  <2>5. m \in Name /\ m \notin Ignored /\ Append(Source \o q, m) \in folders
    BY <1>3, <1>7, <2>2, <2>3, <2>4, OnTheWay
  <2> HIDE DEF m
  <2>6. m \in e.left
    BY <1>9, <2>5
  <2> QED BY <2>3, <2>6 DEF m
<1>17. Excused'
  BY <1>2, <1>10 DEF CopyInv, Excused
<1> QED BY <1>11, <1>12, <1>13, <1>14, <1>15, <1>16, <1>17 DEF CopyInv

(* An entry is given up: its path is too long, or it fails.                *)
LEMMA GivenUpPreserves == ASSUME CopyInv, NameTooLong \/ EntryFails PROVE CopyInv'
<1>0. CopyTyped /\ Grown /\ Mirrored /\ copy = "copying"
  BY DEF CopyInv, NameTooLong, EntryFails
<1>1. PICK c \in Call, rest \in SUBSET Call : \E n \in c.left :
             /\ Current(c, rest)
             /\ Append(c.from, n) \in Unreliable \/ Len(c.to) = MaxPath
             /\ Calls' = {Shorter(c, n)} \cup rest
             /\ stack' \in Seq(Call) /\ stack' # <<>> /\ errors' = TRUE
             /\ UNCHANGED <<root, files, folders, copy>>
  <2>1. CASE NameTooLong
    BY <1>0, <2>1, TooLongStep
  <2>2. CASE EntryFails
    BY <1>0, <2>2, FailStep
  <2> QED BY <2>1, <2>2
<1>2. PICK n \in c.left :
             /\ Current(c, rest)
             /\ Append(c.from, n) \in Unreliable \/ Len(c.to) = MaxPath
             /\ Calls' = {Shorter(c, n)} \cup rest
             /\ stack' \in Seq(Call) /\ stack' # <<>> /\ errors' = TRUE
             /\ UNCHANGED <<root, files, folders, copy>>
  BY <1>1
<1>3. /\ root \in Root /\ root' = root /\ files' = files /\ folders' = folders
      /\ files \subseteq files' /\ folders \subseteq folders'
  BY <1>2, CurrentCall
<1>4. RootInside' = RootInside /\ Destination' = Destination /\ Way' = Way
       /\ Repository' = Repository /\ Parents' = Parents /\ Excuse' = Excuse
  BY <1>3, RootStays
<1>5. CopyTyped'
  BY <1>0, <1>2, <1>3, <1>4 DEF CopyTyped
<1>6. Grown' /\ Mirrored'
  BY <1>0, <1>3, <1>4 DEF Grown, Mirrored
<1>7. CallsOK'
  BY <1>2, <1>3, OthersStay, ShorterStays DEF CallsOK
<1>8. Covered' /\ Endless'
  BY <1>2 DEF Covered, Endless
<1>9. Excused'
  BY <1>2, <1>4, ErrorExcused DEF Excused
<1> QED BY <1>5, <1>6, <1>7, <1>8, <1>9 DEF CopyInv

(* A call is done with its list.                                           *)
LEMMA EndPreserves == ASSUME CopyInv, EndFolder PROVE CopyInv'
<1>0. CopyTyped /\ Grown /\ Mirrored /\ copy = "copying"
  BY DEF CopyInv, EndFolder
<1>1. PICK c \in Call, rest \in SUBSET Call :
             /\ Current(c, rest) /\ c.left = {}
             /\ Calls' = rest /\ stack' \in Seq(Call)
             /\ copy' = IF stack' # <<>> THEN "copying" ELSE IF errors' THEN "failed" ELSE "copied"
             /\ errors' \in ErrorsAfter(c.from)
             /\ UNCHANGED <<root, files, folders>>
  BY <1>0, EndStep
<1>2. /\ root \in Root /\ root' = root /\ files' = files /\ folders' = folders
      /\ files \subseteq files' /\ folders \subseteq folders'
      /\ errors' \in BOOLEAN /\ (errors => errors') /\ (errors' => errors \/ Excuse)
  <2>1. root \in Root /\ errors \in BOOLEAN
    BY <1>0, <1>1, CurrentCall DEF CopyTyped
  <2>2. c.from \in Unreliable => Excuse
    BY <1>1, ErrorExcused
  <2>3. errors' \in BOOLEAN /\ (errors => errors') /\ (errors' => errors \/ Excuse)
    BY <1>1, <2>1, <2>2, Noted, Zenon
  <2>4. /\ root' = root /\ files' = files /\ folders' = folders
        /\ files \subseteq files' /\ folders \subseteq folders'
    BY <1>1
  <2> QED BY <2>1, <2>3, <2>4, Zenon
<1>3. RootInside' = RootInside /\ Destination' = Destination /\ Way' = Way
       /\ Repository' = Repository /\ Parents' = Parents /\ Excuse' = Excuse
  BY <1>2, RootStays
<1>4. CopyTyped'
  BY <1>0, <1>1, <1>2, <1>3 DEF CopyTyped
<1>5. Grown' /\ Mirrored'
  BY <1>0, <1>2, <1>3 DEF Grown, Mirrored
<1>6. CallsOK'
  BY <1>1, <1>2, OthersStay DEF CallsOK
<1>7. ASSUME NEW d \in Calls, d.left # {} PROVE d \in Calls'
  BY <1>1, <1>7 DEF Current
<1>8. Covered'
  <2>1. \A d \in Calls, q \in Repository : Awaits(d, q) => d \in Calls'
    BY <1>7 DEF Awaits
  <2> QED BY <1>0, <1>2, <1>3, <2>1 DEF CopyInv, Covered
<1>9. Endless'
  BY <1>0, <1>2, <1>3, <1>7 DEF CopyInv, Endless
<1>10. Excused'
  BY <1>2, <1>3 DEF CopyInv, Excused
<1> QED BY <1>4, <1>5, <1>6, <1>8, <1>9, <1>10 DEF CopyInv

(* Every step.                                                             *)
LEMMA CopyInvNext == CopyInv /\ [CopyNext]_copyVars => CopyInv'
<1> SUFFICES ASSUME CopyInv, [CopyNext]_copyVars PROVE CopyInv'
  OBVIOUS
<1>1. CASE CreateCopy \/ CannotBegin
  BY <1>1, CreateStep, NoCopy
<1>2. CASE CopyStep
  BY <1>2, FilePreserves, FolderPreserves, GivenUpPreserves, EndPreserves DEF CopyStep
<1>3. CASE UNCHANGED copyVars
  <2>1. /\ root' = root /\ files' = files /\ folders' = folders
        /\ stack' = stack /\ errors' = errors /\ copy' = copy
    BY <1>3 DEF copyVars
  <2>2. RootInside' = RootInside /\ Destination' = Destination /\ Way' = Way
        /\ Repository' = Repository /\ Parents' = Parents /\ Calls' = Calls
        /\ Excuse' = Excuse
    BY <2>1, RootStays DEF Calls
  <2>3. CopyTyped' /\ Grown' /\ Mirrored'
    BY <2>1, <2>2 DEF CopyInv, CopyTyped, Grown, Mirrored
  <2>4. CallsOK'
    BY <2>1, <2>2, CallStays DEF CopyInv, CallsOK
  <2>5. Covered' /\ Endless' /\ Excused'
    BY <2>1, <2>2 DEF CopyInv, Covered, Endless, Excused
  <2> QED BY <2>3, <2>4, <2>5 DEF CopyInv
<1> QED BY <1>1, <1>2, <1>3 DEF CopyNext

(* Nothing that is to be copied has the name of the copy, if the root is   *)
(* the repository itself.                                                  *)
LEMMA NotItself ==
    ASSUME root \in Root, root = Source, NEW q \in Path, q # <<>>, Head(q) = CopyName
    PROVE  Source \o q \notin File \cup Folder \cup Parents
<1> DEFINE t == Tail(q)
           h == <<CopyName>>
<1>1. Source \in Seq(Name) /\ t \in Seq(Name) /\ CopyName \in Name /\ q = <<Head(q)>> \o t
  <2>1. q \in Seq(Name) /\ q # <<>>
    BY DEF Path
  <2>2. t \in Seq(Name) /\ q = <<Head(q)>> \o t
    BY <2>1, HeadTailProperties
  <2>3. Source \in Seq(Name) /\ CopyName \in Name
    BY Places DEF Path
  <2> QED BY <2>2, <2>3
<1>2. h \in Seq(Name) /\ Destination = Source \o h
  BY <1>1, AppendIsConcat DEF Destination
<1> HIDE DEF t
<1>3. q = h \o t
  BY <1>1
<1> HIDE DEF h
<1>4. Destination \o t = Source \o q
  <2>1. (Source \o h) \o t = Source \o (h \o t)
    <3>1. Source \in Seq(Name) /\ h \in Seq(Name) /\ t \in Seq(Name)
      BY <1>1, <1>2
    <3> QED BY <3>1, ConcatAssociative
  <2> QED BY <1>2, <1>3, <2>1
<1>5. t \in Path
  BY <1>1 DEF Path
<1> QED BY <1>4, <1>5, PlaceIsFree

(* The invariant says all that is promised of the copy.                    *)
LEMMA InvFaithful == CopyInv => CopyFaithful
<1> SUFFICES ASSUME CopyInv PROVE CopyFaithful
  OBVIOUS
<1>1. /\ CopyTyped /\ Grown /\ Mirrored /\ root \in Root
      /\ files \subseteq Path /\ folders \subseteq Path /\ files \cap folders = {}
      /\ File \subseteq files /\ Folder \subseteq folders
      /\ copy = "copied" => Parents \subseteq folders
  BY DEF CopyInv, CopyTyped, Grown
<1>2. /\ Source \in Path /\ Destination \in Path /\ File \subseteq Path
      /\ Folder \cup Parents \subseteq Path
  BY <1>1, Places, ParentPaths
<1>3. ASSUME copy = "copied"
      PROVE  /\ ButItself(Below(Destination, files)) = Kept(Below(Source, File))
             /\ ButItself(Below(Destination, folders)) = Kept(Below(Source, Folder \cup Parents))
             /\ RootInside => root = Source
  <2>1. Calls = {} /\ ~errors
    <3>1. stack = <<>> /\ ~errors
      BY <1>1, <1>3 DEF CopyTyped
    <3> QED BY <3>1 DEF Calls, Range
  <2>2. RootInside => root = Source
    BY <1>3, <2>1 DEF CopyInv, Endless
  <2>3. ASSUME NEW q \in Path, q # <<>>, ~(root = Source /\ Head(q) = CopyName)
        PROVE  /\ Destination \o q \in files => q \in KeptPath /\ Source \o q \in File
               /\ Destination \o q \in folders =>
                    q \in KeptPath /\ Source \o q \in Folder \cup Parents
    <3>1. /\ Destination \o q \in files => q \in KeptPath /\ Source \o q \in files
          /\ Destination \o q \in folders => q \in KeptPath /\ Source \o q \in folders
      BY <1>1, <2>3, MirroredEntry
    <3>2. q \in KeptPath =>
            /\ Source \o q \in files => Source \o q \in File
            /\ Source \o q \in folders => Source \o q \in Folder \cup Parents
      BY <1>1, <2>2, <2>3, Outside
    <3> QED BY <3>1, <3>2
  <2>4. ASSUME NEW q \in KeptPath, q # <<>>, Source \o q \in File \cup Folder \cup Parents
        PROVE  /\ ~(root = Source /\ Head(q) = CopyName)
               /\ Source \o q \in File => Destination \o q \in files
               /\ Source \o q \in Folder \cup Parents => Destination \o q \in folders
    <3>1. q \in Path /\ q \in Repository
      BY <1>1, <2>4, ToCopy, KeptPaths
    <3>2. Destination \o q \in files \cup folders
      BY <1>3, <2>1, <3>1 DEF CopyInv, Covered
    <3>3. /\ Destination \o q \in files => Source \o q \in files
          /\ Destination \o q \in folders => Source \o q \in folders
      BY <1>1, <2>4, <3>1, MirroredEntry
    <3>4. ~(root = Source /\ Head(q) = CopyName)
      BY <1>1, <2>4, <3>1, NotItself
    <3> QED BY <1>1, <1>3, <3>2, <3>3, <3>4
  <2>5. ButItself(Below(Destination, files)) = Kept(Below(Source, File))
    <3>1. \A q : q \in Below(Destination, files) <=>
                   q \in Path /\ q # <<>> /\ Destination \o q \in files
      BY <1>1, <1>2, BelowEntry
    <3>2. \A q : q \in Below(Source, File) <=> q \in Path /\ q # <<>> /\ Source \o q \in File
      BY <1>2, BelowEntry
    <3>3. \A q : q \in Kept(Below(Source, File)) <=>
                   q \in KeptPath /\ q # <<>> /\ Source \o q \in File
      BY <3>2 DEF Kept, KeptPath
    <3>4. \A q : q \in ButItself(Below(Destination, files)) <=>
                   /\ q \in Path /\ q # <<>> /\ Destination \o q \in files
                   /\ ~(root = Source /\ Head(q) = CopyName)
      BY <3>1 DEF ButItself
    <3>5. \A q \in KeptPath : q \in Path
      BY KeptPaths
    <3>6. \A q : q \in ButItself(Below(Destination, files)) => q \in Kept(Below(Source, File))
      BY <2>3, <3>3, <3>4
    <3>7. \A q : q \in Kept(Below(Source, File)) => q \in ButItself(Below(Destination, files))
      BY <2>4, <3>3, <3>4, <3>5
    <3> QED BY <3>6, <3>7
  <2>6. ButItself(Below(Destination, folders)) = Kept(Below(Source, Folder \cup Parents))
    <3> DEFINE all == Folder \cup Parents
    <3>0. all \subseteq Path
      BY <1>2
    <3>1. \A q : q \in Below(Destination, folders) <=>
                   q \in Path /\ q # <<>> /\ Destination \o q \in folders
      BY <1>1, <1>2, BelowEntry
    <3>a. \A q \in Path : q # <<>> /\ ~(root = Source /\ Head(q) = CopyName) =>
            (Destination \o q \in folders => q \in KeptPath /\ Source \o q \in all)
      BY <2>3
    <3>b. \A q \in KeptPath : q # <<>> /\ Source \o q \in all =>
            ~(root = Source /\ Head(q) = CopyName) /\ Destination \o q \in folders
      BY <2>4
    <3> HIDE DEF all
    <3>2. \A q : q \in Below(Source, all) <=> q \in Path /\ q # <<>> /\ Source \o q \in all
      BY <1>2, <3>0, BelowEntry
    <3>3. \A q : q \in Kept(Below(Source, all)) <=>
                   q \in KeptPath /\ q # <<>> /\ Source \o q \in all
      BY <3>2 DEF Kept, KeptPath
    <3>4. \A q : q \in ButItself(Below(Destination, folders)) <=>
                   /\ q \in Path /\ q # <<>> /\ Destination \o q \in folders
                   /\ ~(root = Source /\ Head(q) = CopyName)
      BY <3>1 DEF ButItself
    <3>5. \A q \in KeptPath : q \in Path
      BY KeptPaths
    <3>6. \A q : q \in ButItself(Below(Destination, folders)) => q \in Kept(Below(Source, all))
      BY <3>a, <3>3, <3>4
    <3>7. \A q : q \in Kept(Below(Source, all)) => q \in ButItself(Below(Destination, folders))
      BY <3>b, <3>3, <3>4, <3>5
    <3>8. ButItself(Below(Destination, folders)) = Kept(Below(Source, all))
      BY <3>6, <3>7
    <3> QED BY <3>8 DEF all
  <2> QED BY <2>2, <2>5, <2>6
<1>4. copy = "failed" => Excuse
  BY DEF CopyInv, CopyTyped, Excused
<1> QED BY <1>1, <1>3, <1>4 DEF CopyFaithful, Grown

-----------------------------------------------------------------------------

(* from_local: for every repository and sandbox root, what is copied is    *)
(* the repository without the ignored names, at whatever depth; the        *)
(* repository stays as it was; and the copy fails only for the root, a     *)
(* path too long, or something that is to be copied and is not reliable.   *)
THEOREM CopyIsFaithful == CopySpec => []CopyFaithful
BY CopyInvInit, CopyInvNext, InvFaithful, PTL DEF CopySpec

=============================================================================
