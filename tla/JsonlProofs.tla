---------------------------- MODULE JsonlProofs ----------------------------
(***************************************************************************)
(* The segment files of JsonlStore, for every value of the constants: that *)
(* they implement module Store, and that what an append returned Ok for    *)
(* stays on its lines through kills, failed appends and power failures, in *)
(* a file that can be read unless a write to it was cut short.             *)
(***************************************************************************)
EXTENDS JsonlStore, TLAPS, SequenceTheorems

-----------------------------------------------------------------------------
(* Lines and what records() makes of them.                                 *)

(* Record r stands on a line of its own, newline included, in the first n  *)
(* tokens of a file.                                                       *)
LineIn(c, r, n) ==
    \E i \in 1..(n - 1) :
        /\ c[i] = r
        /\ i = 1 \/ c[i - 1] = Newline
        /\ c[i + 1] = Newline

(* The next token starts a line.                                           *)
AtLineStart(c) == c = <<>> \/ c[Len(c)] = Newline

(* Record r was written last, and its newline is the next token.           *)
LineBegun(c, r, rest) ==
    /\ c # <<>> /\ c[Len(c)] = r
    /\ Len(c) = 1 \/ c[Len(c) - 1] = Newline
    /\ rest # <<>> /\ rest[1] = Newline

(* The types of what is on disk, and of the rest.                          *)
FilesOK ==
    /\ files \in SUBSET Windows
    /\ file \in [Windows -> Seq(Tokens)]
    /\ synced \in [Windows -> Nat]
    /\ \A w \in Windows : synced[w] <= Len(file[w])
    /\ \A w \in Windows \ files : file[w] = <<>>
    /\ listed \in SUBSET files
    /\ rootListed \in BOOLEAN
    /\ removed \in [Windows -> Seq(Tokens)]

CallOK ==
    /\ initialized \in BOOLEAN
    /\ pc \in Pcs
    /\ win \in Windows \cup {None}
    /\ arg \in SUBSET Records
    /\ todo \in Seq(Tokens)
    /\ isNew \in BOOLEAN
    /\ acked \in [Windows -> SUBSET Records]
    /\ exposed \in SUBSET Windows
    /\ cut \in SUBSET Windows
    /\ used \in SUBSET Records
    /\ kills \in 0..MaxKills
    /\ outages \in 0..MaxOutages

(* What is still to be written: each record with its newline behind it.    *)
TodoInv ==
    \A j \in 1..Len(todo) :
        /\ todo[j] \in Records \cup {Newline}
        /\ todo[j] \in Records => j < Len(todo) /\ todo[j + 1] = Newline

(* Where the records of the append in progress are: still to be written,   *)
(* on a line in the file, or on a line that has been synced.               *)
WriteInv ==
    /\ pc \in {"dir", "open", "tail"} => arg \subseteq ToSet(todo)
    /\ pc = "write" =>
        /\ todo # <<>> /\ todo[1] \in Records => AtLineStart(file[win])
        /\ \A r \in arg :
            \/ r \in ToSet(todo)
            \/ LineBegun(file[win], r, todo)
            \/ LineIn(file[win], r, Len(file[win]))
    /\ pc = "syncdir" => \A r \in arg : LineIn(file[win], r, synced[win])

JsonlInv ==
    /\ FilesOK
    /\ CallOK
    /\ pc # "idle" => win \in Windows
    /\ pc \in {"tail", "write", "syncdir"} => win \in files
    /\ TodoInv
    /\ WriteInv

(* What an acknowledged record rests on: its line is within what the file  *)
(* has synced, and the file's name is within what the directory has, whose *)
(* own name is on disk.                                                    *)
SyncedInv ==
    \A w \in Windows \ exposed : acked[w] # {} =>
        /\ w \in listed /\ rootListed
        /\ \A r \in acked[w] : LineIn(file[w], r, synced[w])

(* A segment is text: no value is cut inside a character but in a write    *)
(* that was not finished, and of the others all that is there is synced.   *)
Writing(w) == pc = "write" /\ win = w

TextInv ==
    \A w \in Windows :
        /\ Ascii \/ w \notin cut => ReadsAsText(file[w])
        /\ ReadsAsText(removed[w])
        /\ w \notin cut /\ ~Writing(w) => synced[w] = Len(file[w])

-----------------------------------------------------------------------------
(* The tokens that are no records are told apart.                          *)
LEMMA TokenFacts ==
    /\ Newline \in Tokens /\ Torn \in Tokens /\ TornUtf8 \in Tokens
    /\ Records \subseteq Tokens
    /\ Newline \notin Records /\ Torn \notin Records /\ TornUtf8 \notin Records
    /\ Newline # Torn /\ Newline # TornUtf8 /\ Torn # TornUtf8
    /\ None \notin Windows /\ None \notin Seq(Tokens)
BY JsonlAssumption DEF JsonlAssumption, Tokens

LEMMA Emptiness ==
    ASSUME NEW s \in Seq(Tokens)
    PROVE  s = <<>> <=> Len(s) = 0
BY EmptySeq

(* A line stays a line when the file grows behind it.                      *)
LEMMA LineStays ==
    ASSUME NEW c \in Seq(Tokens), NEW d \in Seq(Tokens), NEW r,
           NEW n \in 0..Len(c), NEW m \in n..Len(d),
           \A i \in 1..n : d[i] = c[i],
           LineIn(c, r, n)
    PROVE  LineIn(d, r, m)
BY DEF LineIn

(* A line of its own is a record that is read back.                        *)
LEMMA LineIsParsed ==
    ASSUME NEW c \in Seq(Tokens), NEW r \in Records, NEW n \in 0..Len(c), LineIn(c, r, n)
    PROVE  r \in Parsed(c)
<1>1. PICK i \in 1..(n - 1) : c[i] = r /\ (i = 1 \/ c[i - 1] = Newline) /\ c[i + 1] = Newline
  BY DEF LineIn
<1>2. i \in DOMAIN c
  BY <1>1
<1>. QED  BY <1>1, <1>2 DEF Parsed

(* What one more token at the end of a file makes of it.                   *)
LEMMA Appending ==
    ASSUME NEW c \in Seq(Tokens), NEW x \in Tokens
    PROVE  /\ Append(c, x) \in Seq(Tokens)
           /\ Len(Append(c, x)) = Len(c) + 1
           /\ \A i \in 1..Len(c) : Append(c, x)[i] = c[i]
           /\ Append(c, x)[Len(c) + 1] = x
           /\ DOMAIN Append(c, x) = 1..(Len(c) + 1)
           /\ DOMAIN c = 1..Len(c)
BY AppendProperties

(* Token j is a record with a line to itself.                              *)
WholeLine(c, j) ==
    /\ c[j] \in Records
    /\ j = 1 \/ c[j - 1] = Newline
    /\ j = Len(c) \/ c[j + 1] = Newline

LEMMA ParsedLines ==
    ASSUME NEW c \in Seq(Tokens)
    PROVE  \A r : r \in Parsed(c) <=> \E j \in 1..Len(c) : c[j] = r /\ WholeLine(c, j)
<1>1. DOMAIN c = 1..Len(c)
  OBVIOUS
<1>. QED  BY <1>1 DEF Parsed, WholeLine

(* At the start of a line a record is read back and a fragment is not; a   *)
(* newline ends the line it meets.  What was read back before still is.    *)
LEMMA ParsedAppend ==
    ASSUME NEW c \in Seq(Tokens), NEW x \in Tokens, AtLineStart(c) \/ x = Newline
    PROVE  Parsed(Append(c, x)) = Parsed(c) \cup ({x} \cap Records)
<1>. DEFINE d == Append(c, x)
            n == Len(c)
<1>1. /\ d \in Seq(Tokens) /\ Len(d) = n + 1 /\ d[n + 1] = x
      /\ \A i \in 1..n : d[i] = c[i]
      /\ n \in Nat /\ n = Len(c)
  BY Appending
<1>. HIDE DEF d, n
<1>2. \A j \in 1..n : j < n => (WholeLine(d, j) <=> WholeLine(c, j))
  BY <1>1 DEF WholeLine
<1>3. n > 0 => (WholeLine(d, n) <=> WholeLine(c, n))
  <2>1. CASE x = Newline
    <3>1. n > 1 => n - 1 \in 1..n /\ d[n - 1] = c[n - 1]
      BY <1>1
    <3>2. n > 0 => n \in 1..n /\ d[n] = c[n] /\ d[n + 1] = Newline
      BY <1>1, <2>1
    <3>. QED  BY <1>1, <3>1, <3>2 DEF WholeLine
  <2>2. CASE AtLineStart(c)
    <3>1. n > 0 => c[n] = Newline
      BY <2>2, EmptySeq DEF AtLineStart, n
    <3>. QED  BY <1>1, <3>1, TokenFacts DEF WholeLine
  <2>. QED  BY <2>1, <2>2
<1>4. \A j \in 1..n : WholeLine(d, j) <=> WholeLine(c, j)
  BY <1>1, <1>2, <1>3
<1>5. WholeLine(d, n + 1) <=> x \in Records
  <2>1. AtLineStart(c) => n = 0 \/ c[n] = Newline
    BY EmptySeq DEF AtLineStart, n
  <2>. QED  BY <1>1, <2>1, TokenFacts DEF WholeLine
<1>6. \A r : r \in Parsed(c) <=> \E j \in 1..n : c[j] = r /\ WholeLine(c, j)
  BY ParsedLines DEF n
<1>7. \A r : r \in Parsed(d) <=> \E j \in 1..(n + 1) : d[j] = r /\ WholeLine(d, j)
  BY <1>1, ParsedLines
<1>8. \A r : r \in Parsed(d) <=> r \in Parsed(c) \/ (r = x /\ x \in Records)
  <2>. SUFFICES ASSUME NEW r
                PROVE  r \in Parsed(d) <=> r \in Parsed(c) \/ (r = x /\ x \in Records)
    OBVIOUS
  <2>1. r \in Parsed(d) => r \in Parsed(c) \/ (r = x /\ x \in Records)
    <3>. SUFFICES ASSUME NEW j \in 1..(n + 1), d[j] = r, WholeLine(d, j)
                  PROVE  r \in Parsed(c) \/ (r = x /\ x \in Records)
      BY <1>7
    <3>1. CASE j = n + 1
      BY <1>1, <1>5, <3>1
    <3>2. CASE j \in 1..n
      BY <1>1, <1>4, <1>6, <3>2
    <3>. QED  BY <1>1, <3>1, <3>2
  <2>2. r \in Parsed(c) => r \in Parsed(d)
    <3>. SUFFICES ASSUME NEW j \in 1..n, c[j] = r, WholeLine(c, j)
                  PROVE  r \in Parsed(d)
      BY <1>6
    <3>1. j \in 1..(n + 1) /\ d[j] = r /\ WholeLine(d, j)
      BY <1>1, <1>4
    <3>. QED  BY <1>7, <3>1
  <2>3. r = x /\ x \in Records => r \in Parsed(d)
    BY <1>1, <1>5, <1>7
  <2>. QED  BY <2>1, <2>2, <2>3
<1>. QED  BY <1>8 DEF d

(* The lines of a batch: each of its records, and a newline behind it.     *)
LEMMA LinesOfBatch ==
    ASSUME NEW batch \in Seq(Records)
    PROVE  /\ Lines(batch) \in Seq(Tokens)
           /\ \A j \in 1..Len(Lines(batch)) :
                /\ Lines(batch)[j] \in Records \cup {Newline}
                /\ Lines(batch)[j] \in Records =>
                    j < Len(Lines(batch)) /\ Lines(batch)[j + 1] = Newline
           /\ ToSet(batch) \subseteq ToSet(Lines(batch))
           /\ ToSet(batch) \subseteq Records
<1>. DEFINE n == Len(batch)
            Token(i) == IF i % 2 = 1 THEN batch[(i + 1) \div 2] ELSE Newline
            s == [i \in 1..(2 * n) |-> Token(i)]
<1>1. n \in Nat /\ DOMAIN batch = 1..n /\ \A k \in 1..n : batch[k] \in Records
  BY ElementOfSeq
<1>. HIDE DEF n
<1>2. ASSUME NEW i \in 1..(2 * n)
      PROVE  /\ Token(i) \in Records \cup {Newline}
             /\ Token(i) \in Records => i < 2 * n /\ Token(i + 1) = Newline
  <2>1. CASE i % 2 = 1
    <3>1. (i + 1) \div 2 \in 1..n /\ i < 2 * n /\ (i + 1) % 2 # 1
      BY <1>1, <2>1
    <3>. QED  BY <1>1, <2>1, <3>1
  <2>2. CASE i % 2 # 1
    BY <2>2, TokenFacts
  <2>. QED  BY <2>1, <2>2
<1>3. \A i \in 1..(2 * n) : Token(i) \in Tokens
  BY <1>2, TokenFacts
<1>4. ASSUME NEW k \in 1..n
      PROVE  2 * k - 1 \in 1..(2 * n) /\ Token(2 * k - 1) = batch[k]
  <2>1. 2 * k - 1 \in 1..(2 * n) /\ (2 * k - 1) % 2 = 1 /\ ((2 * k - 1) + 1) \div 2 = k
    BY <1>1
  <2>. QED  BY <2>1
<1>. HIDE DEF Token
<1>5. 2 * n \in Nat
  BY <1>1
<1>6. s \in Seq(Tokens)
  BY <1>3, <1>5, IsASeq
<1>7. Len(s) = 2 * n /\ DOMAIN s = 1..(2 * n) /\ \A i \in 1..(2 * n) : s[i] = Token(i)
  BY <1>5, <1>6, LenProperties
<1>8. Lines(batch) = s
  BY DEF Lines, n, Token
<1>. HIDE DEF s
<1>9. \A j \in 1..(2 * n) :
        /\ s[j] \in Records \cup {Newline}
        /\ s[j] \in Records => j < 2 * n /\ s[j + 1] = Newline
  BY <1>1, <1>2, <1>7
<1>10. \A k \in 1..n : \E i \in DOMAIN s : batch[k] = s[i]
  BY <1>4, <1>7
<1>11. ToSet(batch) \subseteq ToSet(s) /\ ToSet(batch) \subseteq Records
  BY <1>1, <1>10 DEF ToSet
<1>. QED  BY <1>6, <1>7, <1>8, <1>9, <1>11

-----------------------------------------------------------------------------
(* What a file that stops growing in the middle of a write ends with.      *)
LEMMA CutsAre ==
    ASSUME NEW c \in Seq(Tokens), NEW rest, NEW d \in Cut(c, rest)
    PROVE  \/ d = c
           \/ /\ rest # <<>> /\ Head(rest) \in Records
              /\ \E x \in {Torn, TornUtf8} : d = Append(c, x) /\ (x = TornUtf8 => ~Ascii)
BY TokenFacts DEF Cut, Fragments

LEMMA CutsGrow ==
    ASSUME NEW c \in Seq(Tokens), NEW rest, NEW d \in Cut(c, rest)
    PROVE  /\ d \in Seq(Tokens)
           /\ Len(d) >= Len(c)
           /\ \A i \in 1..Len(c) : d[i] = c[i]
<1>1. CASE d = c
  BY <1>1, LenProperties
<1>2. ASSUME NEW x \in {Torn, TornUtf8}, d = Append(c, x)
      PROVE  /\ d \in Seq(Tokens) /\ Len(d) >= Len(c) /\ \A i \in 1..Len(c) : d[i] = c[i]
  <2>1. x \in Tokens /\ Len(c) \in Nat
    BY TokenFacts, LenProperties
  <2>. QED  BY <1>2, <2>1, Appending
<1>. QED  BY <1>1, <1>2, CutsAre

(* After a power failure a segment whose entry is on disk still has what   *)
(* was synced of it, and a file is a file.                                 *)
LEMMA Survives ==
    ASSUME FilesOK, NEW w \in Windows, NEW g \in Survivors(w)
    PROVE  /\ g = None \/ g \in Seq(Tokens)
           /\ w \in listed => /\ g \in Seq(Tokens)
                              /\ Len(g) >= synced[w]
                              /\ \A i \in 1..synced[w] : g[i] = file[w][i]
<1>1. /\ file[w] \in Seq(Tokens) /\ removed[w] \in Seq(Tokens)
      /\ synced[w] \in 0..Len(file[w]) /\ listed \subseteq files
      /\ Len(file[w]) \in Nat
  BY LenProperties DEF FilesOK
<1>2. ASSUME NEW n \in synced[w]..Len(file[w]),
             g \in Cut(SubSeq(file[w], 1, n), SubSeq(file[w], n + 1, Len(file[w])))
      PROVE  /\ g \in Seq(Tokens)
             /\ Len(g) >= synced[w]
             /\ \A i \in 1..synced[w] : g[i] = file[w][i]
  <2>. DEFINE p == SubSeq(file[w], 1, n)
              q == SubSeq(file[w], n + 1, Len(file[w]))
  <2>1. /\ p \in Seq(Tokens) /\ Len(p) = n /\ n \in Nat
        /\ \A i \in 1..n : p[i] = file[w][i]
    BY <1>1
  <2>0. g \in Cut(p, q)
    BY <1>2
  <2>. HIDE DEF p, q
  <2>2. /\ g \in Seq(Tokens) /\ Len(g) >= n /\ \A i \in 1..n : g[i] = p[i]
    BY <2>0, <2>1, CutsGrow
  <2>3. Len(g) \in Nat
    BY <2>2, LenProperties
  <2>. QED  BY <1>1, <2>1, <2>2, <2>3
<1>. QED  BY <1>1, <1>2 DEF Survivors

-----------------------------------------------------------------------------
(* The two parts make up the type.                                         *)
LEMMA TypeParts == FilesOK /\ CallOK => JsonlTypeOK
<1>1. ASSUME NEW w \in Windows, FilesOK
      PROVE  synced[w] \in 0..Len(file[w])
  <2>1. Len(file[w]) \in Nat
    BY <1>1, LenProperties DEF FilesOK
  <2>. QED  BY <1>1, <2>1 DEF FilesOK
<1>. QED  BY <1>1 DEF JsonlTypeOK, FilesOK, CallOK

(* A file that exists may grow.                                            *)
LEMMA FileGrows ==
    ASSUME FilesOK, NEW w \in files, NEW c \in Seq(Tokens), Len(c) >= Len(file[w]),
           file' = [file EXCEPT ![w] = c],
           UNCHANGED <<files, synced, listed, rootListed, removed>>
    PROVE  FilesOK'
<1>1. Len(c) \in Nat /\ Len(file[w]) \in Nat
  BY LenProperties DEF FilesOK
<1>2. \A v \in Windows : file'[v] = IF v = w THEN c ELSE file[v]
  BY DEF FilesOK
<1>3. \A v \in Windows : synced'[v] <= Len(file'[v])
  BY <1>1, <1>2 DEF FilesOK
<1>. QED  BY <1>2, <1>3 DEF FilesOK

(* An append ends without having written on: it failed or was killed.      *)
Stops ==
    /\ pc # "idle"
    /\ Return
    /\ IF pc = "write"
       THEN \E c \in Stopped : file' = [file EXCEPT ![win] = c]
       ELSE UNCHANGED file
    /\ UNCHANGED <<files, synced, listed, rootListed, removed>>

LEMMA StopGrows ==
    ASSUME JsonlInv, pc = "write", NEW c \in Stopped
    PROVE  /\ c \in Seq(Tokens)
           /\ Len(c) >= Len(file[win])
           /\ \A i \in 1..Len(file[win]) : c[i] = file[win][i]
<1>1. file[win] \in Seq(Tokens)
  BY DEF JsonlInv, FilesOK
<1>. QED  BY <1>1, CutsGrow DEF Stopped

LEMMA ReturnOK ==
    ASSUME CallOK, Return,
           initialized' \in BOOLEAN, acked' \in [Windows -> SUBSET Records],
           exposed' \in SUBSET Windows, cut' \in SUBSET Windows,
           used' \in SUBSET Records,
           kills' \in 0..MaxKills, outages' \in 0..MaxOutages
    PROVE  CallOK'
BY EmptySeq DEF CallOK, Return, Pcs

LEMMA IdleKeeps ==
    ASSUME JsonlInv, FilesOK', CallOK', Return
    PROVE  JsonlInv'
<1>1. TodoInv'
  BY EmptySeq DEF Return, TodoInv
<1>. QED  BY <1>1 DEF Return, JsonlInv, WriteInv

(* Writing a token keeps track of every record of the batch.               *)
LEMMA WriteKeeps ==
    ASSUME JsonlInv, Write
    PROVE  JsonlInv'
<1>. DEFINE c == file[win]
            d == file'[win]
            x == Head(todo)
<1>1. /\ win \in Windows /\ win \in files /\ todo \in Seq(Tokens) /\ todo # <<>>
      /\ c \in Seq(Tokens) /\ Len(c) \in Nat
  BY LenProperties DEF Write, JsonlInv, FilesOK, CallOK
<1>0. (c = <<>> <=> Len(c) = 0) /\ Len(todo) \in Nat /\ Len(todo) > 0
  BY <1>1, LenProperties, EmptySeq
<1>2. /\ x = todo[1] /\ x \in Tokens /\ Tail(todo) \in Seq(Tokens)
      /\ Len(Tail(todo)) = Len(todo) - 1
      /\ \A j \in 1..(Len(todo) - 1) : Tail(todo)[j] = todo[j + 1]
      /\ DOMAIN todo = 1..Len(todo) /\ DOMAIN Tail(todo) = 1..(Len(todo) - 1)
      /\ Tail(todo) # <<>> <=> Len(todo) > 1
  <2>1. /\ x = todo[1] /\ x \in Tokens /\ Tail(todo) \in Seq(Tokens)
        /\ Len(Tail(todo)) = Len(todo) - 1
        /\ \A j \in 1..(Len(todo) - 1) : Tail(todo)[j] = todo[j + 1]
    BY <1>1, HeadTailProperties
  <2>2. DOMAIN todo = 1..Len(todo) /\ DOMAIN Tail(todo) = 1..(Len(todo) - 1)
    BY <1>1, <2>1, LenProperties
  <2>3. Tail(todo) # <<>> <=> Len(todo) > 1
    <3>1. Tail(todo) = <<>> <=> Len(Tail(todo)) = 0
      BY <2>1, Emptiness, Zenon
    <3>. QED  BY <1>0, <2>1, <3>1
  <2>. QED  BY <2>1, <2>2, <2>3
<1>3. /\ file' = [file EXCEPT ![win] = d] /\ d = Append(c, x) /\ d \in Seq(Tokens)
      /\ Len(d) = Len(c) + 1 /\ d[Len(c) + 1] = x /\ \A i \in 1..Len(c) : d[i] = c[i]
  <2>1. file' = [file EXCEPT ![win] = Append(c, x)] /\ d = Append(c, x)
    BY <1>1 DEF Write, JsonlInv, FilesOK
  <2>2. /\ Append(c, x) \in Seq(Tokens) /\ Len(Append(c, x)) = Len(c) + 1
        /\ Append(c, x)[Len(c) + 1] = x /\ \A i \in 1..Len(c) : Append(c, x)[i] = c[i]
    BY <1>1, <1>2, Appending
  <2>. QED  BY <2>1, <2>2
<1>4. /\ todo' = Tail(todo) /\ pc = "write" /\ pc' = "write"
      /\ UNCHANGED <<files, synced, listed, rootListed, removed, win, arg, isNew,
                     initialized, acked, exposed, cut, used, kills, outages>>
  BY DEF Write, histVars, boundVars
<1>. HIDE DEF c, d, x
<1>5. FilesOK'
  <2>1. Len(d) >= Len(file[win]) /\ FilesOK
    BY <1>1, <1>3 DEF JsonlInv, c
  <2>. QED  BY <1>1, <1>3, <1>4, <2>1, FileGrows
<1>6. CallOK'
  BY <1>2, <1>4 DEF JsonlInv, CallOK
<1>7. TodoInv'
  <2>. SUFFICES ASSUME NEW j \in 1..Len(todo')
                PROVE  /\ todo'[j] \in Records \cup {Newline}
                       /\ todo'[j] \in Records =>
                            j < Len(todo') /\ todo'[j + 1] = Newline
    BY DEF TodoInv
  <2>1. j \in 1..(Len(todo) - 1) /\ j + 1 \in 1..Len(todo) /\ todo'[j] = todo[j + 1]
    BY <1>2, <1>4
  <2>2. /\ todo[j + 1] \in Records \cup {Newline}
        /\ todo[j + 1] \in Records => j + 1 < Len(todo) /\ todo[(j + 1) + 1] = Newline
    BY <2>1 DEF JsonlInv, TodoInv
  <2>3. j + 1 < Len(todo) => todo'[j + 1] = todo[(j + 1) + 1]
    BY <1>2, <1>4, <2>1
  <2>. QED  BY <1>2, <1>4, <2>1, <2>2, <2>3
<1>8. /\ x \in Records \/ x = Newline
      /\ x \in Records => Len(todo) > 1 /\ todo[2] = Newline /\ AtLineStart(c)
  <2>1. 1 \in 1..Len(todo)
    BY <1>2
  <2>2. /\ todo[1] \in Records \cup {Newline}
        /\ todo[1] \in Records => 1 < Len(todo) /\ todo[1 + 1] = Newline
    BY <2>1 DEF JsonlInv, TodoInv
  <2>. QED  BY <1>1, <1>2, <1>4, <2>2 DEF JsonlInv, WriteInv, c, x
<1>9. todo' # <<>> /\ todo'[1] \in Records => AtLineStart(d)
  BY <1>2, <1>3, <1>4, <1>8, TokenFacts, <1>1 DEF AtLineStart
<1>10. ASSUME NEW r \in arg
       PROVE  \/ r \in ToSet(todo')
              \/ LineBegun(d, r, todo')
              \/ LineIn(d, r, Len(d))
  <2>1. r \in Records
    BY DEF JsonlInv, CallOK
  <2>2. ASSUME NEW j \in 1..Len(todo), r = todo[j]
        PROVE  r \in ToSet(todo') \/ LineBegun(d, r, todo')
    <3>1. CASE j = 1
      <4>1. r = x /\ todo' # <<>> /\ todo'[1] = Newline /\ AtLineStart(c)
        BY <1>2, <1>4, <1>8, <2>1, <2>2, <3>1
      <4>2. d # <<>> /\ d[Len(d)] = r
        BY <1>0, <1>1, <1>3, <4>1, EmptySeq
      <4>3. Len(d) = 1 \/ d[Len(d) - 1] = Newline
        <5>1. Len(c) = 0 \/ (Len(c) \in 1..Len(c) /\ c[Len(c)] = Newline)
          BY <1>0, <1>1, <4>1 DEF AtLineStart
        <5>. QED  BY <1>1, <1>3, <5>1
      <4>. QED  BY <4>1, <4>2, <4>3 DEF LineBegun
    <3>2. CASE j # 1
      <4>1. j - 1 \in 1..(Len(todo) - 1) /\ todo'[j - 1] = todo[j]
        BY <1>2, <1>4, <3>2
      <4>. QED  BY <1>2, <1>4, <2>2, <4>1 DEF ToSet
    <3>. QED  BY <3>1, <3>2
  <2>3. ASSUME LineBegun(c, r, todo)
        PROVE  LineIn(d, r, Len(d))
    <3>1. x = Newline /\ Len(c) \in 1..Len(c) /\ c[Len(c)] = r
      BY <1>0, <1>1, <1>2, <2>3 DEF LineBegun
    <3>2. Len(c) = 1 \/ (Len(c) - 1 \in 1..Len(c) /\ c[Len(c) - 1] = Newline)
      <4>1. Len(c) = 1 \/ c[Len(c) - 1] = Newline
        BY <2>3 DEF LineBegun
      <4>2. Len(c) \in Nat /\ Len(c) > 0
        BY <1>1, <3>1
      <4>3. \A n \in Nat : n > 0 /\ n # 1 => n - 1 \in 1..n
        OBVIOUS
      <4>. QED  BY <4>1, <4>2, <4>3
    <3>3. Len(c) \in 1..(Len(d) - 1) /\ d[Len(c)] = r /\ d[Len(c) + 1] = Newline
      BY <1>1, <1>3, <3>1
    <3>4. Len(c) = 1 \/ d[Len(c) - 1] = Newline
      BY <1>3, <3>2
    <3>. QED  BY <3>3, <3>4 DEF LineIn
  <2>4. ASSUME LineIn(c, r, Len(c))
        PROVE  LineIn(d, r, Len(d))
    <3>1. Len(c) \in 0..Len(c) /\ Len(d) \in Len(c)..Len(d)
      BY <1>1, <1>3
    <3>. QED  BY <1>1, <1>3, <2>4, <3>1, LineStays
  <2>5. r \in ToSet(todo) => \E j \in 1..Len(todo) : r = todo[j]
    BY <1>2 DEF ToSet
  <2>. QED  BY <1>4, <2>2, <2>3, <2>4, <2>5 DEF JsonlInv, WriteInv, c
<1>11. WriteInv'
  BY <1>4, <1>9, <1>10 DEF WriteInv, d
<1>. QED  BY <1>1, <1>4, <1>5, <1>6, <1>7, <1>11 DEF JsonlInv

(* So does every other step.                                               *)
LEMMA StopKeeps ==
    ASSUME JsonlInv, Stops,
           initialized' \in BOOLEAN, kills' \in 0..MaxKills, Cuts,
           UNCHANGED <<acked, exposed, used, outages>>
    PROVE  JsonlInv'
<1>1. FilesOK'
  <2>1. CASE pc = "write"
    <3>1. PICK c \in Stopped : file' = [file EXCEPT ![win] = c]
      BY <2>1 DEF Stops
    <3>2. win \in files /\ FilesOK
      BY <2>1 DEF JsonlInv
    <3>. QED  BY <2>1, <3>1, <3>2, StopGrows, FileGrows DEF Stops
  <2>2. CASE pc # "write"
    BY <2>2 DEF Stops, JsonlInv, FilesOK
  <2>. QED  BY <2>1, <2>2
<1>2. CallOK'
  BY ReturnOK DEF Stops, JsonlInv, CallOK, Cuts
<1>. QED  BY <1>1, <1>2, IdleKeeps DEF Stops

LEMMA CloseTailKeeps ==
    ASSUME JsonlInv, CloseTail
    PROVE  JsonlInv'
<1>. DEFINE c == file[win]
            d == IF c # <<>> /\ Last(c) # Newline THEN Append(c, Newline) ELSE c
<1>1. /\ pc = "tail" /\ pc' = "write" /\ win \in files /\ win \in Windows
      /\ c \in Seq(Tokens) /\ Len(c) \in Nat
      /\ file' = [file EXCEPT ![win] = d] /\ file'[win] = d
      /\ UNCHANGED <<files, synced, listed, rootListed, removed, win, arg, todo, isNew,
                     initialized, acked, exposed, cut, used, kills, outages>>
  BY LenProperties DEF CloseTail, JsonlInv, FilesOK, histVars, boundVars
<1>2. d \in Seq(Tokens) /\ Len(d) >= Len(c) /\ AtLineStart(d)
  <2>1. CASE c # <<>> /\ Last(c) # Newline
    <3>1. d = Append(c, Newline)
      BY <2>1
    <3>2. /\ Append(c, Newline) \in Seq(Tokens) /\ Len(Append(c, Newline)) = Len(c) + 1
          /\ Append(c, Newline)[Len(c) + 1] = Newline
      BY <1>1, Appending, TokenFacts
    <3>. QED  BY <1>1, <3>1, <3>2 DEF AtLineStart
  <2>2. CASE ~(c # <<>> /\ Last(c) # Newline)
    BY <1>1, <2>2 DEF AtLineStart, Last
  <2>. QED  BY <2>1, <2>2
<1>. HIDE DEF d
<1>3. FilesOK'
  BY <1>1, <1>2, FileGrows DEF JsonlInv
<1>4. CallOK' /\ TodoInv'
  BY <1>1 DEF JsonlInv, CallOK, TodoInv, Pcs
<1>5. WriteInv'
  BY <1>1, <1>2 DEF JsonlInv, WriteInv
<1>. QED  BY <1>1, <1>3, <1>4, <1>5 DEF JsonlInv

LEMMA CallKeeps ==
    ASSUME JsonlInv, NEW w \in Windows, NEW batch \in Batches, CallAppend(w, batch)
    PROVE  JsonlInv'
<1>1. batch \in Seq(Records)
  BY JsonlAssumption DEF JsonlAssumption
<1>2. /\ win' = w /\ pc' = "dir" /\ arg' = ToSet(batch) /\ todo' = Lines(batch)
      /\ used' = used \cup ToSet(batch)
      /\ UNCHANGED <<files, file, synced, listed, rootListed, removed, isNew, initialized,
                     acked, exposed, cut, kills, outages>>
  BY DEF CallAppend, diskVars, histVars
<1>3. /\ Lines(batch) \in Seq(Tokens) /\ ToSet(batch) \subseteq ToSet(Lines(batch))
      /\ ToSet(batch) \subseteq Records
      /\ \A j \in 1..Len(Lines(batch)) :
            /\ Lines(batch)[j] \in Records \cup {Newline}
            /\ Lines(batch)[j] \in Records =>
                j < Len(Lines(batch)) /\ Lines(batch)[j + 1] = Newline
  BY <1>1, LinesOfBatch
<1>4. FilesOK'
  BY <1>2 DEF JsonlInv, FilesOK
<1>5. CallOK'
  BY <1>2, <1>3 DEF JsonlInv, CallOK, Pcs
<1>6. TodoInv'
  BY <1>2, <1>3 DEF TodoInv
<1>7. WriteInv'
  BY <1>2, <1>3 DEF WriteInv
<1>. QED  BY <1>2, <1>4, <1>5, <1>6, <1>7 DEF JsonlInv

(* When nothing is left to write, every record of the batch has its line.  *)
LEMMA BatchWritten ==
    ASSUME JsonlInv, pc = "write", todo = <<>>, NEW r \in arg
    PROVE  LineIn(file[win], r, Len(file[win]))
BY DEF JsonlInv, WriteInv, LineBegun, ToSet

LEMMA SyncKeeps ==
    ASSUME JsonlInv, Sync
    PROVE  JsonlInv'
<1>1. /\ pc = "write" /\ todo = <<>> /\ win \in Windows /\ win \in files
      /\ synced' = [synced EXCEPT ![win] = Len(file[win])]
      /\ UNCHANGED <<files, file, listed, rootListed, removed, initialized, used, kills,
                     outages>>
  BY DEF Sync, JsonlInv, boundVars
<1>2. \A w \in Windows : synced'[w] = IF w = win THEN Len(file[win]) ELSE synced[w]
  BY <1>1 DEF JsonlInv, FilesOK
<1>3. FilesOK'
  <2>1. \A w \in Windows : Len(file[w]) \in Nat
    BY LenProperties DEF JsonlInv, FilesOK
  <2>2. synced' \in [Windows -> Nat] /\ \A w \in Windows : synced'[w] <= Len(file[w])
    BY <1>1, <1>2, <2>1 DEF JsonlInv, FilesOK
  <2>. QED  BY <1>1, <2>2 DEF JsonlInv, FilesOK
<1>4. CASE isNew
  <2>1. pc' = "syncdir" /\ UNCHANGED <<win, arg, todo, isNew, acked, exposed, cut>>
    BY <1>4 DEF Sync, histVars
  <2>2. CallOK' /\ TodoInv'
    BY <1>1, <2>1 DEF JsonlInv, CallOK, TodoInv, Pcs
  <2>3. \A r \in arg : LineIn(file[win], r, synced'[win])
    BY <1>1, <1>2, BatchWritten
  <2>. QED  BY <1>1, <1>3, <2>1, <2>2, <2>3 DEF JsonlInv, WriteInv
<1>5. CASE ~isNew
  <2>1. /\ acked' = [acked EXCEPT ![win] = @ \cup arg] /\ Return
        /\ Exposes(listed) /\ cut' = cut
    BY <1>5 DEF Sync
  <2>2. CallOK'
    BY <1>1, <2>1, ReturnOK DEF JsonlInv, CallOK, Exposes
  <2>. QED  BY <1>3, <2>1, <2>2, IdleKeeps
<1>. QED  BY <1>4, <1>5

LEMMA OutageKeeps ==
    ASSUME JsonlInv, Outage
    PROVE  /\ JsonlInv'
           /\ rootListed => \A w \in listed :
                /\ w \in listed'
                /\ file'[w] \in Seq(Tokens) /\ synced'[w] = Len(file'[w])
                /\ Len(file'[w]) >= synced[w]
                /\ \A i \in 1..synced[w] : file'[w][i] = file[w][i]
<1>1. PICK f \in [Windows -> (UNION {Survivors(w) : w \in Windows}) \cup {None}] :
        /\ \/ \A w \in Windows : f[w] \in Survivors(w)
           \/ ~rootListed /\ \A w \in Windows : f[w] = None
        /\ files' = {w \in Windows : f[w] # None}
        /\ file' = [w \in Windows |-> IF f[w] = None THEN <<>> ELSE f[w]]
        /\ synced' = [w \in Windows |-> Len(file'[w])]
        /\ listed' = files'
        /\ rootListed' = (rootListed \/ files' # {})
  BY DEF Outage
<1>2. \A w \in Windows : f[w] = None \/ f[w] \in Seq(Tokens)
  BY <1>1, Survives DEF JsonlInv
<1>3. \A w \in Windows : file'[w] = IF f[w] = None THEN <<>> ELSE f[w]
  BY <1>1
<1>4. \A w \in Windows : file'[w] \in Seq(Tokens)
  BY <1>2, <1>3, EmptySeq
<1>5. \A w \in Windows : synced'[w] = Len(file'[w]) /\ Len(file'[w]) \in Nat
  <2>1. \A w \in Windows : synced'[w] = Len(file'[w])
    BY <1>1
  <2>. QED  BY <1>4, <2>1, LenProperties
<1>6. FilesOK'
  <2>1. file' \in [Windows -> Seq(Tokens)]
    BY <1>1, <1>3, <1>4
  <2>2. synced' \in [Windows -> Nat] /\ \A w \in Windows : synced'[w] <= Len(file'[w])
    BY <1>1, <1>5
  <2>3. removed' \in [Windows -> Seq(Tokens)]
    BY EmptySeq DEF Outage
  <2>4. rootListed' \in BOOLEAN
    BY <1>1
  <2>. QED  BY <1>1, <1>3, <2>1, <2>2, <2>3, <2>4 DEF FilesOK
<1>7. CallOK'
  <2>1. /\ Return /\ initialized' = FALSE
        /\ outages < MaxOutages /\ outages' = outages + 1
        /\ Cuts /\ UNCHANGED <<acked, exposed, used, kills>>
    BY DEF Outage
  <2>2. CallOK /\ MaxOutages \in Nat /\ outages \in 0..MaxOutages
    BY JsonlAssumption DEF JsonlInv, CallOK, JsonlAssumption
  <2>3. outages' \in 0..MaxOutages
    BY <2>1, <2>2
  <2>4. cut' \in SUBSET Windows
    BY <2>1 DEF JsonlInv, CallOK, Cuts
  <2>. QED  BY <2>1, <2>2, <2>3, <2>4, ReturnOK DEF CallOK
<1>8. JsonlInv'
  BY <1>6, <1>7, IdleKeeps DEF Outage
<1>9. ASSUME rootListed, NEW w \in listed
      PROVE  /\ w \in listed'
             /\ file'[w] \in Seq(Tokens) /\ synced'[w] = Len(file'[w])
             /\ Len(file'[w]) >= synced[w]
             /\ \A i \in 1..synced[w] : file'[w][i] = file[w][i]
  <2>1. w \in Windows /\ f[w] \in Survivors(w)
    BY <1>1, <1>9 DEF JsonlInv, FilesOK
  <2>2. /\ f[w] \in Seq(Tokens) /\ Len(f[w]) >= synced[w]
        /\ \A i \in 1..synced[w] : f[w][i] = file[w][i]
    BY <1>9, <2>1, Survives DEF JsonlInv
  <2>3. f[w] # None
    BY <2>2, TokenFacts
  <2>4. file'[w] = f[w]
    BY <1>3, <2>1, <2>3
  <2>. QED  BY <1>1, <1>5, <2>1, <2>2, <2>3, <2>4
<1>. QED  BY <1>8, <1>9

LEMMA OpenKeeps ==
    ASSUME JsonlInv, Open
    PROVE  JsonlInv'
<1>1. /\ pc = "open" /\ pc' = "tail" /\ files' = files \cup {win} /\ isNew' \in BOOLEAN
      /\ win \in Windows
      /\ UNCHANGED <<file, synced, listed, rootListed, removed, win, arg, todo,
                     initialized, acked, exposed, cut, used, kills, outages>>
  BY DEF Open, JsonlInv, histVars, boundVars
<1>2. FilesOK'
  BY <1>1 DEF JsonlInv, FilesOK
<1>3. CallOK' /\ TodoInv' /\ WriteInv'
  BY <1>1 DEF JsonlInv, CallOK, TodoInv, WriteInv, Pcs
<1>. QED  BY <1>1, <1>2, <1>3 DEF JsonlInv

LEMMA SyncDirKeeps ==
    ASSUME JsonlInv, SyncDir
    PROVE  JsonlInv'
<1>1. /\ pc = "syncdir" /\ win \in Windows /\ listed' = files
      /\ removed' = [w \in Windows |-> <<>>]
      /\ acked' = [acked EXCEPT ![win] = @ \cup arg] /\ Return /\ Exposes(files)
      /\ UNCHANGED <<files, file, synced, rootListed, initialized, cut, used, kills,
                     outages>>
  BY DEF SyncDir, JsonlInv, boundVars
<1>2. FilesOK'
  <2>1. removed' \in [Windows -> Seq(Tokens)]
    BY <1>1, EmptySeq
  <2>. QED  BY <1>1, <2>1 DEF JsonlInv, FilesOK
<1>3. CallOK'
  BY <1>1, ReturnOK DEF JsonlInv, CallOK, Exposes
<1>. QED  BY <1>1, <1>2, <1>3, IdleKeeps

LEMMA CommitKeeps ==
    ASSUME JsonlInv, NEW w \in Windows, Commit(w)
    PROVE  JsonlInv'
<1>1. /\ pc = "idle" /\ w \in files
      /\ files' = files \ {w} /\ listed' = listed \ {w}
      /\ file' = [file EXCEPT ![w] = <<>>]
      /\ synced' = [synced EXCEPT ![w] = 0]
      /\ removed' = [removed EXCEPT ![w] =
                        IF w \in listed THEN SubSeq(file[w], 1, synced[w]) ELSE @]
      /\ acked' = [acked EXCEPT ![w] = {}] /\ exposed' = exposed \ {w}
      /\ cut' = cut \ {w}
      /\ UNCHANGED <<rootListed, pc, win, arg, todo, isNew, initialized, used, kills,
                     outages>>
  BY DEF Commit, callVars, boundVars
<1>2. FilesOK'
  <2>1. \A v \in Windows : /\ file'[v] = IF v = w THEN <<>> ELSE file[v]
                           /\ synced'[v] = IF v = w THEN 0 ELSE synced[v]
    BY <1>1 DEF JsonlInv, FilesOK
  <2>2. synced[w] \in 0..Len(file[w]) /\ file[w] \in Seq(Tokens) /\ Len(file[w]) \in Nat
    BY LenProperties DEF JsonlInv, FilesOK
  <2>3. SubSeq(file[w], 1, synced[w]) \in Seq(Tokens)
    BY <2>2
  <2>4. removed' \in [Windows -> Seq(Tokens)]
    BY <1>1, <2>3 DEF JsonlInv, FilesOK
  <2>5. file' \in [Windows -> Seq(Tokens)] /\ synced' \in [Windows -> Nat]
    BY <1>1, EmptySeq DEF JsonlInv, FilesOK
  <2>6. ASSUME NEW v \in Windows
        PROVE  synced'[v] <= Len(file'[v])
    <3>1. CASE v = w
      <4>1. file'[v] = <<>> /\ synced'[v] = 0
        BY <2>1, <3>1
      <4>. QED  BY <4>1, EmptySeq
    <3>2. CASE v # w
      <4>1. file'[v] = file[v] /\ synced'[v] = synced[v]
        BY <2>1, <3>2
      <4>. QED  BY <4>1 DEF JsonlInv, FilesOK
    <3>. QED  BY <3>1, <3>2
  <2>. QED  BY <1>1, <2>1, <2>4, <2>5, <2>6 DEF JsonlInv, FilesOK
<1>3. CallOK' /\ TodoInv' /\ WriteInv'
  BY <1>1 DEF JsonlInv, CallOK, TodoInv, WriteInv, Pcs
<1>. QED  BY <1>1, <1>2, <1>3 DEF JsonlInv

(* A failed append and a killed process stop the same way.                 *)
LEMMA FailuresStop ==
    ASSUME JsonlInv, AppendFails \/ Kill
    PROVE  /\ Stops \/ (pc = "idle" /\ Return /\ UNCHANGED diskVars)
           /\ initialized' \in BOOLEAN /\ kills' \in 0..MaxKills /\ Cuts
           /\ UNCHANGED <<acked, exposed, used, outages>>
<1>1. MaxKills \in Nat /\ kills \in 0..MaxKills /\ initialized \in BOOLEAN
  BY JsonlAssumption DEF JsonlAssumption, JsonlInv, CallOK
<1>2. CASE AppendFails
  <2>1. kills' = kills /\ initialized' = initialized
    BY <1>2 DEF AppendFails, boundVars
  <2>. QED  BY <1>1, <1>2, <2>1 DEF AppendFails, Stops, boundVars
<1>3. CASE Kill
  <2>1. kills < MaxKills /\ kills' = kills + 1 /\ initialized' = FALSE
    BY <1>3 DEF Kill
  <2>2. kills' \in 0..MaxKills
    BY <1>1, <2>1
  <2>3. /\ Return
        /\ IF pc = "write"
           THEN \E c \in Stopped : file' = [file EXCEPT ![win] = c]
           ELSE UNCHANGED file
        /\ Cuts
        /\ UNCHANGED <<files, synced, listed, rootListed, removed, acked, exposed, used,
                       outages>>
    BY <1>3 DEF Kill
  <2>4. Stops \/ (pc = "idle" /\ Return /\ UNCHANGED diskVars)
    BY <2>3 DEF Stops, diskVars
  <2>. QED  BY <2>1, <2>2, <2>3, <2>4
<1>. QED  BY <1>2, <1>3

LEMMA FailuresKeep ==
    ASSUME JsonlInv, AppendFails \/ Kill
    PROVE  JsonlInv'
<1>1. /\ Stops \/ (pc = "idle" /\ Return /\ UNCHANGED diskVars)
      /\ initialized' \in BOOLEAN /\ kills' \in 0..MaxKills /\ Cuts
      /\ UNCHANGED <<acked, exposed, used, outages>>
  BY FailuresStop
<1>2. CASE Stops
  BY <1>1, <1>2, StopKeeps
<1>3. CASE pc = "idle" /\ Return /\ UNCHANGED diskVars
  <2>1. FilesOK'
    BY <1>3 DEF JsonlInv, FilesOK, diskVars
  <2>2. CallOK'
    BY <1>1, <1>3, ReturnOK DEF JsonlInv, CallOK, Cuts
  <2>. QED  BY <1>3, <2>1, <2>2, IdleKeeps
<1>. QED  BY <1>1, <1>2, <1>3

LEMMA InitJsonlInv == JsonlInit => JsonlInv
<1>. SUFFICES ASSUME JsonlInit PROVE JsonlInv
  OBVIOUS
<1>1. \A w \in Windows : file[w] = <<>> /\ synced[w] = 0 /\ Len(file[w]) = 0
  BY EmptySeq DEF JsonlInit
<1>2. FilesOK
  <2>1. file \in [Windows -> Seq(Tokens)] /\ removed \in [Windows -> Seq(Tokens)]
    BY EmptySeq DEF JsonlInit
  <2>2. rootListed \in BOOLEAN
    BY JsonlAssumption DEF JsonlInit, JsonlAssumption
  <2>. QED  BY <1>1, <2>1, <2>2, JsonlAssumption DEF JsonlInit, FilesOK, JsonlAssumption
<1>3. CallOK
  <2>1. kills \in 0..MaxKills /\ outages \in 0..MaxOutages
    BY JsonlAssumption DEF JsonlInit, JsonlAssumption
  <2>. QED  BY <2>1, EmptySeq DEF JsonlInit, CallOK, Pcs
<1>4. TodoInv /\ WriteInv
  BY EmptySeq DEF JsonlInit, TodoInv, WriteInv
<1>. QED  BY <1>2, <1>3, <1>4 DEF JsonlInit, JsonlInv

LEMMA NextJsonlInv == JsonlInv /\ [JsonlNext]_jsonlVars => JsonlInv'
<1>. SUFFICES ASSUME JsonlInv, [JsonlNext]_jsonlVars
              PROVE  JsonlInv'
  OBVIOUS
<1>1. CASE EnsureDir
  <2>1. /\ pc = "dir" /\ pc' = "open" /\ initialized' = TRUE
        /\ UNCHANGED <<files, file, synced, listed, rootListed, removed, win, arg, todo,
                       isNew, acked, exposed, cut, used, kills, outages>>
    BY <1>1 DEF EnsureDir, diskVars, histVars, boundVars
  <2>2. FilesOK' /\ CallOK' /\ TodoInv' /\ WriteInv'
    BY <2>1 DEF JsonlInv, FilesOK, CallOK, TodoInv, WriteInv, Pcs
  <2>. QED  BY <2>1, <2>2 DEF JsonlInv
<1>2. CASE Oldest \/ UNCHANGED jsonlVars
  <2>1. /\ initialized' \in BOOLEAN
        /\ UNCHANGED <<files, file, synced, listed, rootListed, removed, pc, win, arg, todo,
                       isNew, acked, exposed, cut, used, kills, outages>>
    BY <1>2
    DEF Oldest, jsonlVars, diskVars, callVars, histVars, boundVars, JsonlInv, CallOK
  <2>2. FilesOK' /\ CallOK' /\ TodoInv' /\ WriteInv'
    BY <2>1 DEF JsonlInv, FilesOK, CallOK, TodoInv, WriteInv
  <2>. QED  BY <2>1, <2>2 DEF JsonlInv
<1>. QED  BY <1>1, <1>2, CallKeeps, OpenKeeps, CloseTailKeeps, WriteKeeps, SyncKeeps,
             SyncDirKeeps, FailuresKeep, CommitKeeps, OutageKeeps DEF JsonlNext

(* The state of the files and of the append in progress, at any time: what *)
(* is left to write, and a line for each record that is not.               *)
THEOREM JsonlIsInvariant == JsonlSpec => []JsonlInv
BY InitJsonlInv, NextJsonlInv, PTL DEF JsonlSpec

(* Every variable of the JSONL store (jsonl.rs) has its type; no more of a *)
(* file is synced than it has.                                             *)
THEOREM JsonlTypeCorrect == JsonlSpec => []JsonlTypeOK
<1>1. JsonlInv => JsonlTypeOK
  BY TypeParts DEF JsonlInv
<1>. QED  BY <1>1, JsonlIsInvariant, PTL

-----------------------------------------------------------------------------
(* Nothing that is synced is lost or changed, and no entry of a directory  *)
(* that was synced.                                                        *)
KeepsSynced ==
    \A w \in listed :
        /\ w \in listed'
        /\ synced[w] <= synced'[w]
        /\ \A i \in 1..synced[w] : file'[w][i] = file[w][i]

LEMMA LinesKept ==
    ASSUME JsonlInv, JsonlInv', KeepsSynced, NEW w \in listed, NEW r,
           LineIn(file[w], r, synced[w])
    PROVE  LineIn(file'[w], r, synced'[w])
<1>1. /\ w \in Windows /\ file[w] \in Seq(Tokens) /\ file'[w] \in Seq(Tokens)
      /\ synced[w] \in 0..Len(file[w])
  <2>1. w \in Windows /\ file[w] \in Seq(Tokens) /\ file'[w] \in Seq(Tokens)
    BY DEF JsonlInv, FilesOK
  <2>. QED  BY <2>1, LenProperties DEF JsonlInv, FilesOK
<1>2. synced'[w] \in synced[w]..Len(file'[w])
  <2>1. synced'[w] \in Nat /\ synced'[w] <= Len(file'[w]) /\ Len(file'[w]) \in Nat
    BY <1>1, LenProperties DEF JsonlInv, FilesOK
  <2>. QED  BY <1>1, <2>1 DEF KeepsSynced
<1>. DEFINE c == file[w]
            d == file'[w]
            n == synced[w]
            m == synced'[w]
<1>3. \A i \in 1..n : d[i] = c[i]
  BY DEF KeepsSynced
<1>4. m \in n..Len(d) /\ LineIn(d, r, m)
  <2>1. /\ c \in Seq(Tokens) /\ d \in Seq(Tokens) /\ n \in 0..Len(c) /\ m \in n..Len(d)
        /\ LineIn(c, r, n)
    BY <1>1, <1>2
  <2>. HIDE DEF c, d, n, m
  <2>. QED  BY <1>3, <2>1, LineStays
<1>. QED  BY <1>4

LEMMA SyncedKept ==
    ASSUME JsonlInv, JsonlInv', SyncedInv, rootListed => KeepsSynced /\ rootListed',
           acked' = acked, exposed' = exposed
    PROVE  SyncedInv'
BY LinesKept DEF SyncedInv, KeepsSynced

(* An append that writes on to its file, or stops, keeps what is synced.   *)
LEMMA GrowingKeeps ==
    ASSUME JsonlInv, NEW c \in Seq(Tokens),
           win \in Windows, file' = [file EXCEPT ![win] = c],
           \A i \in 1..Len(file[win]) : c[i] = file[win][i],
           listed' = listed, synced' = synced
    PROVE  KeepsSynced
<1>. SUFFICES ASSUME NEW w \in listed, NEW i \in 1..synced[w]
              PROVE  file'[w][i] = file[w][i]
  BY DEF KeepsSynced, JsonlInv, FilesOK
<1>1. w \in Windows /\ synced[w] \in Nat /\ synced[w] <= Len(file[w])
  BY DEF JsonlInv, FilesOK
<1>2. i \in 1..Len(file[w])
  <2>1. Len(file[w]) \in Nat
    BY <1>1, LenProperties DEF JsonlInv, FilesOK
  <2>. QED  BY <1>1, <2>1
<1>3. file'[w] = IF w = win THEN c ELSE file[w]
  BY <1>1 DEF JsonlInv, FilesOK
<1>. QED  BY <1>2, <1>3

LEMMA AppendKeepsSynced ==
    ASSUME JsonlInv, CloseTail \/ Write \/ Stops
    PROVE  KeepsSynced
<1>1. /\ listed' = listed /\ synced' = synced
      /\ pc # "idle" /\ win \in Windows /\ file[win] \in Seq(Tokens)
  BY DEF CloseTail, Write, Stops, JsonlInv, FilesOK
<1>2. CASE CloseTail \/ Write
  <2>1. PICK x \in Tokens : file' = [file EXCEPT ![win] = Append(file[win], x)]
                            \/ file' = [file EXCEPT ![win] = file[win]]
    <3>1. CASE CloseTail
      <4>1. \/ file' = [file EXCEPT ![win] = Append(file[win], Newline)]
            \/ file' = [file EXCEPT ![win] = file[win]]
        BY <3>1 DEF CloseTail
      <4>. QED  BY <4>1, TokenFacts
    <3>2. CASE Write
      <4>1. Head(todo) \in Tokens
        BY <3>2, HeadTailProperties DEF Write, JsonlInv, CallOK
      <4>. QED  BY <3>2, <4>1 DEF Write, JsonlInv, FilesOK
    <3>. QED  BY <1>2, <3>1, <3>2
  <2>2. /\ Append(file[win], x) \in Seq(Tokens)
        /\ \A i \in 1..Len(file[win]) : Append(file[win], x)[i] = file[win][i]
    BY <1>1, Appending
  <2>. QED  BY <1>1, <2>1, <2>2, GrowingKeeps
<1>3. CASE Stops /\ pc = "write"
  <2>1. PICK c \in Stopped : file' = [file EXCEPT ![win] = c]
    BY <1>3 DEF Stops
  <2>2. c \in Seq(Tokens) /\ \A i \in 1..Len(file[win]) : c[i] = file[win][i]
    BY <1>3, StopGrows
  <2>. QED  BY <1>1, <2>1, <2>2, GrowingKeeps
<1>4. CASE Stops /\ pc # "write"
  <2>1. file' = file
    BY <1>4 DEF Stops
  <2>. QED  BY <1>1, <2>1 DEF KeepsSynced, JsonlInv, FilesOK
<1>. QED  BY <1>2, <1>3, <1>4

(* The Ok of an append to a file that existed.                             *)
LEMMA SyncAcks ==
    ASSUME JsonlInv, JsonlInv', SyncedInv, Sync
    PROVE  SyncedInv'
<1>1. /\ pc = "write" /\ todo = <<>> /\ win \in Windows
      /\ synced' = [synced EXCEPT ![win] = Len(file[win])]
      /\ UNCHANGED <<file, listed, rootListed>>
  BY DEF Sync, JsonlInv
<1>2. KeepsSynced
  <2>. SUFFICES ASSUME NEW w \in listed
                PROVE  synced[w] <= synced'[w]
    BY <1>1 DEF KeepsSynced
  <2>1. /\ w \in Windows /\ synced[w] \in Nat /\ synced[w] <= Len(file[w])
        /\ synced'[w] = IF w = win THEN Len(file[w]) ELSE synced[w]
    BY <1>1 DEF JsonlInv, FilesOK
  <2>. QED  BY <2>1
<1>3. CASE UNCHANGED histVars
  <2>1. acked' = acked /\ exposed' = exposed
    BY <1>3 DEF histVars
  <2>. QED  BY <1>1, <1>2, <2>1, SyncedKept
<1>4. CASE ~UNCHANGED histVars
  <2>1. /\ acked' = [acked EXCEPT ![win] = @ \cup arg]
        /\ exposed' = IF win \in listed /\ rootListed THEN exposed ELSE exposed \cup {win}
    BY <1>4 DEF Sync, Exposes
  <2>2. \A w \in Windows : acked'[w] = IF w = win THEN acked[w] \cup arg ELSE acked[w]
    BY <2>1 DEF JsonlInv, CallOK
  <2>3. ASSUME NEW r \in arg
        PROVE  LineIn(file'[win], r, synced'[win])
    <3>1. LineIn(file[win], r, Len(file[win]))
      BY <1>1, BatchWritten
    <3>2. file'[win] = file[win] /\ synced'[win] = Len(file[win])
      BY <1>1 DEF JsonlInv, FilesOK
    <3>. QED  BY <3>1, <3>2
  <2>4. ASSUME NEW w \in Windows \ exposed', acked'[w] # {}
        PROVE  w \in listed' /\ rootListed' /\ \A r \in acked'[w] : LineIn(file'[w], r, synced'[w])
    <3>1. /\ w \notin exposed /\ (w = win => w \in listed /\ rootListed)
          /\ listed' = listed /\ rootListed' = rootListed
      BY <1>1, <2>1, <2>4
    <3>2. ASSUME NEW r \in acked[w]
          PROVE  w \in listed /\ rootListed /\ LineIn(file'[w], r, synced'[w])
      <4>1. w \in listed /\ rootListed /\ LineIn(file[w], r, synced[w])
        BY <3>1, <3>2 DEF SyncedInv
      <4>. QED  BY <1>2, <4>1, LinesKept
    <3>. QED  BY <2>2, <2>3, <2>4, <3>1, <3>2
  <2>. QED  BY <1>1, <2>4 DEF SyncedInv
<1>. QED  BY <1>3, <1>4

(* The Ok of an append to a new file, after the directory's sync.          *)
LEMMA SyncDirAcks ==
    ASSUME JsonlInv, JsonlInv', SyncedInv, SyncDir
    PROVE  SyncedInv'
<1>1. /\ pc = "syncdir" /\ win \in Windows /\ win \in files
      /\ listed' = files /\ acked' = [acked EXCEPT ![win] = @ \cup arg]
      /\ exposed' = IF win \in files /\ rootListed THEN exposed ELSE exposed \cup {win}
      /\ UNCHANGED <<files, file, synced, rootListed>>
  BY DEF SyncDir, JsonlInv, Exposes
<1>2. \A w \in Windows : acked'[w] = IF w = win THEN acked[w] \cup arg ELSE acked[w]
  BY <1>1 DEF JsonlInv, CallOK
<1>3. listed \subseteq files
  BY DEF JsonlInv, FilesOK
<1>4. \A r \in arg : LineIn(file[win], r, synced[win])
  BY <1>1 DEF JsonlInv, WriteInv
<1>5. ASSUME NEW w \in Windows \ exposed', acked'[w] # {}
      PROVE  w \in listed' /\ rootListed' /\ \A r \in acked'[w] : LineIn(file'[w], r, synced'[w])
  BY <1>1, <1>2, <1>3, <1>4, <1>5 DEF SyncedInv
<1>. QED  BY <1>1, <1>5 DEF SyncedInv

LEMMA CommitForgets ==
    ASSUME JsonlInv, SyncedInv, NEW w \in Windows, Commit(w)
    PROVE  SyncedInv'
<1>1. /\ file' = [file EXCEPT ![w] = <<>>] /\ synced' = [synced EXCEPT ![w] = 0]
      /\ listed' = listed \ {w} /\ acked' = [acked EXCEPT ![w] = {}]
      /\ exposed' = exposed \ {w} /\ rootListed' = rootListed
  BY DEF Commit
<1>2. acked'[w] = {}
  BY <1>1 DEF JsonlInv, CallOK
<1>3. \A v \in Windows : v # w =>
        file'[v] = file[v] /\ synced'[v] = synced[v] /\ acked'[v] = acked[v]
  BY <1>1 DEF JsonlInv, FilesOK, CallOK
<1>. QED  BY <1>1, <1>2, <1>3 DEF SyncedInv

LEMMA NextSyncedInv ==
    JsonlInv /\ JsonlInv' /\ SyncedInv /\ [JsonlNext]_jsonlVars => SyncedInv'
<1>. SUFFICES ASSUME JsonlInv, JsonlInv', SyncedInv, [JsonlNext]_jsonlVars
              PROVE  SyncedInv'
  OBVIOUS
<1>1. ASSUME UNCHANGED <<file, synced, listed, rootListed, acked, exposed>>
      PROVE  SyncedInv'
  BY <1>1 DEF SyncedInv
<1>2. CASE \/ \E w \in Windows, batch \in Batches : CallAppend(w, batch)
           \/ EnsureDir \/ Open \/ Oldest \/ UNCHANGED jsonlVars
  BY <1>1, <1>2 DEF CallAppend, EnsureDir, Open, Oldest, jsonlVars, diskVars, histVars
<1>3. CASE CloseTail \/ Write
  <2>1. acked' = acked /\ exposed' = exposed /\ rootListed' = rootListed
    BY <1>3 DEF CloseTail, Write, histVars
  <2>. QED  BY <1>3, <2>1, AppendKeepsSynced, SyncedKept DEF SyncedInv
<1>4. CASE AppendFails \/ Kill
  <2>1. Stops \/ UNCHANGED diskVars
    BY <1>4, FailuresStop
  <2>2. acked' = acked /\ exposed' = exposed
    BY <1>4, FailuresStop
  <2>3. CASE Stops
    <3>1. rootListed' = rootListed
      BY <2>3 DEF Stops
    <3>. QED  BY <2>2, <2>3, <3>1, AppendKeepsSynced, SyncedKept DEF SyncedInv
  <2>. QED  BY <1>1, <2>1, <2>2, <2>3 DEF diskVars
<1>5. CASE Outage
  <2>1. rootListed => \A w \in listed :
            /\ w \in listed' /\ synced'[w] = Len(file'[w]) /\ Len(file'[w]) >= synced[w]
            /\ \A i \in 1..synced[w] : file'[w][i] = file[w][i]
    BY <1>5, OutageKeeps DEF SyncedInv
  <2>2. \A w \in listed : synced[w] \in Nat /\ synced'[w] \in Nat
    BY DEF JsonlInv, FilesOK
  <2>3. rootListed => KeepsSynced
    BY <2>1, <2>2 DEF KeepsSynced
  <2>4. acked' = acked /\ exposed' = exposed
    BY <1>5 DEF Outage
  <2>5. rootListed => rootListed'
    BY <1>5 DEF Outage
  <2>. QED  BY <2>3, <2>4, <2>5, SyncedKept
<1>. QED  BY <1>2, <1>3, <1>4, <1>5, SyncAcks, SyncDirAcks, CommitForgets DEF JsonlNext

-----------------------------------------------------------------------------
(* A token is text unless it is a value cut inside a character.            *)
LEMMA ReadsAppend ==
    ASSUME NEW c \in Seq(Tokens), NEW x \in Tokens
    PROVE  ReadsAsText(Append(c, x)) <=> ReadsAsText(c) /\ x # TornUtf8
<1>. DEFINE d == Append(c, x)
            n == Len(c)
<1>1. /\ n \in Nat /\ DOMAIN c = 1..n /\ DOMAIN d = 1..(n + 1)
      /\ d[n + 1] = x /\ \A i \in 1..n : d[i] = c[i]
  BY Appending, LenProperties
<1>. HIDE DEF d, n
<1>2. ToSet(d) = ToSet(c) \cup {x}
  <2>1. \A i \in 1..(n + 1) : i \in 1..n \/ i = n + 1
    BY <1>1
  <2>2. n + 1 \in 1..(n + 1) /\ \A i \in 1..n : i \in 1..(n + 1)
    BY <1>1
  <2>3. ToSet(d) \subseteq ToSet(c) \cup {x}
    BY <1>1, <2>1 DEF ToSet
  <2>4. ToSet(c) \subseteq ToSet(d) /\ x \in ToSet(d)
    BY <1>1, <2>2 DEF ToSet
  <2>. QED  BY <2>3, <2>4
<1>. QED  BY <1>2 DEF ReadsAsText, d

(* A prefix of a text is one.                                              *)
LEMMA ReadsPrefix ==
    ASSUME NEW c \in Seq(Tokens), NEW n \in 0..Len(c), ReadsAsText(c)
    PROVE  ReadsAsText(SubSeq(c, 1, n))
<1>. DEFINE d == SubSeq(c, 1, n)
<1>1. /\ Len(c) \in Nat /\ d \in Seq(Tokens) /\ Len(d) = n
      /\ \A i \in 1..n : d[i] = c[i]
  BY LenProperties
<1>2. DOMAIN c = 1..Len(c) /\ DOMAIN d = 1..n
  BY <1>1, LenProperties
<1>. HIDE DEF d
<1>3. \A i \in 1..n : i \in 1..Len(c)
  BY <1>1
<1>4. ToSet(d) \subseteq ToSet(c)
  BY <1>1, <1>2, <1>3 DEF ToSet
<1>. QED  BY <1>4 DEF ReadsAsText, d

LEMMA ReadsEmpty == ReadsAsText(<<>>)
BY EmptySeq DEF ReadsAsText, ToSet

(* A write that stops may cut a value inside a character, if records are   *)
(* not ASCII.                                                              *)
LEMMA CutReads ==
    ASSUME NEW c \in Seq(Tokens), NEW rest, NEW d \in Cut(c, rest),
           Ascii, ReadsAsText(c)
    PROVE  ReadsAsText(d)
<1>1. CASE d = c
  BY <1>1
<1>2. CASE \E x \in {Torn, TornUtf8} : d = Append(c, x) /\ (x = TornUtf8 => ~Ascii)
  <2>1. d = Append(c, Torn)
    BY <1>2
  <2>. QED  BY <2>1, TokenFacts, ReadsAppend
<1>. QED  BY <1>1, <1>2, CutsAre

(* What a power failure leaves of a segment is text, if the segment was    *)
(* and had no write that was not synced, or if records are ASCII.          *)
LEMMA SurvivorReads ==
    ASSUME JsonlInv, TextInv, NEW w \in Windows, NEW g \in Survivors(w), g # None,
           Ascii \/ (w \notin cut /\ ~Writing(w))
    PROVE  ReadsAsText(g)
<1>. DEFINE c == file[w]
<1>1. /\ c \in Seq(Tokens) /\ Len(c) \in Nat /\ synced[w] \in 0..Len(c)
      /\ ReadsAsText(c) /\ ReadsAsText(removed[w])
  <2>1. c \in Seq(Tokens) /\ synced[w] \in Nat /\ synced[w] <= Len(c)
    BY DEF JsonlInv, FilesOK
  <2>. QED  BY <2>1, LenProperties DEF TextInv
<1>2. ASSUME NEW n \in synced[w]..Len(c),
             g \in Cut(SubSeq(c, 1, n), SubSeq(c, n + 1, Len(c)))
      PROVE  ReadsAsText(g)
  <2>. DEFINE p == SubSeq(c, 1, n)
              q == SubSeq(c, n + 1, Len(c))
  <2>1. n \in 0..Len(c) /\ p \in Seq(Tokens)
    BY <1>1
  <2>2. ReadsAsText(p)
    BY <1>1, <2>1, ReadsPrefix
  <2>3. CASE Ascii
    <3>1. g \in Cut(p, q)
      BY <1>2
    <3>. HIDE DEF p, q
    <3>. QED  BY <2>1, <2>2, <2>3, <3>1, CutReads
  <2>4. CASE w \notin cut /\ ~Writing(w)
    <3>1. n = Len(c)
      <4>1. synced[w] = Len(c)
        BY <2>4 DEF TextInv
      <4>. QED  BY <1>1, <4>1
    <3>2. q = <<>>
      BY <1>1, <3>1
    <3>3. g = p
      BY <1>2, <3>2 DEF Cut
    <3>. QED  BY <2>2, <3>3
  <2>. QED  BY <2>3, <2>4
<1>. QED  BY <1>1, <1>2 DEF Survivors

(* An append that adds text to its file.                                   *)
LEMMA TextGrows ==
    ASSUME JsonlInv, TextInv, NEW x \in Tokens, x # TornUtf8, win \in Windows,
           \/ file' = [file EXCEPT ![win] = Append(file[win], x)]
           \/ file' = [file EXCEPT ![win] = file[win]],
           pc' = "write", win' = win, UNCHANGED <<removed, synced, cut>>
    PROVE  TextInv'
<1>. SUFFICES ASSUME NEW w \in Windows
              PROVE  /\ Ascii \/ w \notin cut => ReadsAsText(file'[w])
                     /\ ReadsAsText(removed[w])
                     /\ w \notin cut /\ w # win => synced[w] = Len(file'[w])
  BY DEF TextInv, Writing
<1>1. file \in [Windows -> Seq(Tokens)]
  BY DEF JsonlInv, FilesOK
<1>2. w # win => file'[w] = file[w]
  BY <1>1
<1>3. w = win => file'[w] \in {Append(file[win], x), file[win]}
  BY <1>1
<1>4. ReadsAsText(file[win]) => ReadsAsText(Append(file[win], x))
  BY <1>1, ReadsAppend
<1>. QED  BY <1>2, <1>3, <1>4 DEF TextInv, Writing

LEMMA NextTextInv ==
    JsonlInv /\ TextInv /\ [JsonlNext]_jsonlVars => TextInv'
<1>. SUFFICES ASSUME JsonlInv, TextInv, [JsonlNext]_jsonlVars
              PROVE  TextInv'
  OBVIOUS
<1>0. /\ file \in [Windows -> Seq(Tokens)] /\ removed \in [Windows -> Seq(Tokens)]
      /\ synced \in [Windows -> Nat]
  BY DEF JsonlInv, FilesOK
<1>1. CASE \/ \E w \in Windows, batch \in Batches : CallAppend(w, batch)
           \/ EnsureDir \/ Open \/ Oldest \/ UNCHANGED jsonlVars
  <2>1. UNCHANGED <<file, removed, synced, cut>>
    BY <1>1
       DEF CallAppend, EnsureDir, Open, Oldest, jsonlVars, diskVars, histVars
  <2>2. (pc # "write" /\ pc' # "write") \/ UNCHANGED <<pc, win>>
    BY <1>1 DEF CallAppend, EnsureDir, Open, Oldest, jsonlVars, callVars
  <2>. QED  BY <2>1, <2>2 DEF TextInv, Writing
<1>2. CASE CloseTail
  <2>1. /\ pc' = "write" /\ win \in Windows /\ UNCHANGED <<win, removed, synced, cut>>
        /\ \/ file' = [file EXCEPT ![win] = Append(file[win], Newline)]
           \/ file' = [file EXCEPT ![win] = file[win]]
    BY <1>2 DEF CloseTail, JsonlInv, histVars
  <2>. QED  BY <2>1, TokenFacts, TextGrows
<1>3. CASE Write
  <2>1. /\ pc' = "write" /\ win \in Windows /\ UNCHANGED <<win, removed, synced, cut>>
        /\ file' = [file EXCEPT ![win] = Append(file[win], Head(todo))]
        /\ todo # <<>> /\ todo \in Seq(Tokens)
    BY <1>0, <1>3 DEF Write, JsonlInv, CallOK, histVars
  <2>2. Head(todo) \in Records \cup {Newline}
    <3>1. 1 \in 1..Len(todo) /\ Head(todo) = todo[1]
      BY <2>1, Emptiness, LenProperties
    <3>. QED  BY <3>1 DEF JsonlInv, TodoInv
  <2>3. Head(todo) \in Tokens /\ Head(todo) # TornUtf8
    BY <2>2, TokenFacts
  <2>. QED  BY <2>1, <2>3, TextGrows
<1>4. CASE Sync
  <2>1. /\ pc = "write" /\ pc' # "write" /\ win \in Windows
        /\ synced' = [synced EXCEPT ![win] = Len(file[win])]
        /\ UNCHANGED <<file, removed, cut>>
    BY <1>4 DEF Sync, JsonlInv, Return, histVars
  <2>2. \A w \in Windows : synced'[w] = IF w = win THEN Len(file[w]) ELSE synced[w]
    BY <1>0, <2>1
  <2>. QED  BY <2>1, <2>2 DEF TextInv, Writing
<1>5. CASE SyncDir
  <2>1. /\ pc = "syncdir" /\ pc' # "write" /\ UNCHANGED <<file, synced, cut>>
        /\ \A w \in Windows : removed'[w] = <<>>
    BY <1>5 DEF SyncDir, Return
  <2>. QED  BY <2>1, ReadsEmpty DEF TextInv, Writing
<1>6. CASE AppendFails \/ Kill
  <2>1. Stops \/ (pc = "idle" /\ Return /\ UNCHANGED diskVars)
    BY <1>6, FailuresStop
  <2>2. pc' = "idle" /\ Cuts /\ UNCHANGED <<synced, removed>>
    BY <1>6, FailuresStop DEF Stops, Return, diskVars
  <2>3. CASE pc = "write"
    <3>1. PICK c \in Stopped : file' = [file EXCEPT ![win] = c]
      BY <2>1, <2>3 DEF Stops
    <3>2. win \in Windows /\ cut' = cut \cup {win}
      BY <2>2, <2>3 DEF JsonlInv, Cuts
    <3>3. \A w \in Windows : file'[w] = IF w = win THEN c ELSE file[w]
      BY <1>0, <3>1
    <3>4. Ascii => ReadsAsText(c)
      BY <1>0, <3>2, CutReads DEF Stopped, TextInv
    <3>. QED  BY <2>2, <3>2, <3>3, <3>4 DEF TextInv, Writing
  <2>4. CASE pc # "write"
    <3>1. file' = file /\ cut' = cut
      BY <2>1, <2>2, <2>4 DEF Stops, Cuts, diskVars
    <3>. QED  BY <2>2, <2>4, <3>1 DEF TextInv, Writing
  <2>. QED  BY <2>3, <2>4
<1>7. ASSUME NEW w \in Windows, Commit(w)
      PROVE  TextInv'
  <2>1. /\ pc = "idle" /\ pc' = pc /\ ReadsAsText(file[w])
        /\ file' = [file EXCEPT ![w] = <<>>] /\ synced' = [synced EXCEPT ![w] = 0]
        /\ removed' = [removed EXCEPT ![w] =
                          IF w \in listed THEN SubSeq(file[w], 1, synced[w]) ELSE @]
        /\ cut' = cut \ {w}
    BY <1>7 DEF Commit, callVars
  <2>2. \A v \in Windows : v # w => /\ file'[v] = file[v] /\ synced'[v] = synced[v]
                                    /\ removed'[v] = removed[v]
    BY <1>0, <2>1
  <2>3. file'[w] = <<>> /\ synced'[w] = 0 /\ Len(<<>>) = 0
    BY <1>0, <2>1, EmptySeq
  <2>4. ReadsAsText(removed'[w])
    <3>1. synced[w] \in 0..Len(file[w]) /\ file[w] \in Seq(Tokens)
      BY LenProperties DEF JsonlInv, FilesOK
    <3>2. ReadsAsText(SubSeq(file[w], 1, synced[w]))
      BY <2>1, <3>1, ReadsPrefix
    <3>3. removed'[w] \in {SubSeq(file[w], 1, synced[w]), removed[w]}
      BY <1>0, <2>1
    <3>. QED  BY <3>2, <3>3 DEF TextInv
  <2>. QED  BY <2>1, <2>2, <2>3, <2>4, ReadsEmpty DEF TextInv, Writing
<1>8. CASE Outage
  <2>1. PICK f \in [Windows -> (UNION {Survivors(w) : w \in Windows}) \cup {None}] :
          /\ \A w \in Windows : f[w] \in Survivors(w) \/ f[w] = None
          /\ file' = [w \in Windows |-> IF f[w] = None THEN <<>> ELSE f[w]]
          /\ synced' = [w \in Windows |-> Len(file'[w])]
    BY <1>8 DEF Outage
  <2>2. pc' = "idle" /\ Cuts /\ removed' = [w \in Windows |-> <<>>]
    BY <1>8 DEF Outage, Return
  <2>3. ASSUME NEW w \in Windows
        PROVE  /\ Ascii \/ w \notin cut' => ReadsAsText(file'[w])
               /\ ReadsAsText(removed'[w])
               /\ synced'[w] = Len(file'[w])
    <3>1. ReadsAsText(removed'[w]) /\ synced'[w] = Len(file'[w])
      BY <2>1, <2>2, ReadsEmpty
    <3>2. ASSUME Ascii \/ w \notin cut'
          PROVE  ReadsAsText(file'[w])
      <4>1. Ascii \/ (w \notin cut /\ ~Writing(w))
        BY <2>2, <3>2 DEF Cuts, Writing
      <4>2. file'[w] = IF f[w] = None THEN <<>> ELSE f[w]
        BY <2>1
      <4>. QED  BY <2>1, <4>1, <4>2, SurvivorReads, ReadsEmpty
    <3>. QED  BY <3>1, <3>2
  <2>. QED  BY <2>2, <2>3 DEF TextInv
<1>. QED
  BY <1>1, <1>2, <1>3, <1>4, <1>5, <1>6, <1>7, <1>8 DEF JsonlNext

LEMMA InitTextInv == JsonlInit => TextInv
BY ReadsEmpty, EmptySeq DEF JsonlInit, TextInv, Writing

LEMMA SyncedIsParsed ==
    ASSUME JsonlInv, SyncedInv, NEW w \in Windows \ exposed
    PROVE  acked[w] \subseteq Parsed(file[w])
<1>. SUFFICES ASSUME NEW r \in acked[w]
              PROVE  r \in Parsed(file[w])
  OBVIOUS
<1>1. r \in Records /\ LineIn(file[w], r, synced[w])
  BY DEF SyncedInv, JsonlInv, CallOK
<1>2. file[w] \in Seq(Tokens) /\ synced[w] \in 0..Len(file[w])
  BY LenProperties DEF JsonlInv, FilesOK
<1>. QED  BY <1>1, <1>2, LineIsParsed

(* What append returned Ok for is read back until the segment is committed *)
(* (append, records and commit of jsonl.rs), through kills, failed appends *)
(* and power failures: its records are on lines of their own, and the file *)
(* is text unless one of its writes was cut short and records are not      *)
(* ASCII.  A segment whose entry, or whose directory's, the Ok did not     *)
(* wait for is left out.                                                   *)
THEOREM AckedReadsBack == JsonlSpec => []AckedIsReadBack
<1>1. JsonlInit => SyncedInv /\ TextInv
  BY InitTextInv DEF JsonlInit, SyncedInv
<1>2. JsonlInv /\ SyncedInv /\ TextInv => AckedIsReadBack
  BY SyncedIsParsed DEF AckedIsReadBack, TextInv
<1>. QED
  BY <1>1, <1>2, NextSyncedInv, NextTextInv, JsonlIsInvariant, PTL DEF JsonlSpec

-----------------------------------------------------------------------------
(* The files implement module Store: what each step is for the store.      *)
(* A file that goes on with what is read back as S is an append of S.      *)
LEMMA GrowthIsAppend ==
    ASSUME JsonlInv, NEW S \in SUBSET Records, NEW d,
           win \in files, files' = files, file' = [file EXCEPT ![win] = d],
           Parsed(d) = Parsed(file[win]) \cup S,
           ReadsAsText(d) <=> ReadsAsText(file[win])
    PROVE  Backend!StoreNext
<1>1. win \in Windows
  BY DEF JsonlInv, FilesOK
<1>2. \A w \in Windows : file'[w] = IF w = win THEN d ELSE file[w]
  BY DEF JsonlInv, FilesOK
<1>3. [w \in Windows |-> Parsed(file'[w])]
      = [[w \in Windows |-> Parsed(file[w])] EXCEPT
            ![win] = [w \in Windows |-> Parsed(file[w])][win] \cup S]
  <2>1. ASSUME NEW w \in Windows
        PROVE  Parsed(file'[w]) = IF w = win THEN Parsed(file[w]) \cup S ELSE Parsed(file[w])
    <3>1. CASE w = win
      BY <1>2, <3>1
    <3>2. CASE w # win
      <4>1. file'[w] = file[w]
        BY <1>2, <3>2
      <4>. QED  BY <3>2, <4>1
    <3>. QED  BY <3>1, <3>2
  <2>. QED  BY <1>1, <2>1
<1>4. {w \in files' : ~ReadsAsText(file'[w])} = {w \in files : ~ReadsAsText(file[w])}
  <2>1. ASSUME NEW w \in files
        PROVE  ReadsAsText(file'[w]) <=> ReadsAsText(file[w])
    <3>1. CASE w = win
      BY <1>1, <1>2, <3>1
    <3>2. CASE w # win
      <4>1. file'[w] = file[w]
        BY <1>2, <3>2 DEF JsonlInv, FilesOK
      <4>. QED  BY <4>1
    <3>. QED  BY <3>1, <3>2
  <2>. QED  BY <2>1
<1>5. files' = files \cup {win}
  OBVIOUS
<1>6. Backend!StoreAppend(win, S)
  BY <1>3, <1>4, <1>5 DEF Backend!StoreAppend
<1>. QED  BY <1>1, <1>6 DEF Backend!StoreNext

(* A value cut inside a character leaves a segment that cannot be read.    *)
LEMMA CutIsTear ==
    ASSUME JsonlInv, ~Ascii, NEW r \in Records, win \in files, files' = files,
           file' = [file EXCEPT ![win] = Append(file[win], TornUtf8)],
           AtLineStart(file[win])
    PROVE  Backend!StoreNext
<1>. DEFINE c == file[win]
            d == Append(c, TornUtf8)
<1>1. win \in Windows /\ c \in Seq(Tokens)
  BY DEF JsonlInv, FilesOK
<1>2. \A w \in Windows : file'[w] = IF w = win THEN d ELSE file[w]
  BY DEF JsonlInv, FilesOK
<1>3. Parsed(d) = Parsed(c)
  <2>1. Parsed(d) = Parsed(c) \cup ({TornUtf8} \cap Records)
    BY <1>1, TokenFacts, ParsedAppend
  <2>. QED  BY <2>1, TokenFacts
<1>4. ~ReadsAsText(d)
  BY <1>1, TokenFacts, ReadsAppend
<1>. HIDE DEF c, d
<1>5. [w \in Windows |-> Parsed(file'[w])]
      = [[w \in Windows |-> Parsed(file[w])] EXCEPT
            ![win] = [w \in Windows |-> Parsed(file[w])][win] \cup {}]
  BY <1>1, <1>2, <1>3 DEF c
<1>6. {w \in files' : ~ReadsAsText(file'[w])}
      = {w \in files : ~ReadsAsText(file[w])} \cup {win}
  BY <1>2, <1>4 DEF JsonlInv, FilesOK
<1>7. files' = files \cup {win} /\ {} \in SUBSET {r} /\ {} # {r}
  OBVIOUS
<1>8. Backend!StoreTear(win, {r})
  BY <1>5, <1>6, <1>7 DEF Backend!StoreTear
<1>9. {r} \in SUBSET Records
  OBVIOUS
<1>. QED  BY <1>1, <1>8, <1>9 DEF Backend!StoreNext

LEMMA SameFiles ==
    ASSUME UNCHANGED <<files, file>>
    PROVE  UNCHANGED Backend!storeVars
BY DEF Backend!storeVars

LEMMA CloseTailAppends ==
    ASSUME JsonlInv, CloseTail
    PROVE  Backend!StoreNext
<1>1. win \in files /\ files' = files /\ file[win] \in Seq(Tokens)
  BY DEF CloseTail, JsonlInv, FilesOK
<1>2. CASE file' = [file EXCEPT ![win] = Append(file[win], Newline)]
  <2>1. Parsed(Append(file[win], Newline)) = Parsed(file[win]) \cup ({Newline} \cap Records)
    BY <1>1, TokenFacts, ParsedAppend
  <2>2. ReadsAsText(Append(file[win], Newline)) <=> ReadsAsText(file[win])
    BY <1>1, TokenFacts, ReadsAppend
  <2>. QED  BY <1>1, <1>2, <2>1, <2>2, GrowthIsAppend
<1>3. CASE file' = [file EXCEPT ![win] = file[win]]
  <2>1. Parsed(file[win]) = Parsed(file[win]) \cup {}
    OBVIOUS
  <2>. QED  BY <1>1, <1>3, <2>1, GrowthIsAppend
<1>. QED  BY <1>2, <1>3 DEF CloseTail

(* A token of the batch: a record that starts a line, or its newline.      *)
LEMMA WriteAppends ==
    ASSUME JsonlInv, Write
    PROVE  Backend!StoreNext
<1>. DEFINE c == file[win]
            x == Head(todo)
<1>1. /\ win \in files /\ files' = files /\ c \in Seq(Tokens)
      /\ file' = [file EXCEPT ![win] = Append(c, x)]
  BY DEF Write, JsonlInv, FilesOK
<1>2. x = todo[1] /\ x \in Records \cup {Newline}
  <2>1. todo # <<>> /\ todo \in Seq(Tokens)
    BY DEF Write, JsonlInv, CallOK
  <2>2. 1 \in 1..Len(todo) /\ x = todo[1]
    BY <2>1, Emptiness, LenProperties
  <2>. QED  BY <2>2 DEF JsonlInv, TodoInv
<1>3. x \in Tokens /\ (AtLineStart(c) \/ x = Newline)
  BY <1>2, TokenFacts DEF Write, JsonlInv, WriteInv
<1>4. Parsed(Append(c, x)) = Parsed(c) \cup ({x} \cap Records)
  BY <1>1, <1>3, ParsedAppend
<1>5. ReadsAsText(Append(c, x)) <=> ReadsAsText(c)
  BY <1>1, <1>2, <1>3, TokenFacts, ReadsAppend
<1>. QED  BY <1>1, <1>4, <1>5, GrowthIsAppend

LEMMA StopTears ==
    ASSUME JsonlInv, Stops
    PROVE  Backend!StoreNext \/ UNCHANGED Backend!storeVars
<1>1. CASE pc = "write"
  <2>1. PICK d \in Stopped : file' = [file EXCEPT ![win] = d]
    BY <1>1 DEF Stops
  <2>2. /\ win \in files /\ files' = files /\ file[win] \in Seq(Tokens)
        /\ todo \in Seq(Tokens)
    BY <1>1 DEF Stops, JsonlInv, FilesOK, CallOK
  <2>3. CASE d = file[win]
    <3>1. Parsed(d) = Parsed(file[win]) \cup {}
      BY <2>3
    <3>. QED  BY <2>1, <2>2, <2>3, <3>1, GrowthIsAppend
  <2>4. CASE \E x \in {Torn, TornUtf8} :
                d = Append(file[win], x) /\ (x = TornUtf8 => ~Ascii)
    <3>1. PICK x \in {Torn, TornUtf8} : d = Append(file[win], x) /\ (x = TornUtf8 => ~Ascii)
      BY <2>4
    <3>2. CASE d = file[win]
      BY <2>3, <3>2
    <3>3. CASE d # file[win]
      <4>1. todo # <<>> /\ Head(todo) \in Records
        BY <2>1, <2>2, <3>3, CutsAre DEF Stopped
      <4>2. AtLineStart(file[win])
        <5>1. Head(todo) = todo[1]
          BY <2>2, <4>1
        <5>. QED  BY <1>1, <4>1, <5>1 DEF JsonlInv, WriteInv
      <4>3. CASE x = TornUtf8
        BY <2>1, <2>2, <3>1, <4>1, <4>2, <4>3, CutIsTear
      <4>4. CASE x = Torn
        <5>1. Parsed(d) = Parsed(file[win]) \cup ({Torn} \cap Records)
          BY <2>2, <3>1, <4>2, <4>4, TokenFacts, ParsedAppend
        <5>2. ReadsAsText(d) <=> ReadsAsText(file[win])
          BY <2>2, <3>1, <4>4, TokenFacts, ReadsAppend
        <5>. QED  BY <2>1, <2>2, <5>1, <5>2, GrowthIsAppend
      <4>. QED  BY <4>3, <4>4
    <3>. QED  BY <3>2, <3>3
  <2>. QED  BY <2>1, <2>2, <2>3, <2>4, CutsAre DEF Stopped
<1>2. CASE pc # "write"
  BY <1>2, SameFiles DEF Stops
<1>. QED  BY <1>1, <1>2

LEMMA OpenCreates ==
    ASSUME JsonlInv, Open
    PROVE  Backend!StoreNext
<1>1. win \in Windows /\ files' = files \cup {win} /\ file' = file
  BY DEF Open, JsonlInv
<1>2. win \notin files => file[win] = <<>>
  BY <1>1 DEF JsonlInv, FilesOK
<1>3. ReadsAsText(<<>>)
  BY ReadsEmpty
<1>4. {w \in files' : ~ReadsAsText(file'[w])} = {w \in files : ~ReadsAsText(file[w])}
  BY <1>1, <1>2, <1>3
<1>5. [w \in Windows |-> Parsed(file'[w])]
      = [[w \in Windows |-> Parsed(file[w])] EXCEPT
            ![win] = [w \in Windows |-> Parsed(file[w])][win] \cup {}]
  BY <1>1
<1>6. Backend!StoreAppend(win, {})
  BY <1>1, <1>4, <1>5 DEF Backend!StoreAppend
<1>. QED  BY <1>1, <1>6 DEF Backend!StoreNext

LEMMA CommitCommits ==
    ASSUME JsonlInv, NEW w \in Windows, Commit(w)
    PROVE  Backend!StoreNext
<1>1. /\ w \in files /\ ReadsAsText(file[w]) /\ files' = files \ {w}
      /\ file' = [file EXCEPT ![w] = <<>>]
  BY DEF Commit
<1>2. \A v \in Windows : file'[v] = IF v = w THEN <<>> ELSE file[v]
  BY <1>1 DEF JsonlInv, FilesOK
<1>3. Parsed(<<>>) = {}
  BY EmptySeq DEF Parsed
<1>4. [v \in Windows |-> Parsed(file'[v])]
      = [[v \in Windows |-> Parsed(file[v])] EXCEPT ![w] = {}]
  BY <1>2, <1>3
<1>5. {v \in files' : ~ReadsAsText(file'[v])} = {v \in files : ~ReadsAsText(file[v])} \ {w}
  BY <1>1, <1>2 DEF JsonlInv, FilesOK
<1>6. Backend!Readable(w) /\ Backend!StoreCommit(w)
  BY <1>1, <1>4, <1>5 DEF Backend!Readable, Backend!StoreCommit
<1>. QED  BY <1>6 DEF Backend!StoreNext

LEMMA StepRefines ==
    JsonlInv /\ [JsonlNext]_jsonlVars =>
        [OutageStep \/ Backend!StoreNext]_(Backend!storeVars)
<1>. SUFFICES ASSUME JsonlInv, [JsonlNext]_jsonlVars
              PROVE  OutageStep \/ Backend!StoreNext \/ UNCHANGED Backend!storeVars
  OBVIOUS
<1>1. CASE \/ \E w \in Windows, batch \in Batches : CallAppend(w, batch)
           \/ EnsureDir \/ Sync \/ SyncDir \/ Oldest \/ UNCHANGED jsonlVars
  <2>1. UNCHANGED <<files, file>>
    BY <1>1 DEF CallAppend, EnsureDir, Sync, SyncDir, Oldest, jsonlVars, diskVars
  <2>. QED  BY <2>1, SameFiles
<1>2. CASE AppendFails \/ Kill
  <2>1. Stops \/ UNCHANGED <<files, file>>
    BY <1>2, FailuresStop DEF diskVars
  <2>. QED  BY <2>1, StopTears, SameFiles
<1>3. CASE Outage
  BY <1>3 DEF Outage, OutageStep
<1>. QED  BY <1>1, <1>2, <1>3, OpenCreates, CloseTailAppends, WriteAppends, CommitCommits
          DEF JsonlNext

(* Between power failures the files of jsonl.rs do what module Store says: *)
(* an append that stops leaves all, some or none of its batch, in a        *)
(* segment that reads as before or, if records are not ASCII, cannot be    *)
(* read any more; no later append makes that worse, and only commit        *)
(* removes records, from a segment that was read.                          *)
THEOREM FilesAreAStore == JsonlSpec => ImplementsStore
<1>1. JsonlInit => Backend!StoreInit
  <2>. SUFFICES ASSUME JsonlInit PROVE Backend!StoreInit
    OBVIOUS
  <2>1. Parsed(<<>>) = {}
    BY EmptySeq DEF Parsed
  <2>2. files = {} /\ \A w \in Windows : Parsed(file[w]) = {}
    BY <2>1 DEF JsonlInit
  <2>. QED  BY <2>2 DEF Backend!StoreInit
<1>. QED  BY <1>1, StepRefines, JsonlIsInvariant, PTL DEF JsonlSpec, ImplementsStore
=============================================================================
