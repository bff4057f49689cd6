---------------------------- MODULE ClientProofs ----------------------------
(***************************************************************************)
(* Theorems about Client, for every set of paths and received containers   *)
(* and any number of commands and kills: what open writes out was sealed   *)
(* for the opener, what is registered was written, and which steps can     *)
(* replace a private key.                                                  *)
(*                                                                         *)
(* A command is where its list of steps is, so its invariant is about the  *)
(* steps that are still to come: once `checkOut' is not among them, the    *)
(* command has seen its output path without a key; once `writeSealed' is   *)
(* not among them, the container is written.  Steps come in phases -       *)
(* looking and checking, making the container, the main write, the rest -  *)
(* and no list has a step of an earlier phase behind one of a later phase  *)
(* (Ordered).                                                              *)
(***************************************************************************)
EXTENDS Client, SequenceTheorems, TLAPS

Looks  == {"load", "checkOut", "checkPub", "readDoc", "readKeys", "readSealed", "readIdentity"}
Writes == {"writeKey", "writeSealed", "writeText", "emptyImport"}

Phase(step) == IF step \in Looks THEN 0 ELSE IF step = "makeBlob" THEN 1
               ELSE IF step \in Writes THEN 2 ELSE 3

KeygenSteps == {"load", "checkOut", "checkPub", "writeKey", "writePub", "emptyConfig", "writeConfig"}
SealingSteps == {"checkOut", "readDoc", "readKeys", "makeBlob", "writeSealed", "writeSide", "register"}
OpenSteps   == {"checkOut", "readSealed", "readIdentity", "writeText"}
ImportSteps == {"emptyImport", "writeImport"}
Steps == KeygenSteps \cup SealingSteps \cup OpenSteps \cup ImportSteps

Ahead(todo) == {todo[i] : i \in DOMAIN todo}

Ordered(todo) ==
  /\ todo \in Seq(Steps)
  /\ \A i, j \in DOMAIN todo :
       i < j => todo[i] # todo[j] /\ Phase(todo[i]) <= Phase(todo[j])

\* The paths that are checked held no private key at their check.
Guarded(r) ==
  /\ r.out \in OutPaths
  /\ "checkOut" \notin Ahead(r.todo) => r.out \in r.free
  /\ "checkPub" \notin Ahead(r.todo) /\ "writePub" \in Ahead(r.todo) => PubOf[r.out] \in r.free

\* What open reads: a container that was made, or what became of it.
Mixed(blob) == \E b \in made : blob = b \/ blob \in Damaged(b)

KeygenOK(r) ==
  /\ DOMAIN r = {"todo", "out", "inputs", "over", "free", "id", "settings"}
  /\ Ahead(r.todo) \subseteq KeygenSteps
  /\ Guarded(r)

SealOK(r) ==
  /\ DOMAIN r = {"todo", "out", "to", "key", "inputs", "over", "free", "marked",
                 "issuer", "recipient", "text", "blob"}
  /\ Ahead(r.todo) \subseteq SealingSteps
  /\ Guarded(r)
  /\ "makeBlob" \in Ahead(r.todo) =>
       /\ "writeSealed" \in Ahead(r.todo)
       /\ "readDoc" \notin Ahead(r.todo) => r.text = [doc |-> "d", mark |-> 0]
  /\ "makeBlob" \notin Ahead(r.todo) =>
       IF "writeSealed" \in Ahead(r.todo) THEN r.blob \in made
       ELSE r.blob.manifest.file_id \in written

OpenOK(r) ==
  /\ DOMAIN r = {"todo", "in", "out", "key", "inputs", "over", "free", "id", "blob"}
  /\ Ahead(r.todo) \subseteq OpenSteps
  /\ Guarded(r) /\ r.in \in OutPaths
  /\ "readSealed" \notin Ahead(r.todo) => Mixed(r.blob)

ImportOK(r) ==
  /\ DOMAIN r = {"todo", "out", "over", "free", "data"}
  /\ Ahead(r.todo) \subseteq ImportSteps
  /\ ~r.over => r.out \in r.free
  /\ r.out \in Recipients /\ r.data.kind \in {"private", "public"}

CommandOK(r) ==
  \/ r = Idle
  \/ /\ r.todo # << >> /\ Ordered(r.todo)
     /\ KeygenOK(r) \/ SealOK(r) \/ OpenOK(r) \/ ImportOK(r)

\* What a path holds.
FileOK(p) ==
  /\ fs[p].kind = "sealed" => fs[p].blob \in made
  /\ fs[p].kind = "side" => fs[p].file \in written

FilesOK ==
  /\ fs = [p \in Paths |-> fs[p]]
  /\ fs[Doc] = Text([doc |-> "d", mark |-> 0])
  /\ \A p \in Paths : FileOK(p)

MadeOK ==
  /\ \A b \in made : /\ Genuine(b)
                     /\ b.ciphertext.key \in Nat /\ b.ciphertext.key < nextId
                     /\ b.ciphertext.data.mark \in Nat /\ b.ciphertext.data.mark < nextId
  /\ Distinct(made)

ClientInv ==
  /\ nextId \in Nat
  /\ run = [u \in Front |-> run[u]]
  /\ \A u \in Front : CommandOK(run[u])
  /\ FilesOK
  /\ MadeOK
  /\ registered \subseteq written
  /\ OpenedIsSealed
-----------------------------------------------------------------------------
(***************************************************************************)
(* Lists of steps.                                                         *)
(***************************************************************************)
LEMMA StepDone ==
  ASSUME NEW todo, Ordered(todo), todo # << >>
  PROVE  /\ Head(todo) \in Ahead(todo) /\ Head(todo) \in Steps
         /\ \A x \in Ahead(todo) : Phase(Head(todo)) <= Phase(x)
         /\ Len(todo) # 1 => Tail(todo) # << >>
         /\ Ordered(Tail(todo))
         /\ Ahead(Tail(todo)) = Ahead(todo) \ {Head(todo)}
<1>0. /\ todo \in Seq(Steps) /\ Len(todo) \in Nat /\ Len(todo) >= 1
      /\ DOMAIN todo = 1..Len(todo) /\ Head(todo) = todo[1] /\ todo[1] \in Steps
  BY DEF Ordered
<1>1. /\ Tail(todo) \in Seq(Steps) /\ Len(Tail(todo)) = Len(todo) - 1
      /\ DOMAIN Tail(todo) = 1..(Len(todo) - 1)
      /\ \A i \in 1..(Len(todo) - 1) : Tail(todo)[i] = todo[i + 1]
  BY <1>0, HeadTailProperties
<1>2. Head(todo) \in Ahead(todo) /\ Head(todo) \in Steps
  BY <1>0 DEF Ahead
<1>3. ASSUME NEW x \in Ahead(todo)
      PROVE  Phase(Head(todo)) <= Phase(x)
  <2>1. PICK i \in 1..Len(todo) : x = todo[i]
    BY <1>0 DEF Ahead
  <2>2. CASE i = 1
    BY <1>0, <2>1, <2>2 DEF Phase
  <2>3. CASE i # 1
    BY <1>0, <2>1, <2>3 DEF Ordered
  <2> QED
    BY <2>2, <2>3
<1>4. Len(todo) # 1 => Tail(todo) # << >>
  <2>1. Len(<< >>) = 0
    BY EmptySeq
  <2>2. PICK tail : tail = Tail(todo)
    OBVIOUS
  <2>3. Len(tail) = Len(todo) - 1
    BY <1>1, <2>2
  <2>4. Len(todo) # 1 => tail # << >>
    BY <1>0, <2>1, <2>3
  <2> QED
    BY <2>2, <2>4
<1>5. Ordered(Tail(todo))
  <2>1. ASSUME NEW i \in 1..(Len(todo) - 1), NEW j \in 1..(Len(todo) - 1), i < j
        PROVE  /\ Tail(todo)[i] # Tail(todo)[j]
               /\ Phase(Tail(todo)[i]) <= Phase(Tail(todo)[j])
    <3>1. i + 1 \in DOMAIN todo /\ j + 1 \in DOMAIN todo /\ i + 1 < j + 1
      BY <1>0, <2>1
    <3>2. todo[i + 1] # todo[j + 1] /\ Phase(todo[i + 1]) <= Phase(todo[j + 1])
      BY <3>1 DEF Ordered
    <3> QED
      BY <1>1, <3>2
  <2> QED
    BY <1>1, <2>1 DEF Ordered
<1>6. Ahead(Tail(todo)) = Ahead(todo) \ {Head(todo)}
  <2>1. ASSUME NEW x \in Ahead(Tail(todo))
        PROVE  x \in Ahead(todo) \ {Head(todo)}
    <3>1. PICK i \in 1..(Len(todo) - 1) : x = Tail(todo)[i]
      BY <1>1 DEF Ahead
    <3>2. x = todo[i + 1] /\ i + 1 \in DOMAIN todo /\ 1 \in DOMAIN todo /\ 1 < i + 1
      BY <1>0, <1>1, <3>1
    <3>3. x # todo[1]
      BY <3>2 DEF Ordered
    <3> QED
      BY <1>0, <3>2, <3>3 DEF Ahead
  <2>2. ASSUME NEW x \in Ahead(todo) \ {Head(todo)}
        PROVE  x \in Ahead(Tail(todo))
    <3>1. PICK i \in 1..Len(todo) : x = todo[i] /\ i # 1
      BY <1>0 DEF Ahead
    <3>2. i - 1 \in 1..(Len(todo) - 1) /\ x = Tail(todo)[i - 1]
      BY <1>0, <1>1, <3>1
    <3> QED
      BY <1>1, <3>2 DEF Ahead
  <2> QED
    BY <2>1, <2>2
<1> QED
  BY <1>2, <1>3, <1>4, <1>5, <1>6

LEMMA Joined ==
  ASSUME NEW s, NEW t, Ordered(s), Ordered(t),
         \A x \in Ahead(s), y \in Ahead(t) : x # y /\ Phase(x) <= Phase(y)
  PROVE  /\ Ordered(s \o t) /\ Ahead(s \o t) = Ahead(s) \cup Ahead(t)
         /\ t # << >> => s \o t # << >>
<1>0. /\ s \in Seq(Steps) /\ t \in Seq(Steps) /\ Len(s) \in Nat /\ Len(t) \in Nat
      /\ DOMAIN s = 1..Len(s) /\ DOMAIN t = 1..Len(t)
  BY DEF Ordered
<1>1. /\ s \o t \in Seq(Steps) /\ Len(s \o t) = Len(s) + Len(t)
      /\ DOMAIN (s \o t) = 1..(Len(s) + Len(t))
      /\ \A i \in 1..(Len(s) + Len(t)) : (s \o t)[i] = IF i <= Len(s) THEN s[i] ELSE t[i - Len(s)]
  BY <1>0, ConcatProperties
<1>2. ASSUME NEW i \in 1..(Len(s) + Len(t)), NEW j \in 1..(Len(s) + Len(t)), i < j
      PROVE  (s \o t)[i] # (s \o t)[j] /\ Phase((s \o t)[i]) <= Phase((s \o t)[j])
  <2>1. CASE j <= Len(s)
    <3>1. (s \o t)[i] = s[i] /\ (s \o t)[j] = s[j] /\ i \in DOMAIN s /\ j \in DOMAIN s
      BY <1>0, <1>1, <1>2, <2>1
    <3> QED
      BY <1>2, <3>1 DEF Ordered
  <2>2. CASE ~ (j <= Len(s)) /\ i <= Len(s)
    <3>1. (s \o t)[i] = s[i] /\ (s \o t)[j] = t[j - Len(s)]
      BY <1>1, <2>2
    <3>2. i \in DOMAIN s /\ j - Len(s) \in DOMAIN t
      BY <1>0, <2>2
    <3> QED
      BY <3>1, <3>2 DEF Ahead
  <2>3. CASE ~ (j <= Len(s)) /\ ~ (i <= Len(s))
    <3>1. (s \o t)[i] = t[i - Len(s)] /\ (s \o t)[j] = t[j - Len(s)]
      BY <1>1, <2>3
    <3>2. i - Len(s) \in DOMAIN t /\ j - Len(s) \in DOMAIN t /\ i - Len(s) < j - Len(s)
      BY <1>0, <1>2, <2>3
    <3> QED
      BY <3>1, <3>2 DEF Ordered
  <2> QED
    BY <2>1, <2>2, <2>3
<1>3. Ordered(s \o t)
  BY <1>1, <1>2 DEF Ordered
<1>4. Ahead(s \o t) \subseteq Ahead(s) \cup Ahead(t)
  <2>1. ASSUME NEW i \in 1..(Len(s) + Len(t))
        PROVE  (s \o t)[i] \in Ahead(s) \cup Ahead(t)
    <3>1. CASE i <= Len(s)
      BY <1>0, <1>1, <3>1 DEF Ahead
    <3>2. CASE ~ (i <= Len(s))
      <4>1. i - Len(s) \in DOMAIN t /\ (s \o t)[i] = t[i - Len(s)]
        BY <1>0, <1>1, <3>2
      <4> QED
        BY <4>1 DEF Ahead
    <3> QED
      BY <3>1, <3>2
  <2> QED
    BY <1>1, <2>1 DEF Ahead
<1>5. ASSUME NEW x \in Ahead(s) \cup Ahead(t)
      PROVE  x \in Ahead(s \o t)
  <2>1. CASE x \in Ahead(s)
    <3>1. PICK i \in DOMAIN s : x = s[i]
      BY <2>1 DEF Ahead
    <3>2. i \in DOMAIN (s \o t) /\ (s \o t)[i] = x
      BY <1>0, <1>1, <3>1
    <3> QED
      BY <3>2 DEF Ahead
  <2>2. CASE x \in Ahead(t)
    <3>1. PICK i \in DOMAIN t : x = t[i]
      BY <2>2 DEF Ahead
    <3>2. i + Len(s) \in DOMAIN (s \o t) /\ (s \o t)[i + Len(s)] = x
      BY <1>0, <1>1, <3>1
    <3> QED
      BY <3>2 DEF Ahead
  <2> QED
    BY <2>1, <2>2
<1>6. t # << >> => s \o t # << >>
  BY <1>0, <1>1
<1> QED
  BY <1>3, <1>4, <1>5, <1>6

\* The lists of the commands.
LEMMA CommandLists ==
  /\ \A own \in BOOLEAN :
       LET todo == (IF own THEN <<"load">> ELSE << >>)
                   \o <<"checkOut", "checkPub", "writeKey", "writePub">>
                   \o (IF own THEN <<"emptyConfig", "writeConfig">> ELSE << >>)
       IN /\ Ordered(todo) /\ todo # << >> /\ Ahead(todo) \subseteq KeygenSteps
          /\ {"checkOut", "checkPub"} \subseteq Ahead(todo)
  /\ \A u, marked :
       LET todo == SealSteps(u, marked)
       IN /\ Ordered(todo) /\ todo # << >> /\ Ahead(todo) \subseteq SealingSteps
          /\ {"checkOut", "readDoc", "makeBlob", "writeSealed"} \subseteq Ahead(todo)
  /\ \A u :
       LET todo == IF u = "cli" THEN <<"checkOut", "readSealed", "readIdentity", "writeText">>
                   ELSE <<"checkOut", "readIdentity", "readSealed", "writeText">>
       IN /\ Ordered(todo) /\ todo # << >> /\ Ahead(todo) \subseteq OpenSteps
          /\ {"checkOut", "readSealed"} \subseteq Ahead(todo)
  /\ LET todo == <<"emptyImport", "writeImport">>
     IN Ordered(todo) /\ todo # << >> /\ Ahead(todo) \subseteq ImportSteps
<1>0. Ordered(<< >>) /\ Ahead(<< >>) = {}
  BY DEF Ordered, Ahead
<1>1. ASSUME NEW own \in BOOLEAN
      PROVE  LET todo == (IF own THEN <<"load">> ELSE << >>)
                         \o <<"checkOut", "checkPub", "writeKey", "writePub">>
                         \o (IF own THEN <<"emptyConfig", "writeConfig">> ELSE << >>)
             IN /\ Ordered(todo) /\ todo # << >> /\ Ahead(todo) \subseteq KeygenSteps
                /\ {"checkOut", "checkPub"} \subseteq Ahead(todo)
  <2> DEFINE a == IF own THEN <<"load">> ELSE << >>
             b == <<"checkOut", "checkPub", "writeKey", "writePub">>
             c == IF own THEN <<"emptyConfig", "writeConfig">> ELSE << >>
  <2>1. Ordered(a) /\ Ahead(a) \subseteq {"load"}
    <3>1. CASE own
      BY <3>1 DEF Ordered, Ahead, Phase, Steps, KeygenSteps, Looks, Writes
    <3>2. CASE ~ (own)
      BY <1>0, <3>2
    <3> QED
      BY <3>1, <3>2
  <2>2. Ordered(b) /\ Ahead(b) = {"checkOut", "checkPub", "writeKey", "writePub"} /\ b # << >>
    BY DEF Ordered, Ahead, Phase, Steps, KeygenSteps, Looks, Writes
  <2>3. Ordered(c) /\ Ahead(c) \subseteq {"emptyConfig", "writeConfig"}
    <3>1. CASE own
      BY <3>1 DEF Ordered, Ahead, Phase, Steps, KeygenSteps, Looks, Writes
    <3>2. CASE ~ (own)
      BY <1>0, <3>2
    <3> QED
      BY <3>1, <3>2
  <2> HIDE DEF a, b, c
  <2>4. /\ Ordered(a \o b) /\ Ahead(a \o b) = Ahead(a) \cup Ahead(b) /\ a \o b # << >>
    BY <2>1, <2>2, Joined DEF Phase, Looks, Writes
  <2>5. /\ Ordered((a \o b) \o c) /\ Ahead((a \o b) \o c) = Ahead(a \o b) \cup Ahead(c)
    BY <2>1, <2>2, <2>3, <2>4, Joined DEF Phase, Looks, Writes
  <2>6. {"checkOut", "checkPub"} \subseteq Ahead((a \o b) \o c) /\ Ahead((a \o b) \o c) \subseteq KeygenSteps
    BY <2>1, <2>2, <2>3, <2>4, <2>5 DEF KeygenSteps
  <2>7. (a \o b) \o c # << >>
    BY <1>0, <2>6
  <2> QED
    BY <2>5, <2>6, <2>7 DEF a, b, c
<1>2. ASSUME NEW u, NEW marked
      PROVE  LET todo == SealSteps(u, marked)
             IN /\ Ordered(todo) /\ todo # << >> /\ Ahead(todo) \subseteq SealingSteps
                /\ {"checkOut", "readDoc", "makeBlob", "writeSealed"} \subseteq Ahead(todo)
  <2> DEFINE a == IF u = "rich" THEN <<"readKeys", "readDoc", "checkOut">>
                  ELSE <<"checkOut", "readDoc", "readKeys">>
             b == <<"makeBlob", "writeSealed">>
             c == IF u = "gui" /\ ~marked THEN << >> ELSE <<"writeSide">>
             d == IF u = "gui" THEN << >> ELSE <<"register">>
  <2>1. Ordered(a) /\ Ahead(a) = {"checkOut", "readDoc", "readKeys"}
    <3>1. CASE u = "rich"
      BY <3>1 DEF Ordered, Ahead, Phase, Steps, SealingSteps, Looks
    <3>2. CASE u # "rich"
      BY <3>2 DEF Ordered, Ahead, Phase, Steps, SealingSteps, Looks
    <3> QED
      BY <3>1, <3>2
  <2>2. Ordered(b) /\ Ahead(b) = {"makeBlob", "writeSealed"}
    BY DEF Ordered, Ahead, Phase, Steps, SealingSteps, Looks, Writes
  <2>3. Ordered(c) /\ Ahead(c) \subseteq {"writeSide"}
    <3>1. CASE ~ (u = "gui" /\ ~marked)
      <4>1. c = <<"writeSide">>
        BY <3>1
      <4>2. Ordered(<<"writeSide">>) /\ Ahead(<<"writeSide">>) = {"writeSide"}
        BY DEF Ordered, Ahead, Phase, Steps, SealingSteps, Looks, Writes
      <4> HIDE DEF c
      <4> QED
        BY <4>1, <4>2
    <3>2. CASE ~ (~ (u = "gui" /\ ~marked))
      BY <1>0, <3>2
    <3> QED
      BY <3>1, <3>2
  <2>4. Ordered(d) /\ Ahead(d) \subseteq {"register"}
    <3>1. CASE ~ (u = "gui")
      BY <3>1 DEF Ordered, Ahead, Phase, Steps, SealingSteps, Looks, Writes
    <3>2. CASE ~ (~ (u = "gui"))
      BY <1>0, <3>2
    <3> QED
      BY <3>1, <3>2
  <2> HIDE DEF a, b, c, d
  <2>5. Ordered(a \o b) /\ Ahead(a \o b) = Ahead(a) \cup Ahead(b)
    BY <2>1, <2>2, Joined DEF Phase, Looks, Writes
  <2>6. Ordered((a \o b) \o c) /\ Ahead((a \o b) \o c) = Ahead(a \o b) \cup Ahead(c)
    BY <2>1, <2>2, <2>3, <2>5, Joined DEF Phase, Looks, Writes
  <2>7. /\ Ordered(((a \o b) \o c) \o d)
        /\ Ahead(((a \o b) \o c) \o d) = Ahead((a \o b) \o c) \cup Ahead(d)
    BY <2>1, <2>2, <2>3, <2>4, <2>5, <2>6, Joined DEF Phase, Looks, Writes
  <2>8. /\ {"checkOut", "readDoc", "makeBlob", "writeSealed"} \subseteq Ahead(((a \o b) \o c) \o d)
        /\ Ahead(((a \o b) \o c) \o d) \subseteq SealingSteps
    BY <2>1, <2>2, <2>3, <2>4, <2>5, <2>6, <2>7 DEF SealingSteps
  <2>9. ((a \o b) \o c) \o d # << >>
    BY <1>0, <2>8
  <2> QED
    BY <2>7, <2>8, <2>9 DEF SealSteps, a, b, c, d
<1>3. ASSUME NEW u
      PROVE  LET todo == IF u = "cli" THEN <<"checkOut", "readSealed", "readIdentity", "writeText">>
                         ELSE <<"checkOut", "readIdentity", "readSealed", "writeText">>
             IN /\ Ordered(todo) /\ todo # << >> /\ Ahead(todo) \subseteq OpenSteps
                /\ {"checkOut", "readSealed"} \subseteq Ahead(todo)
  <2>1. CASE u = "cli"
    BY <2>1 DEF Ordered, Ahead, Phase, Steps, OpenSteps, Looks, Writes
  <2>2. CASE u # "cli"
    BY <2>2 DEF Ordered, Ahead, Phase, Steps, OpenSteps, Looks, Writes
  <2> QED
    BY <2>1, <2>2
<1>4. LET todo == <<"emptyImport", "writeImport">>
      IN Ordered(todo) /\ todo # << >> /\ Ahead(todo) \subseteq ImportSteps
  BY DEF Ordered, Ahead, Phase, Steps, ImportSteps, Looks, Writes
<1> QED
  BY <1>1, <1>2, <1>3, <1>4
-----------------------------------------------------------------------------
(***************************************************************************)
(* Commands.                                                               *)
(***************************************************************************)
\* A command after its first step, which sets the fields of `got' (Go).
After(r, got) ==
  IF Len(r.todo) = 1 THEN Idle
  ELSE [f \in DOMAIN r |-> IF f = "todo" THEN Tail(r.todo)
                           ELSE IF f \in DOMAIN got THEN got[f] ELSE r[f]]

\* What every step leaves to the other commands: history grows.
Grows ==
  /\ nextId \in Nat /\ nextId' \in Nat /\ nextId <= nextId'
  /\ made \subseteq made' /\ written \subseteq written'

LEMMA GuardedStays ==
  ASSUME NEW r, Guarded(r)
  PROVE  Guarded(r)'
BY DEF Guarded

LEMMA MixedStays ==
  ASSUME Grows, NEW blob, Mixed(blob)
  PROVE  Mixed(blob)'
<1>1. PICK b \in made : blob = b \/ blob \in Damaged(b)
  BY DEF Mixed
<1>2. b \in made'
  BY DEF Grows
<1>3. CASE blob = b
  BY <1>2, <1>3 DEF Mixed
<1>4. CASE blob \in Damaged(b)
  <2>1. PICK other \in made :
          blob \in {[b EXCEPT !.manifest = other.manifest],
                    [b EXCEPT !.wrapped = other.wrapped],
                    [b EXCEPT !.ciphertext = other.ciphertext, !.nonce = other.nonce],
                    [b EXCEPT !.manifest.recipient = other.manifest.recipient],
                    [b EXCEPT !.manifest.file_id = other.manifest.file_id],
                    [b EXCEPT !.wrapped = [slots |-> <<other.wrapped, @>>]],
                    [b EXCEPT !.manifest = Malformed],
                    [b EXCEPT !.suite = "OSGT-HYBRID-v1"],
                    [b EXCEPT !.whole = FALSE]}
    BY <1>4, Zenon DEF Damaged
  <2>2. other \in made'
    BY DEF Grows
  <2>3. blob \in Damaged(b)'
    BY <2>1, <2>2, Zenon DEF Damaged
  <2> QED
    BY <1>2, <2>3, Zenon DEF Mixed
<1> QED
  BY <1>1, <1>3, <1>4

LEMMA CommandStays ==
  ASSUME Grows, NEW r, CommandOK(r)
  PROVE  CommandOK(r)'
<1>1. CASE r = Idle
  BY <1>1 DEF CommandOK
<1>2. CASE KeygenOK(r) /\ r # Idle
  <2>1. KeygenOK(r)'
    BY <1>2, GuardedStays DEF KeygenOK
  <2> QED
    BY <1>2, <2>1 DEF CommandOK
<1>3. CASE SealOK(r) /\ r # Idle
  <2>1. SealOK(r)'
    BY <1>3, GuardedStays DEF SealOK, Grows
  <2> QED
    BY <1>3, <2>1 DEF CommandOK
<1>4. CASE OpenOK(r) /\ r # Idle
  <2>1. OpenOK(r)'
    BY <1>4, GuardedStays, MixedStays DEF OpenOK
  <2> QED
    BY <1>4, <2>1 DEF CommandOK
<1>5. CASE ImportOK(r) /\ r # Idle
  <2>1. ImportOK(r)'
    BY <1>5 DEF ImportOK
  <2> QED
    BY <1>5, <2>1 DEF CommandOK
<1> QED
  BY <1>1, <1>2, <1>3, <1>4, <1>5 DEF CommandOK

\* The steps of a command after one of them.
LEMMA AfterFacts ==
  ASSUME NEW r, NEW got, NEW n, n = After(r, got), "todo" \in DOMAIN r,
         r.todo # << >>, Ordered(r.todo)
  PROVE  \/ n = Idle
         \/ /\ n.todo # << >> /\ Ordered(n.todo) /\ DOMAIN n = DOMAIN r
            /\ Ahead(n.todo) = Ahead(r.todo) \ {Head(r.todo)}
            /\ \A f \in DOMAIN r \ {"todo"} :
                 n[f] = IF f \in DOMAIN got THEN got[f] ELSE r[f]
<1>1. CASE Len(r.todo) = 1
  BY <1>1 DEF After
<1>2. CASE Len(r.todo) # 1
  <2>1. /\ DOMAIN n = DOMAIN r /\ n.todo = Tail(r.todo)
        /\ \A f \in DOMAIN r \ {"todo"} : n[f] = IF f \in DOMAIN got THEN got[f] ELSE r[f]
    BY <1>2 DEF After
  <2> QED
    BY <1>2, <2>1, StepDone
<1> QED
  BY <1>1, <1>2

\* A check of an output path, or a step behind it, keeps the paths guarded.
LEMMA GuardedGoes ==
  ASSUME NEW r, NEW n, Guarded(r), n.out = r.out,
         NEW s, Ahead(n.todo) = Ahead(r.todo) \ {s}, r.free \subseteq n.free,
         s = "checkOut" => r.out \in n.free,
         s = "checkPub" => PubOf[r.out] \in n.free
  PROVE  Guarded(n)'
BY DEF Guarded

\* What a step of a command sets: a check that succeeds has seen its path.
Checked(r, got) ==
  /\ "out" \notin DOMAIN got
  /\ "free" \in DOMAIN got => r.free \subseteq got.free
  /\ Head(r.todo) = "checkOut" => "free" \in DOMAIN got /\ r.out \in got.free
  /\ Head(r.todo) = "checkPub" => "free" \in DOMAIN got /\ PubOf[r.out] \in got.free

LEMMA KeygenGoes ==
  ASSUME Grows, NEW r, r.todo # << >>, Ordered(r.todo), KeygenOK(r),
         NEW got, Checked(r, got), NEW n, n = After(r, got)
  PROVE  CommandOK(n)'
<1>1. CASE n = Idle
  BY <1>1 DEF CommandOK
<1>2. CASE n # Idle
  <2>1. /\ n.todo # << >> /\ Ordered(n.todo) /\ DOMAIN n = DOMAIN r
        /\ Ahead(n.todo) = Ahead(r.todo) \ {Head(r.todo)}
        /\ \A f \in DOMAIN r \ {"todo"} : n[f] = IF f \in DOMAIN got THEN got[f] ELSE r[f]
    BY <1>2, AfterFacts DEF KeygenOK
  <2>2. n.out = r.out /\ n.free = IF "free" \in DOMAIN got THEN got.free ELSE r.free
    BY <2>1 DEF KeygenOK, Checked
  <2>3. Guarded(n)'
    <3>1. PICK s : s = Head(r.todo)
      OBVIOUS
    <3>2. /\ r.free \subseteq n.free
          /\ s = "checkOut" => r.out \in n.free
          /\ s = "checkPub" => PubOf[r.out] \in n.free
      BY <2>2, <3>1 DEF Checked
    <3>3. Guarded(r) /\ n.out = r.out /\ Ahead(n.todo) = Ahead(r.todo) \ {s}
      BY <2>1, <2>2, <3>1 DEF KeygenOK
    <3> QED
      BY <3>2, <3>3, GuardedGoes
  <2>4. KeygenOK(n)'
    BY <2>1, <2>3 DEF KeygenOK
  <2> QED
    BY <2>1, <2>4 DEF CommandOK
<1> QED
  BY <1>1, <1>2

LEMMA SealGoes ==
  ASSUME Grows, NEW r, r.todo # << >>, Ordered(r.todo), SealOK(r),
         NEW got, Checked(r, got), NEW n, n = After(r, got),
         IF Head(r.todo) = "readDoc"
           THEN "text" \in DOMAIN got /\ got.text = [doc |-> "d", mark |-> 0]
           ELSE "text" \notin DOMAIN got,
         IF Head(r.todo) = "makeBlob" THEN "blob" \in DOMAIN got /\ got.blob \in made'
         ELSE "blob" \notin DOMAIN got,
         Head(r.todo) = "writeSealed" => r.blob.manifest.file_id \in written'
  PROVE  CommandOK(n)'
<1>1. CASE n = Idle
  BY <1>1 DEF CommandOK
<1>2. CASE n # Idle
  <2>1. /\ n.todo # << >> /\ Ordered(n.todo) /\ DOMAIN n = DOMAIN r
        /\ Ahead(n.todo) = Ahead(r.todo) \ {Head(r.todo)}
        /\ \A f \in DOMAIN r \ {"todo"} : n[f] = IF f \in DOMAIN got THEN got[f] ELSE r[f]
    BY <1>2, AfterFacts DEF SealOK
  <2>2. /\ n.out = r.out /\ n.free = IF "free" \in DOMAIN got THEN got.free ELSE r.free
        /\ n.text = IF "text" \in DOMAIN got THEN got.text ELSE r.text
        /\ n.blob = IF "blob" \in DOMAIN got THEN got.blob ELSE r.blob
    BY <2>1 DEF SealOK, Checked
  <2>3. Guarded(n)'
    <3>1. PICK s : s = Head(r.todo)
      OBVIOUS
    <3>2. /\ r.free \subseteq n.free
          /\ s = "checkOut" => r.out \in n.free
          /\ s = "checkPub" => PubOf[r.out] \in n.free
      BY <2>2, <3>1 DEF Checked
    <3>3. Guarded(r) /\ n.out = r.out /\ Ahead(n.todo) = Ahead(r.todo) \ {s}
      BY <2>1, <2>2, <3>1 DEF SealOK
    <3> QED
      BY <3>2, <3>3, GuardedGoes
  <2>4. Head(r.todo) \in Ahead(r.todo) /\ \A x \in Ahead(r.todo) : Phase(Head(r.todo)) <= Phase(x)
    BY StepDone
  <2>5. Head(r.todo) = "writeSealed" => "makeBlob" \notin Ahead(r.todo)
    BY <2>4 DEF Phase, Looks, Writes
  <2>6. "makeBlob" \in Ahead(n.todo) =>
          /\ "writeSealed" \in Ahead(n.todo)
          /\ "readDoc" \notin Ahead(n.todo) => n.text = [doc |-> "d", mark |-> 0]
    BY <2>1, <2>2, <2>5 DEF SealOK
  <2>7. "makeBlob" \notin Ahead(n.todo) =>
          IF "writeSealed" \in Ahead(n.todo) THEN n.blob \in made'
          ELSE n.blob.manifest.file_id \in written'
    <3>1. CASE Head(r.todo) = "makeBlob"
      BY <2>1, <2>2, <2>4, <3>1 DEF SealOK
    <3>2. CASE Head(r.todo) = "writeSealed"
      BY <2>1, <2>2, <3>2
    <3>3. CASE Head(r.todo) \notin {"makeBlob", "writeSealed"}
      BY <2>1, <2>2, <3>3 DEF SealOK, Grows
    <3> QED
      BY <3>1, <3>2, <3>3
  <2>8. SealOK(n)'
    BY <2>1, <2>3, <2>6, <2>7 DEF SealOK
  <2> QED
    BY <2>1, <2>8 DEF CommandOK
<1> QED
  BY <1>1, <1>2

LEMMA OpenGoes ==
  ASSUME Grows, NEW r, r.todo # << >>, Ordered(r.todo), OpenOK(r),
         NEW got, Checked(r, got), "in" \notin DOMAIN got, NEW n, n = After(r, got),
         IF Head(r.todo) = "readSealed" THEN "blob" \in DOMAIN got /\ Mixed(got.blob)
         ELSE "blob" \notin DOMAIN got
  PROVE  CommandOK(n)'
<1>1. CASE n = Idle
  BY <1>1 DEF CommandOK
<1>2. CASE n # Idle
  <2>1. /\ n.todo # << >> /\ Ordered(n.todo) /\ DOMAIN n = DOMAIN r
        /\ Ahead(n.todo) = Ahead(r.todo) \ {Head(r.todo)}
        /\ \A f \in DOMAIN r \ {"todo"} : n[f] = IF f \in DOMAIN got THEN got[f] ELSE r[f]
    BY <1>2, AfterFacts DEF OpenOK
  <2>2. /\ n.out = r.out /\ n.free = IF "free" \in DOMAIN got THEN got.free ELSE r.free
        /\ n.in = r.in /\ n.blob = IF "blob" \in DOMAIN got THEN got.blob ELSE r.blob
    BY <2>1 DEF OpenOK, Checked
  <2>3. Guarded(n)'
    <3>1. PICK s : s = Head(r.todo)
      OBVIOUS
    <3>2. /\ r.free \subseteq n.free
          /\ s = "checkOut" => r.out \in n.free
          /\ s = "checkPub" => PubOf[r.out] \in n.free
      BY <2>2, <3>1 DEF Checked
    <3>3. Guarded(r) /\ n.out = r.out /\ Ahead(n.todo) = Ahead(r.todo) \ {s}
      BY <2>1, <2>2, <3>1 DEF OpenOK
    <3> QED
      BY <3>2, <3>3, GuardedGoes
  <2>4. "readSealed" \notin Ahead(n.todo) => Mixed(n.blob)
    BY <2>1, <2>2 DEF OpenOK
  <2>5. "readSealed" \notin Ahead(n.todo) => Mixed(n.blob)'
    BY <2>4, MixedStays
  <2>6. OpenOK(n)'
    BY <2>1, <2>2, <2>3, <2>5 DEF OpenOK
  <2> QED
    BY <2>1, <2>6 DEF CommandOK
<1> QED
  BY <1>1, <1>2

LEMMA ImportGoes ==
  ASSUME Grows, NEW r, r.todo # << >>, Ordered(r.todo), ImportOK(r),
         NEW n, n = After(r, Nothing)
  PROVE  CommandOK(n)'
<1>1. CASE n = Idle
  BY <1>1 DEF CommandOK
<1>2. CASE n # Idle
  <2>1. /\ n.todo # << >> /\ Ordered(n.todo) /\ DOMAIN n = DOMAIN r
        /\ Ahead(n.todo) = Ahead(r.todo) \ {Head(r.todo)}
        /\ \A f \in DOMAIN r \ {"todo"} : n[f] = r[f]
    BY <1>2, AfterFacts DEF ImportOK, Nothing
  <2>2. ImportOK(n)'
    BY <2>1 DEF ImportOK
  <2> QED
    BY <2>1, <2>2 DEF CommandOK
<1> QED
  BY <1>1, <1>2

\* The step that a command is at tells which command it is.
LEMMA KindOfCommand ==
  ASSUME NEW r, CommandOK(r), r.todo # << >>
  PROVE  /\ r # Idle /\ Ordered(r.todo)
         /\ Head(r.todo) \in KeygenSteps \ {"checkOut"} => KeygenOK(r)
         /\ Head(r.todo) \in SealingSteps \ {"checkOut"} => SealOK(r)
         /\ Head(r.todo) \in OpenSteps \ {"checkOut"} => OpenOK(r)
         /\ Head(r.todo) \in ImportSteps => ImportOK(r)
         /\ Head(r.todo) \in {"checkOut", "checkPub"} => KeygenOK(r) \/ SealOK(r) \/ OpenOK(r)
<1>1. r # Idle
  BY DEF Idle
<1>2. Ordered(r.todo) /\ (KeygenOK(r) \/ SealOK(r) \/ OpenOK(r) \/ ImportOK(r))
  BY <1>1 DEF CommandOK
<1>3. Head(r.todo) \in Ahead(r.todo)
  BY <1>2, StepDone
<1>4. /\ KeygenOK(r) => Head(r.todo) \in KeygenSteps
      /\ SealOK(r) => Head(r.todo) \in SealingSteps
      /\ OpenOK(r) => Head(r.todo) \in OpenSteps
      /\ ImportOK(r) => Head(r.todo) \in ImportSteps
  BY <1>3 DEF KeygenOK, SealOK, OpenOK, ImportOK
<1> QED
  BY <1>1, <1>2, <1>4 DEF KeygenSteps, SealingSteps, OpenSteps, ImportSteps

\* At the main write the output path has been checked, and so has the path of
\* the public key when it is written.
LEMMA WriteGuarded ==
  ASSUME NEW r, r.todo # << >>, Ordered(r.todo), Guarded(r)
  PROVE  /\ Head(r.todo) \in Writes => r.out \in r.free
         /\ Head(r.todo) = "writePub" => PubOf[r.out] \in r.free
<1>1. Head(r.todo) \in Ahead(r.todo) /\ \A x \in Ahead(r.todo) : Phase(Head(r.todo)) <= Phase(x)
  BY StepDone
<1>2. CASE Head(r.todo) \in Writes
  <2>1. "checkOut" \notin Ahead(r.todo)
    BY <1>1, <1>2 DEF Phase, Looks, Writes
  <2> QED
    BY <1>2, <2>1 DEF Guarded, Writes
<1>3. CASE Head(r.todo) = "writePub"
  <2>1. "checkPub" \notin Ahead(r.todo)
    BY <1>1, <1>3 DEF Phase, Looks, Writes
  <2> QED
    BY <1>1, <1>3, <2>1 DEF Guarded, Writes
<1> QED
  BY <1>2, <1>3
-----------------------------------------------------------------------------
(***************************************************************************)
(* Containers.                                                             *)
(***************************************************************************)
LEMMA FieldsOfManifest ==
  ManifestFields = {"file_id", "suite", "content_hash", "canonical_content_hash", "issuer",
                    "recipient", "watermarks", "not_after", "signature"}
BY DEF ManifestFields, NewManifest

LEMMA GenuineFacts ==
  ASSUME NEW b, Genuine(b)
  PROVE  LET m == b.manifest  c == b.ciphertext IN
         /\ DOMAIN b = {"whole", "suite", "manifest", "wrapped", "nonce", "ciphertext"}
         /\ DOMAIN m = ManifestFields /\ m = [f \in ManifestFields |-> m[f]]
         /\ m.signature = [by |-> m.issuer, of |-> CanonicalBytes(m)]
         /\ m.content_hash = ContentHash(c.data)
         /\ "slots" \notin DOMAIN b.wrapped
         /\ b.wrapped.suite = "OSGT-CLASSIC-v1" =>
              b.wrapped.box.key = Kek("OSGT-CLASSIC-v1", m.recipient) /\ b.wrapped.box.data = c.key
<1>1. PICK m, c : m = b.manifest /\ c = b.ciphertext
  OBVIOUS
<1>2. /\ DOMAIN m = ManifestFields
      /\ b = [whole |-> TRUE, suite |-> b.suite, manifest |-> Sign(m, m.issuer),
              wrapped |-> b.wrapped, nonce |-> c.nonce,
              ciphertext |-> AeadEncrypt(c.key, c.nonce, c.data, m.content_hash)]
      /\ m.content_hash = ContentHash(c.data)
      /\ b.wrapped \in {WrapDekForRecipient(c.key, c.nonce, m.recipient),
                        WrapDekForRecipientP256(c.key, c.nonce, m.recipient),
                        HybridWrapDek(c.key, c.nonce, m.recipient)}
  BY <1>1 DEF Genuine
<1>3. DOMAIN b = {"whole", "suite", "manifest", "wrapped", "nonce", "ciphertext"}
  BY <1>2
<1>4. m = Sign(m, m.issuer)
  BY <1>1, <1>2
<1>5. m = [f \in ManifestFields |-> m[f]]
  BY <1>2, <1>4 DEF Sign
<1>6. m.signature = [by |-> m.issuer, of |-> CanonicalBytes(m)]
  BY <1>2, <1>4, FieldsOfManifest DEF Sign
<1>7. /\ "slots" \notin DOMAIN b.wrapped
      /\ b.wrapped.suite = "OSGT-CLASSIC-v1" =>
           b.wrapped.box.key = Kek("OSGT-CLASSIC-v1", m.recipient) /\ b.wrapped.box.data = c.key
  BY <1>2 DEF WrapDekForRecipient, WrapDekForRecipientP256, HybridWrapDek, AeadEncrypt
<1> QED
  BY <1>1, <1>2, <1>3, <1>5, <1>6, <1>7

\* The signature covers every field, so a changed field is the same.
LEMMA SignatureCovers ==
  ASSUME NEW b, Genuine(b), NEW f \in {"recipient", "file_id"}, NEW v,
         NEW m, m = [b.manifest EXCEPT ![f] = v], Verify(m)
  PROVE  m = b.manifest
<1>1. PICK o : o = b.manifest
  OBVIOUS
<1>2. /\ DOMAIN o = ManifestFields /\ o = [g \in ManifestFields |-> o[g]]
      /\ o.signature = [by |-> o.issuer, of |-> CanonicalBytes(o)]
  BY <1>1, GenuineFacts
<1>3. /\ DOMAIN m = ManifestFields /\ m[f] = v /\ m.signature = o.signature
      /\ \A g \in ManifestFields : g # f => m[g] = o[g]
  BY <1>1, <1>2, FieldsOfManifest
<1>4. CanonicalBytes(m) = CanonicalBytes(o)
  BY <1>2, <1>3 DEF Verify
<1>5. CanonicalBytes(m)[f] = v /\ CanonicalBytes(o)[f] = o[f]
  BY <1>2, <1>3, FieldsOfManifest DEF CanonicalBytes
<1>6. v = o[f]
  BY <1>4, <1>5
<1> QED
  BY <1>1, <1>2, <1>6

LEMMA UnwrapFacts ==
  ASSUME NEW w, NEW id, UnwrapDek(w, id) # Failed
  PROVE  /\ w.suite = "OSGT-CLASSIC-v1" /\ w.box.key = Kek("OSGT-CLASSIC-v1", id)
         /\ UnwrapDek(w, id) = w.box.data
BY DEF UnwrapDek, AeadDecrypt

\* A key recovered from a list of two slots is of one of them.
LEMMA RecoverFacts ==
  ASSUME NEW x, NEW y, NEW w, w = [slots |-> <<x, y>>], NEW id, RecoverDek(w, id) # Failed
  PROVE  \E z \in {x, y} : RecoverDek(w, id) = UnwrapDek(z, id)
<1> DEFINE good == {i \in DOMAIN w.slots : UnwrapDek(w.slots[i], id) # Failed}
<1>1. w.slots = <<x, y>> /\ DOMAIN w.slots = 1..2 /\ "slots" \in DOMAIN w
  OBVIOUS
<1>2. good # {} /\ good \subseteq 1..2
  BY <1>1 DEF RecoverDek
<1>3. \E i \in good : \A j \in good : i <= j
  BY <1>2
<1>4. (CHOOSE i \in good : \A j \in good : i <= j) \in 1..2
  BY <1>2, <1>3
<1>5. RecoverDek(w, id) = UnwrapDek(w.slots[CHOOSE i \in good : \A j \in good : i <= j], id)
  BY <1>1, <1>2 DEF RecoverDek
<1> HIDE DEF good
<1>6. PICK k \in 1..2 : RecoverDek(w, id) = UnwrapDek(w.slots[k], id)
  BY <1>4, <1>5
<1> QED
  BY <1>1, <1>6

LEMMA OpenFacts ==
  ASSUME NEW blob, NEW id, OpenSealed(blob, id, Now) # Failed
  PROVE  /\ blob.manifest # Malformed /\ Verify(blob.manifest)
         /\ RecoverDek(blob.wrapped, id) # Failed
         /\ RecoverDek(blob.wrapped, id) = blob.ciphertext.key
         /\ OpenSealed(blob, id, Now) = blob.ciphertext.data
         /\ blob.manifest.content_hash = ContentHash(blob.ciphertext.data)
<1>1. FromBytes(blob) # Failed /\ Verify(blob.manifest)
  BY DEF OpenSealed
<1>2. OpenSealed(blob, id, Now) = Decrypted(blob, id) /\ Decrypted(blob, id) # Failed
  BY <1>1 DEF OpenSealed
<1>3. blob.manifest # Malformed
  BY <1>1 DEF FromBytes, ManifestFromJson
<1> QED
  BY <1>1, <1>2, <1>3 DEF Decrypted, AeadDecrypt

\* The parts of what open accepts are parts of containers that were made.
LEMMA PartsWereMade ==
  ASSUME \A b \in made : Genuine(b), NEW blob, Mixed(blob),
         blob.manifest # Malformed, Verify(blob.manifest)
  PROVE  \E b1, b2, b3, b4 \in made :
           /\ blob.manifest = b1.manifest
           /\ blob.ciphertext = b2.ciphertext
           /\ blob.wrapped \in {b3.wrapped, [slots |-> <<b4.wrapped, b3.wrapped>>]}
<1>1. PICK b \in made : blob = b \/ blob \in Damaged(b)
  BY DEF Mixed
<1>2. DOMAIN b = {"whole", "suite", "manifest", "wrapped", "nonce", "ciphertext"}
  BY GenuineFacts
<1>3. CASE blob = b
  BY <1>3
<1>4. CASE blob \in Damaged(b)
  <2>1. PICK other \in made :
          blob \in {[b EXCEPT !.manifest = other.manifest],
                    [b EXCEPT !.wrapped = other.wrapped],
                    [b EXCEPT !.ciphertext = other.ciphertext, !.nonce = other.nonce],
                    [b EXCEPT !.manifest.recipient = other.manifest.recipient],
                    [b EXCEPT !.manifest.file_id = other.manifest.file_id],
                    [b EXCEPT !.wrapped = [slots |-> <<other.wrapped, @>>]],
                    [b EXCEPT !.manifest = Malformed],
                    [b EXCEPT !.suite = "OSGT-HYBRID-v1"],
                    [b EXCEPT !.whole = FALSE]}
    BY <1>4, Zenon DEF Damaged
  <2>2. CASE blob = [b EXCEPT !.manifest = other.manifest]
    <3>1. /\ blob.manifest = other.manifest /\ blob.ciphertext = b.ciphertext
          /\ blob.wrapped = b.wrapped
      BY <1>2, <2>2
    <3> QED
      BY <3>1
  <2>3. CASE blob = [b EXCEPT !.wrapped = other.wrapped]
    <3>1. /\ blob.manifest = b.manifest /\ blob.ciphertext = b.ciphertext
          /\ blob.wrapped = other.wrapped
      BY <1>2, <2>3
    <3> QED
      BY <3>1
  <2>4. CASE blob = [b EXCEPT !.ciphertext = other.ciphertext, !.nonce = other.nonce]
    <3>1. /\ blob.manifest = b.manifest /\ blob.ciphertext = other.ciphertext
          /\ blob.wrapped = b.wrapped
      BY <1>2, <2>4
    <3> QED
      BY <3>1
  <2>5. CASE blob = [b EXCEPT !.manifest.recipient = other.manifest.recipient]
    <3>1. /\ blob.manifest = [b.manifest EXCEPT !["recipient"] = other.manifest.recipient]
          /\ blob.ciphertext = b.ciphertext /\ blob.wrapped = b.wrapped
      BY <1>2, <2>5
    <3>2. blob.manifest = b.manifest
      BY <3>1, SignatureCovers
    <3> QED
      BY <3>1, <3>2
  <2>6. CASE blob = [b EXCEPT !.manifest.file_id = other.manifest.file_id]
    <3>1. /\ blob.manifest = [b.manifest EXCEPT !["file_id"] = other.manifest.file_id]
          /\ blob.ciphertext = b.ciphertext /\ blob.wrapped = b.wrapped
      BY <1>2, <2>6
    <3>2. blob.manifest = b.manifest
      BY <3>1, SignatureCovers
    <3> QED
      BY <3>1, <3>2
  <2>7. CASE blob = [b EXCEPT !.wrapped = [slots |-> <<other.wrapped, @>>]]
    <3>1. /\ blob.manifest = b.manifest /\ blob.ciphertext = b.ciphertext
          /\ blob.wrapped = [slots |-> <<other.wrapped, b.wrapped>>]
      BY <1>2, <2>7
    <3> QED
      BY <3>1
  <2>8. CASE blob = [b EXCEPT !.manifest = Malformed]
    BY <1>2, <2>8
  <2>9. CASE blob = [b EXCEPT !.suite = "OSGT-HYBRID-v1"] \/ blob = [b EXCEPT !.whole = FALSE]
    <3>1. /\ blob.manifest = b.manifest /\ blob.ciphertext = b.ciphertext
          /\ blob.wrapped = b.wrapped
      BY <1>2, <2>9
    <3> QED
      BY <3>1
  <2> QED
    BY <2>1, <2>2, <2>3, <2>4, <2>5, <2>6, <2>7, <2>8, <2>9
<1> QED
  BY <1>1, <1>3, <1>4

\* What open_sealed returns was sealed for the one who opens it.
LEMMA OpenReturnsSealed ==
  ASSUME MadeOK, NEW blob, Mixed(blob), NEW id, NEW text,
         text = OpenSealed(blob, id, Now), text # Failed
  PROVE  /\ \E b \in made : b.manifest = blob.manifest /\ b.ciphertext.data = text
         /\ \E b \in made : b.manifest.recipient = id /\ b.ciphertext.data = text
         /\ text.mark # 0 => blob.manifest.recipient = id
<1>0. \A b \in made : Genuine(b)
  BY DEF MadeOK
<1>1. /\ blob.manifest # Malformed /\ Verify(blob.manifest)
      /\ RecoverDek(blob.wrapped, id) # Failed
      /\ RecoverDek(blob.wrapped, id) = blob.ciphertext.key
      /\ text = blob.ciphertext.data
      /\ blob.manifest.content_hash = ContentHash(blob.ciphertext.data)
  BY OpenFacts
<1>2. PICK b1, b2, b3, b4 \in made :
           /\ blob.manifest = b1.manifest
           /\ blob.ciphertext = b2.ciphertext
           /\ blob.wrapped \in {b3.wrapped, [slots |-> <<b4.wrapped, b3.wrapped>>]}
  BY <1>0, <1>1, PartsWereMade
<1>3. b1.ciphertext.data = text
  <2>1. b1.manifest.content_hash = ContentHash(b1.ciphertext.data)
    BY <1>0, GenuineFacts
  <2>2. ContentHash(text) = ContentHash(b1.ciphertext.data)
    BY <1>1, <1>2, <2>1
  <2> QED
    BY <2>2 DEF ContentHash
<1>4. \E b \in made : RecoverDek(blob.wrapped, id) = UnwrapDek(b.wrapped, id)
  <2>1. CASE blob.wrapped = b3.wrapped
    <3>1. "slots" \notin DOMAIN b3.wrapped
      BY <1>0, GenuineFacts
    <3> QED
      BY <2>1, <3>1 DEF RecoverDek
  <2>2. CASE blob.wrapped = [slots |-> <<b4.wrapped, b3.wrapped>>]
    BY <1>1, <2>2, RecoverFacts
  <2> QED
    BY <1>2, <2>1, <2>2
<1>5. PICK b \in made : RecoverDek(blob.wrapped, id) = UnwrapDek(b.wrapped, id)
  BY <1>4
<1>6. b.manifest.recipient = id /\ b.ciphertext.key = b2.ciphertext.key
  <2>1. /\ b.wrapped.suite = "OSGT-CLASSIC-v1" /\ b.wrapped.box.key = Kek("OSGT-CLASSIC-v1", id)
        /\ b2.ciphertext.key = b.wrapped.box.data
    BY <1>1, <1>2, <1>5, UnwrapFacts
  <2>2. /\ b.wrapped.box.key = Kek("OSGT-CLASSIC-v1", b.manifest.recipient)
        /\ b.wrapped.box.data = b.ciphertext.key
    BY <1>0, <2>1, GenuineFacts
  <2>3. Kek("OSGT-CLASSIC-v1", b.manifest.recipient).with = Kek("OSGT-CLASSIC-v1", id).with
    BY <2>1, <2>2
  <2> QED
    BY <2>1, <2>2, <2>3 DEF Kek
<1>7. b = b2
  BY <1>6 DEF MadeOK, Distinct
<1>8. text.mark # 0 => b1 = b2
  BY <1>1, <1>2, <1>3 DEF MadeOK, Distinct
<1> QED
  BY <1>1, <1>2, <1>3, <1>6, <1>7, <1>8

\* seal makes a genuine container under a key and, when it marks, a mark of
\* its own.
LEMMA SealsGenuine ==
  ASSUME NEW text, NEW m, NEW issuer, NEW recipient, NEW n, NEW b,
         b = SealBlob(text, m, issuer, recipient, n, n),
         DOMAIN m = ManifestFields,
         m.issuer = issuer, m.recipient = recipient, m.content_hash = ContentHash(text)
  PROVE  Genuine(b) /\ b.ciphertext.key = n /\ b.ciphertext.data = text
<1>1. b = [whole |-> TRUE, suite |-> "OSGT-CLASSIC-v1", manifest |-> Sign(m, issuer),
           wrapped |-> WrapDekForRecipient(n, n, recipient), nonce |-> n,
           ciphertext |-> AeadEncrypt(n, n, text, m.content_hash)]
  BY DEF SealBlob
<1>2. PICK s : s = Sign(m, issuer)
  OBVIOUS
<1>3. /\ DOMAIN s = ManifestFields /\ s.issuer = issuer /\ s.recipient = recipient
      /\ s.content_hash = ContentHash(text)
      /\ s.signature = [by |-> issuer, of |-> CanonicalBytes(m)]
      /\ \A f \in ManifestFields : f # "signature" => s[f] = m[f]
      /\ s = [f \in ManifestFields |-> s[f]]
  BY <1>2, FieldsOfManifest DEF Sign
<1>4. CanonicalBytes(s) = CanonicalBytes(m)
  BY <1>2, <1>3 DEF CanonicalBytes
<1>5. Sign(s, s.issuer) = s
  BY <1>3, <1>4 DEF Sign
<1>6. /\ b.manifest = s /\ b.suite = "OSGT-CLASSIC-v1" /\ b.nonce = n
      /\ b.wrapped = WrapDekForRecipient(n, n, recipient)
      /\ b.ciphertext = AeadEncrypt(n, n, text, s.content_hash)
      /\ b = [whole |-> TRUE, suite |-> b.suite, manifest |-> s, wrapped |-> b.wrapped,
              nonce |-> n, ciphertext |-> b.ciphertext]
  BY <1>1, <1>2, <1>3
<1>7. /\ b.ciphertext.key = n /\ b.ciphertext.nonce = n /\ b.ciphertext.data = text
  BY <1>6 DEF AeadEncrypt
<1> QED
  BY <1>3, <1>5, <1>6, <1>7 DEF Genuine
-----------------------------------------------------------------------------
(***************************************************************************)
(* The parts of the invariant.                                             *)
(***************************************************************************)
LEMMA Unwritten ==
  ASSUME ClientInv, UNCHANGED <<fs, nextId, made, written>>
  PROVE  Grows /\ FilesOK' /\ MadeOK'
BY DEF ClientInv, Grows, FilesOK, FileOK, MadeOK, IsPrivate

\* One path is replaced.
LEMMA Replaced ==
  ASSUME ClientInv, NEW p \in Paths \ {Doc}, NEW c, Replace(p, c),
         nextId' \in Nat, nextId <= nextId', made \subseteq made', written \subseteq written',
         c.kind = "sealed" => c.blob \in made',
         c.kind = "side" => c.file \in written'
  PROVE  Grows /\ FilesOK'
<1>1. fs = [q \in Paths |-> fs[q]] /\ Doc \in Paths /\ OutPaths \subseteq Paths
  BY PathsAssumption DEF ClientInv, FilesOK
<1>2. /\ fs' = [q \in Paths |-> fs'[q]] /\ fs'[p] = c
      /\ \A q \in Paths : q # p => fs'[q] = fs[q]
  BY <1>1 DEF Replace
<1>3. Grows
  BY <1>1, <1>2 DEF Grows, ClientInv
<1>4. fs'[Doc] = Text([doc |-> "d", mark |-> 0])
  BY <1>1, <1>2 DEF ClientInv, FilesOK
<1>5. ASSUME NEW q \in Paths
      PROVE  FileOK(q)'
  <2>1. CASE q = p
    BY <1>2, <2>1 DEF FileOK, IsPrivate
  <2>2. CASE q # p
    <3>1. fs'[q] = fs[q] /\ FileOK(q)
      BY <1>2, <2>2 DEF ClientInv, FilesOK
    <3> QED
      BY <3>1 DEF FileOK, IsPrivate
  <2> QED
    BY <2>1, <2>2
<1> QED
  BY <1>2, <1>3, <1>4, <1>5 DEF FilesOK, Text

LEMMA MadeStays ==
  ASSUME ClientInv, Grows, UNCHANGED made
  PROVE  MadeOK'
<1>1. ASSUME NEW b \in made
      PROVE  b.ciphertext.key < nextId' /\ b.ciphertext.data.mark < nextId'
  <2>1. /\ b.ciphertext.key \in Nat /\ b.ciphertext.key < nextId
        /\ b.ciphertext.data.mark \in Nat /\ b.ciphertext.data.mark < nextId
    BY DEF ClientInv, MadeOK
  <2> QED
    BY <2>1 DEF Grows
<1> QED
  BY <1>1 DEF ClientInv, MadeOK

LEMMA OpenedStays ==
  ASSUME ClientInv, Grows, UNCHANGED opened
  PROVE  OpenedIsSealed'
BY DEF ClientInv, Grows, OpenedIsSealed

\* A command written as a constant.
LEMMA SameCommand ==
  ASSUME NEW v, NEW r, r = run'[v], CommandOK(r)'
  PROVE  CommandOK(run[v])'
<1>1. KeygenOK(r)' => KeygenOK(run[v])'
  BY Zenon DEF KeygenOK, Guarded
<1>2. SealOK(r)' => SealOK(run[v])'
  BY Zenon DEF SealOK, Guarded
<1>3. OpenOK(r)' => OpenOK(run[v])'
  BY Zenon DEF OpenOK, Guarded, Mixed, Damaged
<1>4. ImportOK(r)' => ImportOK(run[v])'
  BY Zenon DEF ImportOK
<1> QED
  BY <1>1, <1>2, <1>3, <1>4, Zenon DEF CommandOK, Idle

\* One command goes on or ends.
LEMMA CommandMoves ==
  ASSUME ClientInv, Grows, NEW u \in Front, NEW n, run' = [run EXCEPT ![u] = n], CommandOK(n)'
  PROVE  run' = [v \in Front |-> run'[v]] /\ \A v \in Front : CommandOK(run[v])'
<1>1. run = [v \in Front |-> run[v]]
  BY DEF ClientInv
<1>2. /\ run' = [v \in Front |-> run'[v]] /\ run'[u] = n
      /\ \A v \in Front : v # u => run'[v] = run[v]
  BY <1>1
<1>3. ASSUME NEW v \in Front
      PROVE  CommandOK(run[v])'
  <2>1. PICK r : r = run'[v]
    OBVIOUS
  <2>2. CASE v = u
    <3>1. r = n
      BY <1>2, <2>1, <2>2
    <3> QED
      BY <2>1, <3>1, SameCommand
  <2>3. CASE v # u
    <3>1. r = run[v] /\ CommandOK(r)
      BY <1>2, <2>1, <2>3 DEF ClientInv
    <3>2. CommandOK(r)'
      BY <3>1, CommandStays
    <3> QED
      BY <2>1, <3>2, SameCommand
  <2> QED
    BY <2>2, <2>3
<1> QED
  BY <1>2, <1>3

LEMMA StepKeeps ==
  ASSUME ClientInv, Grows, NEW u \in Front, NEW n, run' = [run EXCEPT ![u] = n], CommandOK(n)',
         FilesOK', MadeOK', registered' \subseteq written', OpenedIsSealed'
  PROVE  ClientInv'
<1>1. run' = [v \in Front |-> run'[v]] /\ \A v \in Front : CommandOK(run[v])'
  BY CommandMoves
<1> QED
  BY <1>1 DEF ClientInv, Grows

LEMMA IdleOK == CommandOK(Idle)'
BY DEF CommandOK

LEMMA GoAfter ==
  ASSUME ClientInv, NEW u \in Front, NEW got, Go(u, got)
  PROVE  run' = [run EXCEPT ![u] = After(run[u], got)]
BY DEF Go, After

LEMMA AtStep ==
  ASSUME ClientInv, NEW u \in Front, NEW s, At(u, s)
  PROVE  run[u].todo # << >> /\ Head(run[u].todo) = s /\ CommandOK(run[u])
BY DEF ClientInv, At

\* A step that touches nothing but its own command.
LEMMA QuietStep ==
  ASSUME ClientInv, UNCHANGED <<fs, nextId, made, written, registered, opened>>,
         NEW u \in Front, NEW n, run' = [run EXCEPT ![u] = n], CommandOK(n)'
  PROVE  ClientInv'
<1>1. Grows /\ FilesOK' /\ MadeOK'
  BY Unwritten
<1>2. OpenedIsSealed' /\ registered' \subseteq written'
  BY <1>1, OpenedStays DEF ClientInv
<1> QED
  BY <1>1, <1>2, StepKeeps
-----------------------------------------------------------------------------
(***************************************************************************)
(* Every action keeps the invariant.                                       *)
(***************************************************************************)
LEMMA StartOK ==
  ASSUME ClientInv, NEW u \in Front, NEW command, CommandOK(command), Start(u, command)
  PROVE  ClientInv'
<1>1. /\ UNCHANGED <<fs, nextId, made, written, registered, opened>>
      /\ run' = [run EXCEPT ![u] = command]
  BY DEF Start, history
<1>2. Grows
  BY <1>1, Unwritten
<1>3. CommandOK(command)'
  BY <1>2, CommandStays
<1> QED
  BY <1>1, <1>3, QuietStep

LEMMA StartStep ==
  ASSUME ClientInv, NEW u \in Front,
         CmdKeygen(u) \/ CmdSeal(u) \/ CmdOpen(u) \/ CmdKeysImport(u)
  PROVE  ClientInv'
<1>1. CASE CmdKeygen(u)
  <2>1. PICK out \in OutPaths, over \in BOOLEAN, own \in BOOLEAN :
          Start(u, [todo |-> (IF own THEN <<"load">> ELSE << >>)
                             \o <<"checkOut", "checkPub", "writeKey", "writePub">>
                             \o (IF own THEN <<"emptyConfig", "writeConfig">> ELSE << >>),
                    out |-> out, inputs |-> {}, over |-> over, free |-> {},
                    id |-> 0, settings |-> FALSE])
    BY <1>1 DEF CmdKeygen
  <2>2. PICK todo : todo = (IF own THEN <<"load">> ELSE << >>)
                           \o <<"checkOut", "checkPub", "writeKey", "writePub">>
                           \o (IF own THEN <<"emptyConfig", "writeConfig">> ELSE << >>)
    OBVIOUS
  <2>3. /\ Ordered(todo) /\ todo # << >> /\ Ahead(todo) \subseteq KeygenSteps
        /\ {"checkOut", "checkPub"} \subseteq Ahead(todo)
    BY <2>2, CommandLists
  <2>4. PICK r : r = [todo |-> todo, out |-> out, inputs |-> {}, over |-> over, free |-> {},
                      id |-> 0, settings |-> FALSE]
    OBVIOUS
  <2>5. CommandOK(r)
    BY <2>3, <2>4 DEF CommandOK, KeygenOK, Guarded
  <2>6. Start(u, r)
    BY <2>1, <2>2, <2>4
  <2> QED
    BY <2>5, <2>6, StartOK
<1>2. CASE CmdSeal(u)
  <2>1. PICK out \in OutPaths, to \in Recipients, key \in KeyPaths(u, "issuer.json"),
             marked \in BOOLEAN :
          Start(u, [todo |-> SealSteps(u, marked), out |-> out, to |-> to,
                    key |-> key, inputs |-> {Doc, to, key},
                    over |-> FALSE, free |-> {}, marked |-> marked,
                    issuer |-> 0, recipient |-> 0, text |-> NoValue, blob |-> NoValue])
    BY <1>2 DEF CmdSeal
  <2>2. PICK todo : todo = SealSteps(u, marked)
    OBVIOUS
  <2>3. /\ Ordered(todo) /\ todo # << >> /\ Ahead(todo) \subseteq SealingSteps
        /\ {"checkOut", "readDoc", "makeBlob", "writeSealed"} \subseteq Ahead(todo)
    BY <2>2, CommandLists
  <2>4. PICK r : r = [todo |-> todo, out |-> out, to |-> to,
                      key |-> key, inputs |-> {Doc, to, key},
                      over |-> FALSE, free |-> {}, marked |-> marked,
                      issuer |-> 0, recipient |-> 0, text |-> NoValue, blob |-> NoValue]
    OBVIOUS
  <2>5. CommandOK(r)
    <3>1. r.todo = todo /\ r.out = out /\ "writePub" \notin Ahead(todo)
      BY <2>3, <2>4 DEF SealingSteps
    <3>2. Guarded(r)
      BY <2>3, <3>1 DEF Guarded
    <3> QED
      BY <2>3, <2>4, <3>1, <3>2 DEF CommandOK, SealOK
  <2>6. Start(u, r)
    BY <2>1, <2>2, <2>4
  <2> QED
    BY <2>5, <2>6, StartOK
<1>3. CASE CmdOpen(u)
  <2>1. PICK in \in OutPaths, out \in OutPaths, key \in KeyPaths(u, "alice.json") :
          Start(u, [todo |-> IF u = "cli" THEN <<"checkOut", "readSealed", "readIdentity", "writeText">>
                             ELSE <<"checkOut", "readIdentity", "readSealed", "writeText">>,
                    in |-> in, out |-> out, key |-> key, inputs |-> {in, key},
                    over |-> FALSE, free |-> {}, id |-> 0, blob |-> NoValue])
    BY <1>3 DEF CmdOpen
  <2>2. PICK todo : todo = IF u = "cli" THEN <<"checkOut", "readSealed", "readIdentity", "writeText">>
                           ELSE <<"checkOut", "readIdentity", "readSealed", "writeText">>
    OBVIOUS
  <2>3. /\ Ordered(todo) /\ todo # << >> /\ Ahead(todo) \subseteq OpenSteps
        /\ {"checkOut", "readSealed"} \subseteq Ahead(todo)
    BY <2>2, CommandLists
  <2>4. PICK r : r = [todo |-> todo, in |-> in, out |-> out, key |-> key, inputs |-> {in, key},
                      over |-> FALSE, free |-> {}, id |-> 0, blob |-> NoValue]
    OBVIOUS
  <2>5. CommandOK(r)
    <3>1. r.todo = todo /\ r.out = out /\ "writePub" \notin Ahead(todo)
      BY <2>3, <2>4 DEF OpenSteps
    <3>2. Guarded(r)
      BY <2>3, <3>1 DEF Guarded
    <3> QED
      BY <2>3, <2>4, <3>1, <3>2 DEF CommandOK, OpenOK
  <2>6. Start(u, r)
    BY <2>1, <2>2, <2>4
  <2> QED
    BY <2>5, <2>6, StartOK
<1>4. CASE CmdKeysImport(u)
  <2>1. PICK from \in Paths, to \in Recipients, force \in BOOLEAN :
          /\ fs[from].kind \in {"private", "public"}
          /\ fs[to].kind # "none" => force
          /\ Start(u, [todo |-> <<"emptyImport", "writeImport">>, out |-> to, over |-> force,
                       free |-> IF fs[to].kind = "none" THEN {to} ELSE {}, data |-> fs[from]])
    BY <1>4 DEF CmdKeysImport
  <2>2. PICK r : r = [todo |-> <<"emptyImport", "writeImport">>, out |-> to, over |-> force,
                      free |-> IF fs[to].kind = "none" THEN {to} ELSE {}, data |-> fs[from]]
    OBVIOUS
  <2>3. ~r.over => r.out \in r.free
    BY <2>1, <2>2
  <2>4. CommandOK(r)
    BY <2>1, <2>2, <2>3, CommandLists DEF CommandOK, ImportOK
  <2> QED
    BY <2>1, <2>2, <2>4, StartOK
<1> QED
  BY <1>1, <1>2, <1>3, <1>4

LEMMA ExitStep ==
  ASSUME ClientInv, NEW u \in Front, Exit(u),
         UNCHANGED <<fs, nextId, made, written, registered, opened>>
  PROVE  ClientInv'
BY QuietStep, IdleOK DEF Exit

LEMMA CheckOutputStep ==
  ASSUME ClientInv, NEW u \in Front, CheckOutput(u)
  PROVE  ClientInv'
<1>1. UNCHANGED <<fs, nextId, made, written, registered, opened>>
  BY DEF CheckOutput, history
<1>2. CASE OutputAllowed(u, run[u].over)
  <2>1. PICK r : r = run[u]
    OBVIOUS
  <2>2. PICK got : got = [over |-> u = "rich" /\ run[u].over,
                          free |-> run[u].free
                                     \cup (IF IsPrivate(fs[Target(u)]) THEN {} ELSE {Target(u)})]
    OBVIOUS
  <2>3. PICK n : n = After(r, got)
    OBVIOUS
  <2>4. run' = [run EXCEPT ![u] = n]
    BY <1>2, <2>1, <2>2, <2>3, GoAfter DEF CheckOutput
  <2>5. r.todo # << >> /\ Head(r.todo) \in {"checkOut", "checkPub"} /\ CommandOK(r)
    BY <2>1, AtStep DEF CheckOutput
  <2>6. /\ "out" \notin DOMAIN got /\ "free" \in DOMAIN got
        /\ "text" \notin DOMAIN got /\ "blob" \notin DOMAIN got /\ "in" \notin DOMAIN got
        /\ got.free = r.free \cup {Target(u)}
    BY <1>2, <2>1, <2>2 DEF OutputAllowed
  <2>7. /\ Head(r.todo) = "checkOut" => Target(u) = r.out
        /\ Head(r.todo) = "checkPub" => Target(u) = PubOf[r.out]
    BY <2>1, <2>5 DEF Target, At
  <2>8. Checked(r, got)
    BY <2>6, <2>7 DEF Checked
  <2>9. Grows /\ Ordered(r.todo) /\ (KeygenOK(r) \/ SealOK(r) \/ OpenOK(r))
    BY <1>1, <2>5, Unwritten, KindOfCommand
  <2>10. CASE KeygenOK(r)
    <3>1. CommandOK(n)'
      BY <2>3, <2>5, <2>8, <2>9, <2>10, KeygenGoes
    <3> QED
      BY <1>1, <2>4, <3>1, QuietStep
  <2>11. CASE SealOK(r)
    <3>1. CommandOK(n)'
      BY <2>3, <2>5, <2>6, <2>8, <2>9, <2>11, SealGoes
    <3> QED
      BY <1>1, <2>4, <3>1, QuietStep
  <2>12. CASE OpenOK(r)
    <3>1. CommandOK(n)'
      BY <2>3, <2>5, <2>6, <2>8, <2>9, <2>12, OpenGoes
    <3> QED
      BY <1>1, <2>4, <3>1, QuietStep
  <2> QED
    BY <2>9, <2>10, <2>11, <2>12
<1>3. CASE ~ OutputAllowed(u, run[u].over)
  BY <1>1, <1>3, ExitStep DEF CheckOutput
<1> QED
  BY <1>2, <1>3

LEMMA AskStep ==
  ASSUME ClientInv, NEW u \in Front, Ask(u)
  PROVE  ClientInv'
<1>1. UNCHANGED <<fs, nextId, made, written, registered, opened>>
  BY DEF Ask, history
<1>2. PICK r, n : r = run[u] /\ n = [r EXCEPT !.over = TRUE]
  OBVIOUS
<1>3. run' = [run EXCEPT ![u] = n]
  BY <1>2 DEF Ask
<1>4. r.todo # << >> /\ Head(r.todo) \in {"checkOut", "checkPub"} /\ CommandOK(r)
  BY <1>2, AtStep DEF Ask
<1>5. Grows /\ Ordered(r.todo) /\ (KeygenOK(r) \/ SealOK(r) \/ OpenOK(r))
  BY <1>1, <1>4, Unwritten, KindOfCommand
<1>6. DOMAIN n = DOMAIN r /\ \A f \in DOMAIN r : f # "over" => n[f] = r[f]
  BY <1>2
<1>7. CommandOK(n)
  <2>1. CASE KeygenOK(r)
    <3>1. n.todo = r.todo /\ n.out = r.out /\ n.free = r.free
      BY <1>6, <2>1 DEF KeygenOK
    <3> QED
      BY <1>4, <1>5, <1>6, <2>1, <3>1 DEF CommandOK, KeygenOK, Guarded
  <2>2. CASE SealOK(r)
    <3>1. n.todo = r.todo /\ n.out = r.out /\ n.free = r.free /\ n.text = r.text /\ n.blob = r.blob
      BY <1>6, <2>2 DEF SealOK
    <3> QED
      BY <1>4, <1>5, <1>6, <2>2, <3>1 DEF CommandOK, SealOK, Guarded
  <2>3. CASE OpenOK(r)
    <3>1. n.todo = r.todo /\ n.out = r.out /\ n.free = r.free /\ n.blob = r.blob /\ n.in = r.in
      BY <1>6, <2>3 DEF OpenOK
    <3> QED
      BY <1>4, <1>5, <1>6, <2>3, <3>1 DEF CommandOK, OpenOK, Guarded
  <2> QED
    BY <1>5, <2>1, <2>2, <2>3
<1>8. CommandOK(n)'
  BY <1>5, <1>7, CommandStays
<1> QED
  BY <1>1, <1>3, <1>8, QuietStep

LEMMA ReadStep ==
  ASSUME ClientInv, NEW u \in Front,
         ReadDoc(u) \/ ReadKeys(u) \/ ReadSealed(u) \/ ReadIdentity(u) \/ LoadConfig(u)
  PROVE  ClientInv'
<1>1. UNCHANGED <<fs, nextId, made, written, registered, opened>>
  BY DEF ReadDoc, ReadKeys, ReadSealed, ReadIdentity, LoadConfig, history
<1>2. Grows
  BY <1>1, Unwritten
<1>3. PICK r : r = run[u]
  OBVIOUS
<1>4. CASE ReadDoc(u)
  <2>1. PICK got, n : got = [text |-> fs[Doc].text] /\ n = After(r, got)
    OBVIOUS
  <2>2. r.todo # << >> /\ Head(r.todo) = "readDoc" /\ CommandOK(r)
    BY <1>3, <1>4, AtStep DEF ReadDoc
  <2>3. Ordered(r.todo) /\ SealOK(r)
    BY <2>2, KindOfCommand DEF SealingSteps
  <2>4. Checked(r, got) /\ DOMAIN got = {"text"} /\ got.text = [doc |-> "d", mark |-> 0]
    BY <2>1, <2>2 DEF Checked, ClientInv, FilesOK, Text
  <2>5. CommandOK(n)'
    BY <1>2, <2>1, <2>2, <2>3, <2>4, SealGoes
  <2>6. run' = [run EXCEPT ![u] = n]
    BY <1>3, <1>4, <2>1, GoAfter DEF ReadDoc
  <2> QED
    BY <1>1, <2>5, <2>6, QuietStep
<1>5. CASE ReadKeys(u)
  <2>1. PICK got, n : /\ got = [issuer |-> fs[run[u].key].id, recipient |-> fs[run[u].to].id]
                      /\ n = After(r, got)
    OBVIOUS
  <2>2. r.todo # << >> /\ Head(r.todo) = "readKeys" /\ CommandOK(r)
    BY <1>3, <1>5, AtStep DEF ReadKeys
  <2>3. Ordered(r.todo) /\ SealOK(r)
    BY <2>2, KindOfCommand DEF SealingSteps
  <2>4. Checked(r, got) /\ DOMAIN got = {"issuer", "recipient"}
    BY <2>1, <2>2 DEF Checked
  <2>5. CommandOK(n)'
    BY <1>2, <2>1, <2>2, <2>3, <2>4, SealGoes
  <2>6. Exit(u) \/ run' = [run EXCEPT ![u] = n]
    BY <1>3, <1>5, <2>1, GoAfter DEF ReadKeys
  <2> QED
    BY <1>1, <2>5, <2>6, QuietStep, ExitStep
<1>6. CASE ReadSealed(u)
  <2>1. CASE fs[run[u].in].kind = "sealed"
    <3>1. PICK blob \in {fs[run[u].in].blob} \cup Damaged(fs[run[u].in].blob) :
            Go(u, [blob |-> blob])
      BY <1>6, <2>1 DEF ReadSealed
    <3>2. PICK got, n : got = [blob |-> blob] /\ n = After(r, got)
      OBVIOUS
    <3>3. r.todo # << >> /\ Head(r.todo) = "readSealed" /\ CommandOK(r)
      BY <1>3, <1>6, AtStep DEF ReadSealed
    <3>4. Ordered(r.todo) /\ OpenOK(r)
      BY <3>3, KindOfCommand DEF OpenSteps
    <3>5. Mixed(blob)
      <4>1. fs[run[u].in].blob \in made
        BY <1>3, <2>1, <3>4, PathsAssumption DEF ClientInv, FilesOK, FileOK, OpenOK
      <4> QED
        BY <3>1, <4>1, Zenon DEF Mixed
    <3>6. Checked(r, got) /\ DOMAIN got = {"blob"} /\ got.blob = blob
      BY <3>2, <3>3 DEF Checked
    <3>7. CommandOK(n)'
      BY <1>2, <3>2, <3>3, <3>4, <3>5, <3>6, OpenGoes
    <3>8. run' = [run EXCEPT ![u] = n]
      BY <1>3, <3>1, <3>2, GoAfter
    <3> QED
      BY <1>1, <3>7, <3>8, QuietStep
  <2>2. CASE fs[run[u].in].kind # "sealed"
    BY <1>1, <1>6, <2>2, ExitStep DEF ReadSealed
  <2> QED
    BY <2>1, <2>2
<1>7. CASE ReadIdentity(u)
  <2>1. PICK got, n : got = [id |-> fs[run[u].key].id] /\ n = After(r, got)
    OBVIOUS
  <2>2. r.todo # << >> /\ Head(r.todo) = "readIdentity" /\ CommandOK(r)
    BY <1>3, <1>7, AtStep DEF ReadIdentity
  <2>3. Ordered(r.todo) /\ OpenOK(r)
    BY <2>2, KindOfCommand DEF OpenSteps
  <2>4. Checked(r, got) /\ DOMAIN got = {"id"}
    BY <2>1, <2>2 DEF Checked
  <2>5. CommandOK(n)'
    BY <1>2, <2>1, <2>2, <2>3, <2>4, OpenGoes
  <2>6. Exit(u) \/ run' = [run EXCEPT ![u] = n]
    BY <1>3, <1>7, <2>1, GoAfter DEF ReadIdentity
  <2> QED
    BY <1>1, <2>5, <2>6, QuietStep, ExitStep
<1>8. CASE LoadConfig(u)
  <2>1. PICK got, n : got = [settings |-> config # Torn /\ config.settings] /\ n = After(r, got)
    OBVIOUS
  <2>2. r.todo # << >> /\ Head(r.todo) = "load" /\ CommandOK(r)
    BY <1>3, <1>8, AtStep DEF LoadConfig
  <2>3. Ordered(r.todo) /\ KeygenOK(r)
    BY <2>2, KindOfCommand DEF KeygenSteps
  <2>4. Checked(r, got)
    BY <2>1, <2>2 DEF Checked
  <2>5. CommandOK(n)'
    BY <1>2, <2>1, <2>2, <2>3, <2>4, KeygenGoes
  <2>6. run' = [run EXCEPT ![u] = n]
    BY <1>3, <1>8, <2>1, GoAfter DEF LoadConfig
  <2> QED
    BY <1>1, <2>5, <2>6, QuietStep
<1> QED
  BY <1>4, <1>5, <1>6, <1>7, <1>8

\* A step of a command that sets none of its fields.
LEMMA NothingSet == DOMAIN Nothing = {} /\ \A r : Head(r.todo) \notin {"checkOut", "checkPub"} => Checked(r, Nothing)
BY DEF Nothing, Checked

LEMMA KeygenStep ==
  ASSUME ClientInv, NEW u \in Front,
         WriteKey(u) \/ WritePub(u) \/ EmptyConfig(u) \/ WriteConfig(u)
  PROVE  ClientInv'
<1>1. PICK r : r = run[u]
  OBVIOUS
<1>2. /\ r.todo # << >> /\ CommandOK(r)
      /\ Head(r.todo) \in {"writeKey", "writePub", "emptyConfig", "writeConfig"}
  BY <1>1, AtStep DEF WriteKey, WritePub, EmptyConfig, WriteConfig
<1>3. Ordered(r.todo) /\ KeygenOK(r)
  BY <1>2, KindOfCommand DEF KeygenSteps
<1>4. r.out \in OutPaths /\ r.out \in Paths \ {Doc}
      /\ PubOf[r.out] \in Paths \ {Doc}
  BY <1>3, PathsAssumption DEF KeygenOK, Guarded
<1>5. CASE WriteKey(u)
  <2>1. /\ Replace(r.out, Key(nextId)) /\ nextId' = nextId + 1
        /\ UNCHANGED <<made, written, registered, opened>>
    BY <1>1, <1>5 DEF WriteKey, history
  <2>2. nextId \in Nat /\ nextId' \in Nat /\ nextId <= nextId'
    BY <2>1 DEF ClientInv
  <2>3. PICK c : c = Key(nextId) /\ c.kind = "private" /\ c.id = nextId
    <3>1. Key(nextId).kind = "private" /\ Key(nextId).id = nextId
      BY DEF Key
    <3> QED
      BY <3>1
  <2>4. Grows /\ FilesOK'
    BY <1>4, <2>1, <2>2, <2>3, Replaced
  <2>5. PICK got, n : got = [id |-> nextId] /\ n = After(r, got)
    OBVIOUS
  <2>6. Head(r.todo) = "writeKey"
    BY <1>1, <1>5, AtStep DEF WriteKey
  <2>7. Checked(r, got)
    BY <2>5, <2>6 DEF Checked
  <2>8. CommandOK(n)'
    BY <1>2, <1>3, <2>4, <2>5, <2>7, KeygenGoes
  <2>9. run' = [run EXCEPT ![u] = n]
    BY <1>1, <1>5, <2>5, GoAfter DEF WriteKey
  <2>10. MadeOK' /\ OpenedIsSealed' /\ registered' \subseteq written'
    BY <2>1, <2>4, MadeStays, OpenedStays DEF ClientInv
  <2> QED
    BY <2>4, <2>8, <2>9, <2>10, StepKeeps
<1>6. CASE WritePub(u)
  <2>1. /\ Replace(PubOf[r.out], Pub(r.id)) /\ UNCHANGED <<nextId, made, written, registered, opened>>
    BY <1>1, <1>6 DEF WritePub, history
  <2>2. PICK c : c = Pub(r.id) /\ c.kind = "public"
    <3>1. Pub(r.id).kind = "public"
      BY DEF Pub
    <3> QED
      BY <3>1
  <2>3. nextId' \in Nat /\ nextId <= nextId'
    BY <2>1 DEF ClientInv
  <2>4. Grows /\ FilesOK'
    BY <1>4, <2>1, <2>2, <2>3, Replaced DEF IsPrivate
  <2>5. PICK n : n = After(r, Nothing)
    OBVIOUS
  <2>6. Head(r.todo) = "writePub"
    BY <1>1, <1>6, AtStep DEF WritePub
  <2>7. CommandOK(n)'
    BY <1>2, <1>3, <2>4, <2>5, <2>6, NothingSet, KeygenGoes
  <2>8. run' = [run EXCEPT ![u] = n]
    BY <1>1, <1>6, <2>5, GoAfter DEF WritePub
  <2>9. MadeOK' /\ OpenedIsSealed' /\ registered' \subseteq written'
    BY <2>1, <2>4, MadeStays, OpenedStays DEF ClientInv
  <2> QED
    BY <2>4, <2>7, <2>8, <2>9, StepKeeps
<1>7. CASE EmptyConfig(u)
  <2>1. UNCHANGED <<fs, nextId, made, written, registered, opened>>
    BY <1>7 DEF EmptyConfig, history
  <2>2. Grows
    BY <2>1, Unwritten
  <2>3. PICK n : n = After(r, Nothing)
    OBVIOUS
  <2>4. Head(r.todo) = "emptyConfig"
    BY <1>1, <1>7, AtStep DEF EmptyConfig
  <2>5. CommandOK(n)'
    BY <1>2, <1>3, <2>2, <2>3, <2>4, NothingSet, KeygenGoes
  <2>6. run' = [run EXCEPT ![u] = n]
    BY <1>1, <1>7, <2>3, GoAfter DEF EmptyConfig
  <2> QED
    BY <2>1, <2>5, <2>6, QuietStep
<1>8. CASE WriteConfig(u)
  BY <1>8, ExitStep DEF WriteConfig, history
<1> QED
  BY <1>5, <1>6, <1>7, <1>8

LEMMA ImportStep ==
  ASSUME ClientInv, NEW u \in Front, EmptyImport(u) \/ WriteImport(u)
  PROVE  ClientInv'
<1>1. PICK r : r = run[u]
  OBVIOUS
<1>2. /\ r.todo # << >> /\ CommandOK(r) /\ Head(r.todo) \in {"emptyImport", "writeImport"}
  BY <1>1, AtStep DEF EmptyImport, WriteImport
<1>3. Ordered(r.todo) /\ ImportOK(r)
  BY <1>2, KindOfCommand DEF ImportSteps
<1>4. /\ r.out \in Recipients /\ r.out \in Paths \ {Doc}
      /\ r.data.kind \in {"private", "public"}
  BY <1>3, PathsAssumption DEF ImportOK
<1>5. PICK c, n : /\ Replace(r.out, c) /\ c.kind \in {"torn", "private", "public"}
                  /\ run' = [run EXCEPT ![u] = n] /\ n \in {Idle, After(r, Nothing)}
  <2>1. CASE EmptyImport(u)
    <3>1. Replace(r.out, Torn) /\ run' = [run EXCEPT ![u] = After(r, Nothing)]
      BY <1>1, <2>1, GoAfter DEF EmptyImport
    <3> QED
      BY <3>1 DEF Torn
  <2>2. CASE WriteImport(u)
    <3>1. Replace(r.out, r.data) /\ run' = [run EXCEPT ![u] = Idle]
      BY <1>1, <2>2 DEF WriteImport, Exit
    <3> QED
      BY <1>4, <3>1
  <2> QED
    BY <2>1, <2>2
<1>6. UNCHANGED <<nextId, made, written, registered, opened>>
  BY DEF EmptyImport, WriteImport, history
<1>7. Grows /\ FilesOK'
  <2>1. nextId' \in Nat /\ nextId <= nextId'
    BY <1>6 DEF ClientInv
  <2> QED
    BY <1>4, <1>5, <1>6, <2>1, Replaced
<1>8. CommandOK(n)'
  <2>1. CASE n = Idle
    BY <2>1, IdleOK
  <2>2. CASE n = After(r, Nothing)
    BY <1>2, <1>3, <1>7, <2>2, ImportGoes
  <2> QED
    BY <1>5, <2>1, <2>2
<1>9. MadeOK' /\ OpenedIsSealed' /\ registered' \subseteq written'
  BY <1>6, <1>7, MadeStays, OpenedStays DEF ClientInv
<1> QED
  BY <1>5, <1>7, <1>8, <1>9, StepKeeps

LEMMA MakeBlobStep ==
  ASSUME ClientInv, NEW u \in Front, MakeBlob(u)
  PROVE  ClientInv'
<1>1. PICK r, k : r = run[u] /\ k = nextId
  OBVIOUS
<1>2. r.todo # << >> /\ CommandOK(r) /\ Head(r.todo) = "makeBlob"
  BY <1>1, AtStep DEF MakeBlob
<1>3. Ordered(r.todo) /\ SealOK(r)
  BY <1>2, KindOfCommand DEF SealingSteps
<1>4. r.text = [doc |-> "d", mark |-> 0]
  <2>1. Head(r.todo) \in Ahead(r.todo) /\ \A x \in Ahead(r.todo) : Phase(Head(r.todo)) <= Phase(x)
    BY <1>2, <1>3, StepDone
  <2>2. "readDoc" \notin Ahead(r.todo)
    BY <1>2, <2>1 DEF Phase, Looks
  <2> QED
    BY <1>2, <1>3, <2>1, <2>2 DEF SealOK
<1>5. PICK b : b = BlobOf(u)
  OBVIOUS
<1>6. /\ made' = made \cup {b} /\ nextId' = k + 1 /\ k \in Nat
      /\ UNCHANGED <<fs, opened, written, registered>>
      /\ \A c \in made : c.ciphertext.key \in Nat /\ c.ciphertext.data.mark \in Nat
      /\ \A c \in made : c.ciphertext.key < k /\ c.ciphertext.data.mark < k
      /\ \A c \in made : Genuine(c)
  BY <1>1, <1>5 DEF MakeBlob, ClientInv, MadeOK
<1>7. PICK copy : copy = Copy(u) /\ copy.mark \in {0, k}
  <2>1. Copy(u).mark = IF r.marked THEN k ELSE r.text.mark
    BY <1>1 DEF Copy
  <2> QED
    BY <1>4, <2>1
<1>8. Genuine(b) /\ b.ciphertext.key = k /\ b.ciphertext.data = copy
  <2>1. PICK m : m = [NewManifest(k, copy, r.issuer, r.recipient, 0) EXCEPT
                        !.canonical_content_hash = ContentHash(r.text),
                        !.watermarks = IF r.marked THEN {k} ELSE {}]
    OBVIOUS
  <2>2. b = SealBlob(copy, m, r.issuer, r.recipient, k, k)
    BY <1>1, <1>5, <1>7, <2>1 DEF BlobOf
  <2>3. /\ DOMAIN m = ManifestFields
        /\ m.issuer = r.issuer /\ m.recipient = r.recipient /\ m.content_hash = ContentHash(copy)
    BY <2>1, FieldsOfManifest DEF NewManifest
  <2> QED
    BY <2>2, <2>3, SealsGenuine
<1>9. Grows
  BY <1>1, <1>6 DEF Grows
<1>10. FilesOK'
  BY <1>6 DEF ClientInv, FilesOK, FileOK, IsPrivate
<1>11. MadeOK'
  <2>1. ASSUME NEW c \in made'
        PROVE  /\ Genuine(c)
               /\ c.ciphertext.key \in Nat /\ c.ciphertext.key < nextId'
               /\ c.ciphertext.data.mark \in Nat /\ c.ciphertext.data.mark < nextId'
    <3>1. CASE c \in made
      BY <1>6, <3>1
    <3>2. CASE c = b
      BY <1>6, <1>7, <1>8, <3>2
    <3> QED
      BY <1>6, <3>1, <3>2
  <2>2. ASSUME NEW a \in made', NEW c \in made',
               \/ a.ciphertext.key = c.ciphertext.key
               \/ a.ciphertext.data.mark = c.ciphertext.data.mark /\ c.ciphertext.data.mark # 0
        PROVE  a = c
    <3>1. CASE a \in made /\ c \in made
      BY <2>2, <3>1 DEF ClientInv, MadeOK, Distinct
    <3>2. CASE a = b /\ c \in made
      BY <1>6, <1>7, <1>8, <2>2, <3>2
    <3>3. CASE a \in made /\ c = b
      BY <1>6, <1>7, <1>8, <2>2, <3>3
    <3>4. CASE a = b /\ c = b
      BY <3>4
    <3> QED
      BY <1>6, <3>1, <3>2, <3>3, <3>4
  <2>3. Distinct(made')
    BY <2>2 DEF Distinct
  <2> QED
    BY <2>1, <2>3 DEF MadeOK, Distinct
<1>12. PICK got, n : got = [blob |-> b] /\ n = After(r, got)
  OBVIOUS
<1>13. Checked(r, got) /\ DOMAIN got = {"blob"} /\ got.blob \in made'
  BY <1>2, <1>6, <1>12 DEF Checked
<1>14. CommandOK(n)'
  BY <1>2, <1>3, <1>9, <1>12, <1>13, SealGoes
<1>15. run' = [run EXCEPT ![u] = n]
  BY <1>1, <1>5, <1>12, GoAfter DEF MakeBlob
<1>16. OpenedIsSealed' /\ registered' \subseteq written'
  BY <1>6, <1>9, OpenedStays DEF ClientInv
<1> QED
  BY <1>9, <1>10, <1>11, <1>14, <1>15, <1>16, StepKeeps

\* A step of seal behind the making of the container.
LEMMA SealStep ==
  ASSUME ClientInv, NEW u \in Front, WriteSealed(u) \/ WriteSide(u) \/ Register(u)
  PROVE  ClientInv'
<1>1. PICK r, n : r = run[u] /\ n = After(r, Nothing)
  OBVIOUS
<1>2. /\ r.todo # << >> /\ CommandOK(r)
      /\ Head(r.todo) \in {"writeSealed", "writeSide", "register"}
  BY <1>1, AtStep DEF WriteSealed, WriteSide, Register
<1>3. Ordered(r.todo) /\ SealOK(r)
  BY <1>2, KindOfCommand DEF SealingSteps
<1>4. /\ r.out \in OutPaths /\ r.out \in Paths \ {Doc} /\ SideOf[r.out] \in Paths \ {Doc}
      /\ nextId \in Nat
  BY <1>3, PathsAssumption DEF SealOK, Guarded, ClientInv
<1>5. run' = [run EXCEPT ![u] = n]
  BY <1>1, GoAfter DEF WriteSealed, WriteSide, Register
<1>6. IF Head(r.todo) = "writeSealed" THEN r.blob \in made
      ELSE r.blob.manifest.file_id \in written
  <2>1. Head(r.todo) \in Ahead(r.todo) /\ \A x \in Ahead(r.todo) : Phase(Head(r.todo)) <= Phase(x)
    BY <1>2, <1>3, StepDone
  <2>2. /\ "makeBlob" \notin Ahead(r.todo)
        /\ Head(r.todo) # "writeSealed" => "writeSealed" \notin Ahead(r.todo)
    BY <1>2, <2>1 DEF Phase, Looks, Writes
  <2> QED
    BY <2>1, <2>2, <1>3 DEF SealOK
<1>7. ASSUME Grows, Head(r.todo) = "writeSealed" => r.blob.manifest.file_id \in written'
      PROVE  CommandOK(n)'
  BY <1>1, <1>2, <1>3, <1>7, NothingSet, SealGoes
<1>8. CASE WriteSealed(u)
  <2>1. /\ Replace(r.out, Sealed(r.blob)) /\ written' = written \cup {r.blob.manifest.file_id}
        /\ UNCHANGED <<nextId, made, opened, registered>>
    BY <1>1, <1>8 DEF WriteSealed, FileId
  <2>2. Head(r.todo) = "writeSealed"
    BY <1>1, <1>8, AtStep DEF WriteSealed
  <2>3. PICK c : c = Sealed(r.blob) /\ c.kind = "sealed" /\ c.blob = r.blob
    <3>1. Sealed(r.blob).kind = "sealed" /\ Sealed(r.blob).blob = r.blob
      BY DEF Sealed
    <3> QED
      BY <3>1
  <2>4. nextId' \in Nat /\ nextId <= nextId'
    BY <1>4, <2>1
  <2>5. Grows /\ FilesOK'
    BY <1>4, <1>6, <2>1, <2>2, <2>3, <2>4, Replaced DEF IsPrivate
  <2>6. MadeOK' /\ OpenedIsSealed' /\ registered' \subseteq written'
    BY <2>1, <2>5, MadeStays, OpenedStays DEF ClientInv
  <2> QED
    BY <1>5, <1>7, <2>1, <2>5, <2>6, StepKeeps
<1>9. CASE WriteSide(u)
  <2>1. /\ Replace(SideOf[r.out], [kind |-> "side", file |-> r.blob.manifest.file_id])
        /\ UNCHANGED <<nextId, made, written, opened, registered>>
    BY <1>1, <1>9 DEF WriteSide, FileId, history
  <2>2. Head(r.todo) = "writeSide"
    BY <1>1, <1>9, AtStep DEF WriteSide
  <2>3. PICK c : c = [kind |-> "side", file |-> r.blob.manifest.file_id]
    OBVIOUS
  <2>4. nextId' \in Nat /\ nextId <= nextId'
    BY <1>4, <2>1
  <2>5. Grows /\ FilesOK'
    BY <1>4, <1>6, <2>1, <2>2, <2>3, <2>4, Replaced DEF IsPrivate
  <2>6. MadeOK' /\ OpenedIsSealed' /\ registered' \subseteq written'
    BY <2>1, <2>5, MadeStays, OpenedStays DEF ClientInv
  <2> QED
    BY <1>5, <1>7, <2>2, <2>5, <2>6, StepKeeps
<1>10. CASE Register(u)
  <2>1. /\ registered' \in {registered, registered \cup {r.blob.manifest.file_id}}
        /\ UNCHANGED <<fs, nextId, made, written, opened>>
    BY <1>1, <1>10 DEF Register, FileId
  <2>2. Head(r.todo) = "register"
    BY <1>1, <1>10, AtStep DEF Register
  <2>3. Grows /\ FilesOK' /\ MadeOK'
    BY <2>1, Unwritten
  <2>4. OpenedIsSealed' /\ registered' \subseteq written'
    BY <1>6, <2>1, <2>2, <2>3, OpenedStays DEF ClientInv
  <2> QED
    BY <1>5, <1>7, <2>2, <2>3, <2>4, StepKeeps
<1> QED
  BY <1>8, <1>9, <1>10

LEMMA WriteTextStep ==
  ASSUME ClientInv, NEW u \in Front, WriteText(u)
  PROVE  ClientInv'
<1>1. PICK r, text : r = run[u] /\ text = OpenSealed(r.blob, r.id, Now)
  OBVIOUS
<1>2. r.todo # << >> /\ CommandOK(r) /\ Head(r.todo) = "writeText"
  BY <1>1, AtStep DEF WriteText
<1>3. Ordered(r.todo) /\ OpenOK(r)
  BY <1>2, KindOfCommand DEF OpenSteps
<1>4. CASE text = Failed
  BY <1>1, <1>4, ExitStep DEF WriteText
<1>5. CASE text # Failed
  <2>1. /\ Replace(r.out, Text(text))
        /\ opened' = opened \cup {[text |-> text, manifest |-> r.blob.manifest, by |-> r.id]}
        /\ run' = [run EXCEPT ![u] = Idle]
        /\ UNCHANGED <<nextId, made, written, registered>>
    BY <1>1, <1>5 DEF WriteText, Exit
  <2>2. r.out \in Paths \ {Doc} /\ nextId' \in Nat /\ nextId <= nextId'
    BY <1>3, <2>1, PathsAssumption DEF OpenOK, Guarded, ClientInv
  <2>3. PICK c : c = Text(text) /\ c.kind = "text"
    <3>1. Text(text).kind = "text"
      BY DEF Text
    <3> QED
      BY <3>1
  <2>4. Grows /\ FilesOK'
    BY <2>1, <2>2, <2>3, Replaced DEF IsPrivate
  <2>5. Mixed(r.blob)
    <3>1. \A x \in Ahead(r.todo) : Phase(Head(r.todo)) <= Phase(x)
      BY <1>2, <1>3, StepDone
    <3>2. "readSealed" \notin Ahead(r.todo)
      BY <1>2, <3>1 DEF Phase, Looks, Writes
    <3> QED
      BY <1>3, <3>2 DEF OpenOK
  <2>6. /\ \E b \in made : b.manifest = r.blob.manifest /\ b.ciphertext.data = text
        /\ \E b \in made : b.manifest.recipient = r.id /\ b.ciphertext.data = text
        /\ text.mark # 0 => r.blob.manifest.recipient = r.id
    BY <1>1, <1>5, <2>5, OpenReturnsSealed DEF ClientInv
  <2>7. OpenedIsSealed'
    BY <2>1, <2>6 DEF ClientInv, OpenedIsSealed
  <2>8. MadeOK' /\ registered' \subseteq written'
    BY <2>1, <2>4, MadeStays DEF ClientInv
  <2> QED
    BY <2>1, <2>4, <2>7, <2>8, IdleOK, StepKeeps
<1> QED
  BY <1>4, <1>5
-----------------------------------------------------------------------------
LEMMA ClientInit == Init => ClientInv
<1>1. SUFFICES ASSUME Init PROVE ClientInv
  OBVIOUS
<1>2. PICK received \in {NoFile} \cup {Sealed(b) : b \in Received} :
        fs = [p \in Paths |->
                CASE p = "issuer.json" -> Key(1)
                  [] p = "alice.json" -> Key(2)
                  [] p = "issuer.pub.json" -> Pub(1)
                  [] p = "alice.pub.json" -> Pub(2)
                  [] p = Doc -> Text([doc |-> "d", mark |-> 0])
                  [] p = "a.sealed" -> received
                  [] OTHER -> NoFile]
  BY <1>1 DEF Init
<1>3. /\ nextId = 10 /\ made = Received /\ opened = {} /\ registered = {}
      /\ run = [u \in Front |-> Idle]
  BY <1>1 DEF Init
<1>4. ASSUME NEW p \in Paths
      PROVE  /\ p = Doc => fs[p] = Text([doc |-> "d", mark |-> 0])
             /\ fs[p].kind = "sealed" => fs[p].blob \in made
             /\ fs[p].kind # "side"
  <2>1. CASE p = Doc
    <3>1. fs[p] = Text([doc |-> "d", mark |-> 0])
      BY <1>2, <2>1, PathsAssumption
    <3> QED
      BY <3>1 DEF Text, IsPrivate
  <2>2. CASE p \in {"issuer.json", "alice.json", "issuer.pub.json", "alice.pub.json"} /\ p # Doc
    <3>1. fs[p] \in {Key(1), Key(2), Pub(1), Pub(2)}
          /\ (p \in {"issuer.pub.json", "alice.pub.json"} => fs[p] \in {Pub(1), Pub(2)})
      BY <1>2, <2>2
    <3> QED
      BY <2>2, <3>1 DEF Key, Pub, IsPrivate
  <2>3. CASE p = "a.sealed" /\ p # Doc
    <3>1. fs[p] = received
      BY <1>2, <2>3
    <3>2. CASE received = NoFile
      BY <2>3, <3>1, <3>2 DEF NoFile, IsPrivate
    <3>3. CASE \E b \in Received : received = Sealed(b)
      <4>1. PICK b \in Received : received = Sealed(b)
        BY <3>3
      <4> QED
        BY <1>3, <2>3, <3>1, <4>1 DEF Sealed, IsPrivate
    <3> QED
      BY <3>2, <3>3
  <2>4. CASE p \notin {"issuer.json", "alice.json", "issuer.pub.json", "alice.pub.json",
                       "a.sealed", Doc}
    <3>1. fs[p] = NoFile
      BY <1>2, <2>4
    <3> QED
      BY <2>4, <3>1 DEF NoFile, IsPrivate
  <2> QED
    BY <2>1, <2>2, <2>3, <2>4
<1>5. FilesOK
  BY <1>2, <1>4, PathsAssumption DEF FilesOK, FileOK
<1>6. MadeOK
  <2>1. ASSUME NEW b \in made
        PROVE  /\ Genuine(b) /\ b.ciphertext.key \in 0..9 /\ b.ciphertext.data.mark \in 0..9
    BY <1>3, ReceivedAssumption
  <2> QED
    BY <1>3, <2>1, ReceivedAssumption DEF MadeOK
<1>7. run = [u \in Front |-> run[u]] /\ \A u \in Front : CommandOK(run[u])
  BY <1>3 DEF CommandOK
<1> QED
  BY <1>3, <1>5, <1>6, <1>7 DEF ClientInv, OpenedIsSealed

LEMMA KilledStep ==
  ASSUME ClientInv, NEW u \in Front, Killed(u)
  PROVE  ClientInv'
BY ExitStep DEF Killed, history

LEMMA ClientNext == ClientInv /\ [Next]_vars => ClientInv'
<1>1. SUFFICES ASSUME ClientInv, [Next]_vars PROVE ClientInv'
  OBVIOUS
<1>2. CASE Next
  <2>1. PICK u \in Front :
          \/ CmdKeygen(u) \/ CmdSeal(u) \/ CmdOpen(u) \/ CmdKeysImport(u) \/ Ask(u)
          \/ CheckOutput(u) \/ ReadDoc(u) \/ ReadKeys(u) \/ ReadSealed(u) \/ ReadIdentity(u)
          \/ LoadConfig(u) \/ WriteKey(u) \/ WritePub(u) \/ EmptyConfig(u) \/ WriteConfig(u)
          \/ EmptyImport(u) \/ WriteImport(u) \/ MakeBlob(u) \/ WriteSealed(u) \/ WriteSide(u)
          \/ Register(u) \/ WriteText(u) \/ Killed(u)
    BY <1>2, Zenon DEF Next
  <2> QED
    BY <1>1, <2>1, StartStep, AskStep, CheckOutputStep, ReadStep, KeygenStep, ImportStep,
       MakeBlobStep, SealStep, WriteTextStep, KilledStep
<1>3. CASE UNCHANGED vars
  <2>1. UNCHANGED <<fs, run, nextId, made, opened, written, registered>>
    BY <1>3 DEF vars, history
  <2>2. Grows /\ FilesOK' /\ MadeOK'
    BY <1>1, <2>1, Unwritten
  <2>3. ASSUME NEW u \in Front
        PROVE  CommandOK(run[u])'
    <3>1. PICK r : r = run'[u] /\ CommandOK(r)
      BY <1>1, <2>1 DEF ClientInv
    <3>2. CommandOK(r)'
      BY <2>2, <3>1, CommandStays
    <3> QED
      BY <3>1, <3>2, SameCommand
  <2>4. OpenedIsSealed'
    BY <1>1, <2>1, <2>2, OpenedStays
  <2> QED
    BY <1>1, <2>1, <2>2, <2>3, <2>4 DEF ClientInv
<1> QED
  BY <1>1, <1>2, <1>3

LEMMA ClientInvariant == Spec => []ClientInv
<1>1. Init => ClientInv
  BY ClientInit
<1>2. ClientInv /\ [Next]_vars => ClientInv'
  BY ClientNext
<1> QED
  BY <1>1, <1>2, PTL DEF Spec

\* Whatever parts of containers open is given, the text that it writes out was
\* sealed by the signer of the manifest, for the identity that opened it
\* (open_sealed verifies signature, key, associated data and hash).
THEOREM OpensWhatWasSealed == Spec => []OpenedIsSealed
<1>1. ClientInv => OpenedIsSealed
  BY DEF ClientInv
<1> QED
  BY <1>1, ClientInvariant, PTL

\* Whatever command is killed at whatever step, a copy that the registry or a
\* fingerprint knows is one whose container was written (the order of seal's
\* last steps).
THEOREM KnownWereWritten == Spec => []KnownCopiesWereWritten
<1>1. ClientInv => KnownCopiesWereWritten
  BY DEF ClientInv, KnownCopiesWereWritten, FilesOK, FileOK
<1> QED
  BY <1>1, ClientInvariant, PTL

\* A step of a command changes it.
LEMMA Moves ==
  ASSUME ClientInv, NEW u \in Front, run[u].todo # << >>, NEW got, Go(u, got) \/ Exit(u)
  PROVE  run[u] # Idle /\ run'[u] # run[u]
<1>1. CommandOK(run[u]) /\ run = [v \in Front |-> run[v]]
  BY DEF ClientInv
<1>2. PICK r : r = run[u]
  OBVIOUS
<1>3. r # Idle /\ Ordered(r.todo) /\ r.todo # << >>
  BY <1>1, <1>2, KindOfCommand
<1>4. CASE Exit(u)
  BY <1>1, <1>2, <1>3, <1>4 DEF Exit
<1>5. CASE Go(u, got)
  <2>1. run'[u] = After(r, got)
    BY <1>1, <1>2, <1>5, GoAfter
  <2>2. After(r, got) # r
    <3>1. CASE Len(r.todo) = 1
      BY <1>3, <3>1 DEF After
    <3>2. CASE Len(r.todo) # 1
      <4>1. "todo" \in DOMAIN r
        BY <1>1, <1>2, <1>3 DEF CommandOK, KeygenOK, SealOK, OpenOK, ImportOK
      <4>2. After(r, got).todo = Tail(r.todo)
        BY <3>2, <4>1 DEF After
      <4>3. Len(Tail(r.todo)) = Len(r.todo) - 1 /\ Len(r.todo) \in Nat
        BY <1>3, HeadTailProperties DEF Ordered
      <4>4. Tail(r.todo) # r.todo
        <5>1. ASSUME NEW k, NEW t, Len(k) = Len(t) - 1, Len(t) \in Nat PROVE k # t
          BY <5>1
        <5> QED
          BY <4>3, <5>1, Zenon
      <4> QED
        BY <4>2, <4>4, Zenon
    <3> QED
      BY <3>1, <3>2
  <2> QED
    BY <1>2, <1>3, <2>1, <2>2
<1> QED
  BY <1>4, <1>5

\* What the step that replaces a private key is.
Unguarded(u, p) ==
  \/ p \in run[u].free
  \/ At(u, "writeSide") /\ p = SideOf[run[u].out]
  \/ (At(u, "emptyImport") \/ At(u, "writeImport")) /\ p = run[u].out /\ run[u].over

\* Seven steps replace a file: four at a path that was checked, one at the
\* path of the fingerprint, two among the recipients.
LEMMA WhoReplaces ==
  ASSUME ClientInv, [Next]_vars, NEW p \in Paths, fs'[p] # fs[p]
  PROVE  \E u \in Front : run[u] # Idle /\ run'[u] # run[u] /\ Unguarded(u, p)
<1>1. PICK u \in Front :
        \/ WriteKey(u) \/ WritePub(u) \/ EmptyImport(u) \/ WriteImport(u)
        \/ WriteSealed(u) \/ WriteSide(u) \/ WriteText(u)
  <2>1. Next
    BY DEF vars
  <2>2. PICK u \in Front :
          \/ CmdKeygen(u) \/ CmdSeal(u) \/ CmdOpen(u) \/ CmdKeysImport(u) \/ Ask(u)
          \/ CheckOutput(u) \/ ReadDoc(u) \/ ReadKeys(u) \/ ReadSealed(u) \/ ReadIdentity(u)
          \/ LoadConfig(u) \/ WriteKey(u) \/ WritePub(u) \/ EmptyConfig(u) \/ WriteConfig(u)
          \/ EmptyImport(u) \/ WriteImport(u) \/ MakeBlob(u) \/ WriteSealed(u) \/ WriteSide(u)
          \/ Register(u) \/ WriteText(u) \/ Killed(u)
    BY <2>1, Zenon DEF Next
  <2>3. CmdKeygen(u) \/ CmdSeal(u) \/ CmdOpen(u) \/ CmdKeysImport(u) => UNCHANGED fs
    BY DEF CmdKeygen, CmdSeal, CmdOpen, CmdKeysImport, Start
  <2>4. /\ Ask(u) \/ CheckOutput(u) \/ ReadDoc(u) \/ ReadKeys(u) \/ ReadSealed(u) => UNCHANGED fs
        /\ ReadIdentity(u) \/ LoadConfig(u) \/ EmptyConfig(u) \/ WriteConfig(u) => UNCHANGED fs
        /\ MakeBlob(u) \/ Register(u) \/ Killed(u) => UNCHANGED fs
    BY DEF Ask, CheckOutput, ReadDoc, ReadKeys, ReadSealed, ReadIdentity, LoadConfig, EmptyConfig,
           WriteConfig, MakeBlob, Register, Killed
  <2> QED
    BY <2>2, <2>3, <2>4
<1>2. PICK r : r = run[u]
  OBVIOUS
<1>3. r.todo # << >> /\ CommandOK(r)
  BY <1>1, <1>2, AtStep
     DEF WriteKey, WritePub, EmptyImport, WriteImport, WriteSealed, WriteSide, WriteText
<1>4. r # Idle /\ Ordered(r.todo)
  BY <1>3, KindOfCommand
<1>5. run[u] # Idle /\ run'[u] # run[u]
  <2>1. \E got : Go(u, got) \/ Exit(u)
    BY <1>1 DEF WriteKey, WritePub, EmptyImport, WriteImport, WriteSealed, WriteSide, WriteText
  <2> QED
    BY <1>2, <1>3, <2>1, Moves
<1>6. ASSUME NEW q, NEW c, Replace(q, c) PROVE q = p
  BY <1>6 DEF Replace, ClientInv, FilesOK
<1>7. CASE WriteKey(u) \/ WriteSealed(u) \/ WriteText(u)
  <2>1. Head(r.todo) \in {"writeKey", "writeSealed", "writeText"}
    BY <1>2, <1>7, AtStep DEF WriteKey, WriteSealed, WriteText
  <2>2. Guarded(r)
    BY <1>3, <2>1, KindOfCommand
       DEF KeygenSteps, SealingSteps, OpenSteps, KeygenOK, SealOK, OpenOK
  <2>3. p = r.out
    BY <1>2, <1>6, <1>7 DEF WriteKey, WriteSealed, WriteText, Replace
  <2>4. p \in r.free
    BY <1>3, <1>4, <2>1, <2>2, <2>3, WriteGuarded DEF Writes
  <2> QED
    BY <1>2, <1>5, <2>4 DEF Unguarded
<1>8. CASE WritePub(u)
  <2>1. Head(r.todo) = "writePub"
    BY <1>2, <1>8, AtStep DEF WritePub
  <2>2. Guarded(r)
    BY <1>3, <2>1, KindOfCommand DEF KeygenSteps, KeygenOK
  <2>3. p = PubOf[r.out]
    BY <1>2, <1>6, <1>8 DEF WritePub
  <2>4. p \in r.free
    BY <1>3, <1>4, <2>1, <2>2, <2>3, WriteGuarded
  <2> QED
    BY <1>2, <1>5, <2>4 DEF Unguarded
<1>9. CASE WriteSide(u)
  <2>1. At(u, "writeSide") /\ p = SideOf[run[u].out]
    BY <1>6, <1>9 DEF WriteSide
  <2> QED
    BY <1>5, <2>1 DEF Unguarded
<1>10. CASE EmptyImport(u) \/ WriteImport(u)
  <2>1. ~r.over => r.out \in r.free
    BY <1>2, <1>3, <1>10, AtStep, KindOfCommand DEF EmptyImport, WriteImport, ImportSteps, ImportOK
  <2>2. p = r.out /\ (At(u, "emptyImport") \/ At(u, "writeImport"))
    BY <1>2, <1>6, <1>10 DEF EmptyImport, WriteImport
  <2>3. Unguarded(u, p)
    BY <1>2, <2>1, <2>2, Zenon DEF Unguarded
  <2> QED
    BY <1>5, <2>3
<1> QED
  BY <1>1, <1>7, <1>8, <1>9, <1>10

\* Every step that replaces a private key file is one of the three kinds that
\* KeysLostOnlyUnguarded lists, whatever the names of the directory are and
\* however the commands interleave: a path that held a key when
\* validate_output_path looked at it keeps it.
THEOREM KeysKept == Spec => KeysLostOnlyUnguarded
<1>1. ClientInv /\ [Next]_vars =>
        [\A p \in Paths : IsPrivate(fs[p]) /\ fs'[p] # fs[p] =>
           \E u \in Front :
             /\ run[u] # Idle /\ run'[u] # run[u]
             /\ \/ p \in run[u].free
                \/ At(u, "writeSide") /\ p = SideOf[run[u].out]
                \/ (At(u, "emptyImport") \/ At(u, "writeImport")) /\ p = run[u].out /\ run[u].over]_vars
  BY WhoReplaces DEF Unguarded
<1> QED
  BY <1>1, ClientInvariant, PTL DEF Spec, KeysLostOnlyUnguarded
=============================================================================
