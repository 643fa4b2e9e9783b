------------------------- MODULE NodeStorageProofs -------------------------
(***************************************************************************)
(* What the node keeps survives any number of power losses: the version    *)
(* word vouches for the settings behind it, a node runs on what it would   *)
(* start with, agrees with its stack about its network and reports its own *)
(* id, for any ids, groups, TTLs and any sequence of events.               *)
(***************************************************************************)
EXTENDS NodeStorage, TLAPS

Trusted == {"bearer", "ttl", "groups"}

AnyValue == (UNION {Value(w) : w \in Word}) \cup {Erased, Old}
AnyWrite == [word : Word, value : AnyValue]

Pending(w) == \E i \in DOMAIN todo : todo[i].word = w

(* When the running handler is done, the word w is v.                      *)
Settles(w, v) ==
  /\ nvm[w] = v \/ Pending(w)
  /\ \A i \in DOMAIN todo : todo[i].word = w => todo[i].value = v

(* What has still to be written is proper, and the version comes last.     *)
WritesOK ==
  /\ DOMAIN nvm = Word /\ \A w \in Word : nvm[w] \in AnyValue
  /\ todo \in Seq(AnyWrite)
  /\ handler = "none" => todo = <<>>
  /\ ~power => handler = "none"
  /\ \A w \in Trusted : nvm[w] \in Value(w) \cup {Erased, Old}
  /\ \A i \in DOMAIN todo :
       /\ todo[i].word \in Trusted => todo[i].value \in Value(todo[i].word)
       /\ todo[i].word = "version" =>
            \A w \in Trusted :
              Written(w) \/ \E j \in DOMAIN todo : j < i /\ todo[j].word = w
  /\ VersionIsLast

(* The start settles the version, so that its end finds all settings       *)
(* written; from then on the variables and the words go together.          *)
Settled ==
  /\ bearer_tx_state \in Bearer /\ ttl_value \in Ttl
  /\ data_model_groups \in Groups /\ Local_MESH_ID \in AnyValue
  /\ power => Settles("bearer", bearer_tx_state) /\ Settles("ttl", ttl_value)
  /\ handler = "boot" => Settles("version", "current")
  /\ power /\ handler # "boot" =>
       /\ Settles("groups", data_model_groups)
       /\ \/ Settles("assoc", assoc_state)
          \/ assoc_state = "association_started"

StorageInv == WritesOK /\ Settled

LEMMA Values ==
  /\ Value("bearer") = Bearer /\ Value("ttl") = Ttl
  /\ Value("groups") = Groups
  BY DEF Value

(* What the header files give a new node is a setting.                     *)
LEMMA Defaults ==
  /\ DefaultBearer \in Bearer /\ DefaultTtl \in Ttl
  /\ initializeSupportedModelGroups \in Groups
  BY DefaultAssumption
  DEF DefaultBearer, Bearer, initializeSupportedModelGroups, Groups

(* Words, each with a value of its own kind, may be on a list.             *)
LEMMA ValuesAny ==
  /\ Bearer \cup Ttl \cup Groups \cup Id \cup BOOLEAN \subseteq AnyValue
  /\ {NoId, "current", "associated", "not_associated"} \subseteq AnyValue
<1>1. \A w \in Word : Value(w) \subseteq AnyValue
  BY DEF AnyValue
<1>2. /\ Value("bearer") \cup Value("ttl") \cup Value("groups")
         \subseteq AnyValue
      /\ Value("network") \subseteq AnyValue
      /\ Value("sanity") \subseteq AnyValue
      /\ Value("version") \subseteq AnyValue
      /\ Value("assoc") \subseteq AnyValue
  BY <1>1 DEF Word
<1>3. /\ Value("network") = Id \cup {NoId} /\ Value("sanity") = BOOLEAN
      /\ Value("version") = {"current"}
      /\ Value("assoc") = {"not_associated", "associated"}
  BY DEF Value
<1> QED
  BY <1>2, <1>3, Values

LEMMA ProperWrite ==
  ASSUME NEW w \in Word, NEW v \in AnyValue
  PROVE  /\ Write(w, v) \in AnyWrite
         /\ Write(w, v).word = w /\ Write(w, v).value = v
  BY DEF Write, AnyWrite

(* Writing a word takes it off the list.                                   *)
LEMMA Shifted ==
  ASSUME NEW S, NEW s \in Seq(S), s # <<>>
  PROVE  /\ Tail(s) \in Seq(S) /\ 1 \in DOMAIN s /\ Head(s) = s[1]
         /\ \A i \in DOMAIN Tail(s) :
              i \in Nat /\ i + 1 \in DOMAIN s /\ Tail(s)[i] = s[i + 1]
         /\ \A i \in DOMAIN s \ {1} :
              i - 1 \in DOMAIN Tail(s) /\ Tail(s)[i - 1] = s[i]
  OBVIOUS

LEMMA StorageInit == Init => StorageInv
<1> SUFFICES ASSUME Init PROVE StorageInv
  OBVIOUS
<1>1. /\ DOMAIN nvm = Word
      /\ \A w \in Trusted : nvm[w] \in {Erased, Old}
      /\ nvm["version"] \in {Erased, Old}
      /\ \A w \in Word : nvm[w] \in AnyValue
  <2>1. ASSUME nvm = Blank
        PROVE  /\ DOMAIN nvm = Word
               /\ \A w \in Trusted : nvm[w] \in {Erased, Old}
               /\ nvm["version"] \in {Erased, Old}
    BY <2>1 DEF Blank, Word, Trusted
  <2>2. ASSUME NEW sanity, NEW id, nvm = Used(sanity, id)
        PROVE  /\ DOMAIN nvm = Word
               /\ \A w \in Trusted : nvm[w] \in {Erased, Old}
               /\ nvm["version"] \in {Erased, Old}
    BY <2>2 DEF Used, Word, Trusted
  <2>3. \A w \in Word : nvm[w] \in AnyValue
    <3>1. /\ {Erased, Old, TRUE, FALSE, NoId, "associated"} \subseteq AnyValue
          /\ "not_associated" \in AnyValue /\ Id \subseteq AnyValue
      BY ValuesAny DEF AnyValue
    <3>2. CASE nvm = Blank
      BY <3>1, <3>2 DEF Blank, NoNetwork, Word
    <3>3. ASSUME NEW sanity \in BOOLEAN, NEW id \in OwnIds \cup {NoNetwork},
                 nvm = Used(sanity, id)
          PROVE  \A w \in Word : nvm[w] \in AnyValue
      <4>1. id \in AnyValue
        BY <3>1, <3>3, IdAssumption DEF NoNetwork
      <4>2. sanity \in AnyValue
        BY <3>1, <3>3
      <4> QED
        BY <3>1, <3>3, <4>1, <4>2 DEF Used, Word
    <3> QED
      BY <3>2, <3>3 DEF Init
  <2> QED
    BY <2>1, <2>2, <2>3 DEF Init
<1>2. ~power /\ handler = "none" /\ todo = <<>>
  BY DEF Init
<1>3. WritesOK
  BY <1>1, <1>2, MarkAssumption DEF WritesOK, VersionIsLast
<1>4. /\ bearer_tx_state \in Bearer /\ ttl_value \in Ttl
      /\ data_model_groups \in Groups /\ Local_MESH_ID \in AnyValue
  BY Defaults, ValuesAny DEF Init
<1> QED
  BY <1>2, <1>3, <1>4 DEF StorageInv, Settled

(* What a write does to the words and to the list; what a word settles to  *)
(* does not change.                                                        *)
LEMMA WriteEffect ==
  ASSUME StorageInv, Nvm_Write
  PROVE  /\ todo' \in Seq(AnyWrite) /\ 1 \in DOMAIN todo
         /\ \A i \in DOMAIN todo' :
              i \in Nat /\ i + 1 \in DOMAIN todo /\ todo'[i] = todo[i + 1]
         /\ \A i \in DOMAIN todo \ {1} :
              i - 1 \in DOMAIN todo' /\ todo'[i - 1] = todo[i]
         /\ DOMAIN nvm' = Word
         /\ todo[1].word \in Word /\ todo[1].value \in AnyValue
         /\ \A w \in Word : nvm'[w] = IF w = todo[1].word THEN todo[1].value
                                      ELSE nvm[w]
         /\ \A w \in Word : \A v : Settles(w, v) => Settles(w, v)'
<1> DEFINE w1 == todo[1].word
           v1 == todo[1].value
<1>1. /\ todo # <<>> /\ todo' = Tail(todo)
      /\ nvm' = [nvm EXCEPT ![Head(todo).word] = Head(todo).value]
  BY DEF Nvm_Write
<1>2. todo \in Seq(AnyWrite) /\ DOMAIN nvm = Word
  BY DEF StorageInv, WritesOK
<1>3. /\ todo' \in Seq(AnyWrite) /\ 1 \in DOMAIN todo
      /\ \A i \in DOMAIN todo' :
           i \in Nat /\ i + 1 \in DOMAIN todo /\ todo'[i] = todo[i + 1]
      /\ \A i \in DOMAIN todo \ {1} :
           i - 1 \in DOMAIN todo' /\ todo'[i - 1] = todo[i]
      /\ Head(todo) = todo[1]
  BY <1>1, <1>2, Shifted
<1>4. /\ DOMAIN nvm' = Word /\ w1 \in Word /\ v1 \in AnyValue
      /\ \A w \in Word : nvm'[w] = IF w = w1 THEN v1 ELSE nvm[w]
  <2>1. w1 \in Word /\ v1 \in AnyValue
    <3>1. todo[1] \in AnyWrite
      BY <1>2, <1>3
    <3> QED
      BY <3>1 DEF AnyWrite
  <2>2. nvm' = [nvm EXCEPT ![w1] = v1]
    BY <1>1, <1>3
  <2> HIDE DEF w1, v1
  <2> QED
    BY <1>2, <2>1, <2>2
<1>5. ASSUME NEW w \in Word, NEW v, Settles(w, v)
      PROVE  Settles(w, v)'
  <2>1. \A i \in DOMAIN todo' : todo'[i].word = w => todo'[i].value = v
    BY <1>3, <1>5 DEF Settles
  <2>2. nvm'[w] = v \/ \E i \in DOMAIN todo' : todo'[i].word = w
    <3>1. CASE w = w1
      BY <1>3, <1>4, <1>5, <3>1 DEF Settles
    <3>2. CASE w # w1
      BY <1>3, <1>4, <1>5, <3>2 DEF Settles, Pending
    <3> QED
      BY <3>1, <3>2
  <2> QED
    BY <2>1, <2>2 DEF Settles, Pending
<1> QED
  BY <1>3, <1>4, <1>5

(* A write that was on the list keeps all that has been said of it.        *)
LEMMA WriteKeeps == StorageInv /\ Nvm_Write => StorageInv'
<1> SUFFICES ASSUME StorageInv, Nvm_Write PROVE StorageInv'
  OBVIOUS
<1> DEFINE w1 == todo[1].word
           v1 == todo[1].value
<1>1. /\ power /\ todo # <<>> /\ power' = power
      /\ handler' = IF Len(todo) = 1 /\ handler # "boot" THEN "none"
                    ELSE handler
      /\ UNCHANGED <<bearer_tx_state, ttl_value, data_model_groups,
                     assoc_state, Local_MESH_ID>>
  BY DEF Nvm_Write, settings, association, status
<1>2. todo \in Seq(AnyWrite) /\ DOMAIN nvm = Word /\ todo' = Tail(todo)
  BY DEF StorageInv, WritesOK, Nvm_Write
<1>3. /\ todo' \in Seq(AnyWrite) /\ 1 \in DOMAIN todo
      /\ \A i \in DOMAIN todo' :
           i \in Nat /\ i + 1 \in DOMAIN todo /\ todo'[i] = todo[i + 1]
      /\ \A i \in DOMAIN todo \ {1} :
           i - 1 \in DOMAIN todo' /\ todo'[i - 1] = todo[i]
  BY WriteEffect
<1>4. /\ DOMAIN nvm' = Word /\ w1 \in Word /\ v1 \in AnyValue
      /\ \A w \in Word : nvm'[w] = IF w = w1 THEN v1 ELSE nvm[w]
  BY WriteEffect
<1>6. Trusted \subseteq Word /\ {"version", "assoc"} \subseteq Word
  BY DEF Trusted, Word
<1>7. /\ \A w \in Trusted : nvm'[w] \in Value(w) \cup {Erased, Old}
      /\ \A w \in Word : nvm'[w] \in AnyValue
  BY <1>3, <1>4, <1>6 DEF StorageInv, WritesOK
<1>8. \A w \in Trusted : Written(w) \/ w = w1 => Written(w)'
  BY <1>3, <1>4, <1>6, MarkAssumption, Values
  DEF StorageInv, WritesOK, Written, Trusted
<1>9. ASSUME NEW i \in DOMAIN todo'
      PROVE  /\ todo'[i].word \in Trusted =>
                  todo'[i].value \in Value(todo'[i].word)
             /\ todo'[i].word = "version" =>
                  \A w \in Trusted :
                    \/ Written(w)'
                    \/ \E j \in DOMAIN todo' : j < i /\ todo'[j].word = w
  <2>1. i + 1 \in DOMAIN todo /\ todo'[i] = todo[i + 1] /\ i \in Nat
    BY <1>3
  <2>2. todo'[i].word \in Trusted => todo'[i].value \in Value(todo'[i].word)
    BY <2>1 DEF StorageInv, WritesOK
  <2>3. ASSUME todo'[i].word = "version", NEW w \in Trusted, ~Written(w)'
        PROVE  \E j \in DOMAIN todo' : j < i /\ todo'[j].word = w
    <3>1. PICK j \in DOMAIN todo : j < i + 1 /\ todo[j].word = w
      BY <2>1, <2>3, <1>8 DEF StorageInv, WritesOK
    <3>2. j # 1
      BY <2>3, <3>1, <1>8
    <3>3. j - 1 \in DOMAIN todo' /\ todo'[j - 1].word = w
      BY <3>1, <3>2, <1>3
    <3>4. j - 1 < i
      BY <1>2, <2>1, <3>1
    <3> QED
      BY <3>3, <3>4
  <2> QED
    BY <2>2, <2>3
<1>10. VersionIsLast'
  <2>1. CASE w1 = "version"
    <3>1. \A w \in Trusted :
            Written(w) \/ \E j \in DOMAIN todo : j < 1 /\ todo[j].word = w
      BY <1>3, <2>1 DEF StorageInv, WritesOK
    <3>2. \A j \in DOMAIN todo : ~(j < 1)
      BY <1>2
    <3> QED
      BY <1>8, <3>1, <3>2 DEF VersionIsLast, Trusted
  <2>2. CASE w1 # "version"
    BY <1>4, <1>6, <1>8, <2>2
    DEF StorageInv, WritesOK, VersionIsLast, Trusted
  <2> QED
    BY <2>1, <2>2
<1>11. /\ handler' = "none" => todo' = <<>>
       /\ ~power' => handler' = "none"
  BY <1>1, <1>2 DEF StorageInv, WritesOK
<1>12. WritesOK'
  BY <1>3, <1>4, <1>7, <1>9, <1>10, <1>11 DEF WritesOK
<1>13. \A w \in Word : \A v : Settles(w, v) => Settles(w, v)'
  BY WriteEffect
<1>14. Settled'
  BY <1>1, <1>6, <1>13 DEF StorageInv, Settled, Trusted
<1> QED
  BY <1>12, <1>14 DEF StorageInv

(* A handler that changes no word of its own accord and writes none, or    *)
(* one that nothing relies on, keeps what there is.                        *)
LEMMA QuietKeeps ==
  ASSUME StorageInv, UNCHANGED <<nvm, power, handler, todo>>,
         UNCHANGED <<bearer_tx_state, ttl_value, data_model_groups>>,
         Local_MESH_ID' \in AnyValue,
         assoc_state' \in {assoc_state, "association_started"}
  PROVE  StorageInv'
<1>1. WritesOK'
  BY DEF StorageInv, WritesOK, VersionIsLast, Written
<1>2. Settled'
  BY DEF StorageInv, Settled, Settles, Pending
<1> QED
  BY <1>1, <1>2 DEF StorageInv

(* A handler that begins changes only the words on its list.               *)
LEMMA BeginKeeps ==
  ASSUME StorageInv, Idle_, UNCHANGED <<nvm, power>>,
         handler' \in {"association", "removal", "setting"},
         todo' \in Seq(AnyWrite),
         \A i \in DOMAIN todo' :
           /\ todo'[i].word # "version"
           /\ todo'[i].word \in Trusted =>
                todo'[i].value \in Value(todo'[i].word)
  PROVE  /\ WritesOK'
         /\ \A w \in Word : \A v :
              nvm[w] = v /\ (\A i \in DOMAIN todo' : todo'[i].word # w)
              => Settles(w, v)'
<1>1. VersionIsLast'
  BY DEF StorageInv, WritesOK, VersionIsLast, Written
<1> QED
  BY <1>1 DEF StorageInv, WritesOK, Idle_, Settles

(* Between handlers the words are those of the variables.                  *)
LEMMA IdleSettled ==
  StorageInv /\ Idle_ =>
    /\ todo = <<>>
    /\ nvm["bearer"] = bearer_tx_state /\ nvm["ttl"] = ttl_value
    /\ nvm["groups"] = data_model_groups
    /\ nvm["assoc"] = assoc_state \/ assoc_state = "association_started"
  BY DEF StorageInv, WritesOK, Settled, Settles, Pending, Idle_

(* One word of the settings is written.                                    *)
LEMMA SettingKeeps ==
  ASSUME StorageInv, Idle_, UNCHANGED <<nvm, power>>,
         NEW w \in Word \ {"version"}, NEW v,
         v \in AnyValue, w \in Trusted => v \in Value(w),
         Begin("setting", <<Write(w, v)>>),
         Local_MESH_ID' \in AnyValue,
         bearer_tx_state' = IF w = "bearer" THEN v ELSE bearer_tx_state,
         ttl_value' = IF w = "ttl" THEN v ELSE ttl_value,
         data_model_groups' = IF w = "groups" THEN v ELSE data_model_groups,
         assoc_state' = IF w = "assoc" THEN v ELSE assoc_state
  PROVE  StorageInv'
<1>1. /\ handler' = "setting" /\ todo' \in Seq(AnyWrite)
      /\ DOMAIN todo' = {1} /\ todo'[1].word = w /\ todo'[1].value = v
  BY ProperWrite DEF Begin
<1>2. /\ WritesOK'
      /\ \A u \in Word : \A x : nvm[u] = x /\ u # w => Settles(u, x)'
  BY <1>1, BeginKeeps
<1>3. Settles(w, v)'
  BY <1>1 DEF Settles, Pending
<1>4. /\ Settles("bearer", bearer_tx_state)' /\ Settles("ttl", ttl_value)'
      /\ Settles("groups", data_model_groups)'
      /\ \/ Settles("assoc", assoc_state)'
         \/ assoc_state' = "association_started"
  BY <1>2, <1>3, IdleSettled DEF Word
<1>5. /\ bearer_tx_state' \in Bearer /\ ttl_value' \in Ttl
      /\ data_model_groups' \in Groups
  BY Values DEF StorageInv, Settled, Trusted
<1> QED
  BY <1>1, <1>2, <1>4, <1>5 DEF StorageInv, Settled

LEMMA Joined ==
  ASSUME NEW S, NEW a \in Seq(S), NEW b \in Seq(S)
  PROVE  /\ a \o b \in Seq(S) /\ Len(a \o b) = Len(a) + Len(b)
         /\ \A i \in 1 .. Len(a) : (a \o b)[i] = a[i]
         /\ \A i \in 1 .. Len(b) : (a \o b)[Len(a) + i] = b[i]
  OBVIOUS

(* The start of the program: what it resets it writes, what it reads is    *)
(* what there is; the version is current then, or on the list.             *)
LEMMA PowerOnKeeps == StorageInv /\ PowerOn => StorageInv'
<1> SUFFICES ASSUME StorageInv, PowerOn PROVE StorageInv'
  OBVIOUS
<1> DEFINE fresh == ~nvm["sanity"]
           reset == fresh \/ nvm["version"] # "current"
<1>1. /\ handler' = "boot" /\ power' /\ UNCHANGED <<nvm, data_model_groups>>
      /\ bearer_tx_state' = IF reset THEN DefaultBearer ELSE nvm["bearer"]
      /\ ttl_value' = IF reset THEN DefaultTtl ELSE nvm["ttl"]
      /\ Local_MESH_ID' = Local_MESH_ID
      /\ todo' = (IF fresh THEN FreshWrites ELSE <<>>)
                 \o (IF reset THEN DefaultWrites ELSE <<>>)
  BY DEF PowerOn, Begin
<1> DEFINE d1 == Write("bearer", DefaultBearer)
           d2 == Write("ttl", DefaultTtl)
           d3 == Write("groups", initializeSupportedModelGroups)
           d4 == Write("version", "current")
           f1 == Write("sanity", TRUE)
           f2 == Write("status", NoId)
           f3 == Write("assoc", "not_associated")
           f4 == Write("uuid", TRUE)
<1>2. /\ d1 \in AnyWrite /\ d2 \in AnyWrite /\ d3 \in AnyWrite
      /\ d4 \in AnyWrite /\ f1 \in AnyWrite /\ f2 \in AnyWrite
      /\ f3 \in AnyWrite /\ f4 \in AnyWrite
  <2>1. /\ DefaultBearer \in AnyValue /\ DefaultTtl \in AnyValue
        /\ initializeSupportedModelGroups \in AnyValue /\ TRUE \in AnyValue
        /\ "current" \in AnyValue /\ "not_associated" \in AnyValue
        /\ NoId \in AnyValue
    BY ValuesAny, Defaults
  <2>2. \A w \in Word : \A v \in AnyValue : Write(w, v) \in AnyWrite
    BY ProperWrite
  <2>3. {"bearer", "ttl", "groups", "version", "sanity", "status", "assoc",
         "uuid"} \subseteq Word
    BY DEF Word
  <2> QED
    BY <2>1, <2>2, <2>3
<1>3. /\ d1.word = "bearer" /\ d1.value = DefaultBearer
      /\ d2.word = "ttl" /\ d2.value = DefaultTtl
      /\ d3.word = "groups" /\ d3.value = initializeSupportedModelGroups
      /\ d4.word = "version" /\ d4.value = "current"
      /\ f1.word = "sanity" /\ f2.word = "status" /\ f3.word = "assoc"
      /\ f4.word = "uuid"
  BY DEF Write
<1>4. DefaultWrites = <<d1, d2, d3, d4>>
  BY DEF DefaultWrites
<1>5. FreshWrites = <<f1, f2, f3, f4, f1>>
  BY DEF FreshWrites
<1> HIDE DEF d1, d2, d3, d4, f1, f2, f3, f4, fresh, reset
<1>6. /\ DefaultWrites \in Seq(AnyWrite) /\ Len(DefaultWrites) = 4
      /\ DefaultWrites[1] = d1 /\ DefaultWrites[2] = d2
      /\ DefaultWrites[3] = d3 /\ DefaultWrites[4] = d4
  BY <1>2, <1>4
<1>7. /\ FreshWrites \in Seq(AnyWrite) /\ Len(FreshWrites) = 5
      /\ \A i \in 1 .. 5 :
           FreshWrites[i].word \notin Trusted \cup {"version"}
  <2>1. \A i \in 1 .. 5 : FreshWrites[i] \in {f1, f2, f3, f4}
    BY <1>5
  <2>2. FreshWrites \in Seq(AnyWrite) /\ Len(FreshWrites) = 5
    BY <1>2, <1>5
  <2> QED
    BY <1>3, <2>1, <2>2 DEF Trusted
<1>8. CASE ~reset
  <2>1. nvm["version"] = "current" /\ ~fresh
    BY <1>8 DEF reset
  <2>2. todo' = <<>>
    BY <1>1, <1>8, <2>1
  <2>3. \A w \in Trusted : Written(w)
    BY <2>1 DEF StorageInv, WritesOK, VersionIsLast, Trusted
  <2>4. VersionIsLast'
    BY <1>1, <2>3 DEF VersionIsLast, Written, Trusted
  <2>5. WritesOK'
    <3>1. todo' \in Seq(AnyWrite) /\ DOMAIN todo' = {}
      BY <2>2
    <3> QED
      BY <1>1, <2>4, <3>1 DEF StorageInv, WritesOK
  <2>6. nvm["bearer"] \in Bearer /\ nvm["ttl"] \in Ttl
    BY <2>3, Values DEF StorageInv, WritesOK, Written, Trusted
  <2> QED
    BY <1>1, <1>8, <2>1, <2>2, <2>5, <2>6 DEF StorageInv, Settled, Settles
<1>9. ASSUME reset,
             NEW n \in Nat, todo' \in Seq(AnyWrite), Len(todo') = n + 4,
             \A i \in 1 .. n : todo'[i].word \notin Trusted \cup {"version"},
             todo'[n + 1] = d1, todo'[n + 2] = d2,
             todo'[n + 3] = d3, todo'[n + 4] = d4
      PROVE  StorageInv'
  <2>1. /\ DOMAIN todo' = 1 .. n + 4
        /\ {n + 1, n + 2, n + 3, n + 4} \subseteq DOMAIN todo'
        /\ \A i \in DOMAIN todo' :
             i \in 1 .. n \/ i = n + 1 \/ i = n + 2 \/ i = n + 3 \/ i = n + 4
    BY <1>9
  <2>2. \A i \in DOMAIN todo' :
          todo'[i].word \in Trusted => todo'[i].value \in Value(todo'[i].word)
    <3>1. /\ d1.value \in Value(d1.word) /\ d2.value \in Value(d2.word)
          /\ d3.value \in Value(d3.word)
      BY <1>3, Values, Defaults
    <3>2. d4.word \notin Trusted
      BY <1>3 DEF Trusted
    <3> QED
      BY <1>9, <2>1, <3>1, <3>2
  <2>3. \A i \in DOMAIN todo' : todo'[i].word = "version" => i = n + 4
    BY <1>3, <1>9, <2>1
  <2>4. \A w \in Trusted :
          \E j \in DOMAIN todo' : j < n + 4 /\ todo'[j].word = w
    BY <1>3, <1>9, <2>1 DEF Trusted
  <2>5. VersionIsLast'
    BY <1>1 DEF StorageInv, WritesOK, VersionIsLast, Written
  <2>6. WritesOK'
    <3>1. \A i \in DOMAIN todo' : todo'[i].word = "version" =>
            \A w \in Trusted :
              \/ Written(w)'
              \/ \E j \in DOMAIN todo' : j < i /\ todo'[j].word = w
      BY <2>3, <2>4
    <3>2. /\ DOMAIN nvm' = Word /\ \A w \in Word : nvm'[w] \in AnyValue
          /\ \A w \in Trusted : nvm'[w] \in Value(w) \cup {Erased, Old}
          /\ handler' # "none" /\ power'
      BY <1>1 DEF StorageInv, WritesOK
    <3> QED
      BY <1>9, <2>2, <2>5, <3>1, <3>2 DEF WritesOK
  <2>7. /\ Settles("bearer", bearer_tx_state)'
        /\ Settles("ttl", ttl_value)' /\ Settles("version", "current")'
    BY <1>1, <1>3, <1>9, <2>1 DEF Settles, Pending, Trusted
  <2> QED
    BY <1>1, <1>9, <2>6, <2>7, Defaults DEF StorageInv, Settled
<1>10. CASE reset /\ fresh
  <2>1. todo' = FreshWrites \o DefaultWrites
    BY <1>1, <1>10
  <2>2. /\ todo' \in Seq(AnyWrite) /\ Len(todo') = 5 + 4
        /\ \A i \in 1 .. 5 : todo'[i] = FreshWrites[i]
        /\ \A i \in 1 .. 4 : todo'[5 + i] = DefaultWrites[i]
    <3>1. FreshWrites \in Seq(AnyWrite) /\ DefaultWrites \in Seq(AnyWrite)
      BY <1>6, <1>7
    <3>2. /\ todo' \in Seq(AnyWrite)
          /\ Len(todo') = Len(FreshWrites) + Len(DefaultWrites)
          /\ \A i \in 1 .. Len(FreshWrites) : todo'[i] = FreshWrites[i]
          /\ \A i \in 1 .. Len(DefaultWrites) :
               todo'[Len(FreshWrites) + i] = DefaultWrites[i]
      BY <2>1, <3>1, Joined
    <3> QED
      BY <1>6, <1>7, <3>2
  <2> QED
    BY <1>6, <1>7, <1>9, <1>10, <2>2
<1>11. CASE reset /\ ~fresh
  <2>1. todo' = DefaultWrites
    BY <1>1, <1>6, <1>11
  <2>2. /\ todo' \in Seq(AnyWrite) /\ Len(todo') = 0 + 4 /\ 0 \in Nat
        /\ \A i \in 1 .. 0 : todo'[i].word \notin Trusted \cup {"version"}
        /\ todo'[0 + 1] = d1 /\ todo'[0 + 2] = d2
        /\ todo'[0 + 3] = d3 /\ todo'[0 + 4] = d4
    BY <1>6, <2>1
  <2> QED
    BY <1>9, <1>11, <2>2
<1> QED
  BY <1>8, <1>10, <1>11

(* Its end reads the groups and the association.                           *)
LEMMA AppMeshInitKeeps == StorageInv /\ AppMeshInit => StorageInv'
<1> SUFFICES ASSUME StorageInv, AppMeshInit PROVE StorageInv'
  OBVIOUS
<1>1. /\ power /\ handler = "boot" /\ todo = <<>> /\ UNCHANGED <<nvm, power>>
      /\ data_model_groups' = nvm["groups"] /\ assoc_state' = nvm["assoc"]
      /\ UNCHANGED <<bearer_tx_state, ttl_value, Local_MESH_ID>>
  BY DEF AppMeshInit, status
<1>2. nvm["version"] = "current"
  BY <1>1 DEF StorageInv, Settled, Settles, Pending
<1>3. \A w \in Trusted : Written(w)
  BY <1>2 DEF StorageInv, WritesOK, VersionIsLast, Trusted
<1>4. nvm["groups"] \in Groups
  BY <1>3, Values DEF StorageInv, WritesOK, Written, Trusted
<1>5. /\ handler' \in {"none", "association"} /\ todo' \in Seq(AnyWrite)
      /\ handler' = "none" => todo' = <<>>
      /\ \A i \in DOMAIN todo' : todo'[i].word = "network"
  <2> DEFINE write == Write("network", NoNetwork)
  <2>1. write \in AnyWrite /\ write.word = "network"
    BY ValuesAny, ProperWrite DEF Word, NoNetwork
  <2>2. \/ handler' = "none" /\ todo' = <<>>
        \/ handler' = "association" /\ todo' = <<write>>
    BY DEF AppMeshInit, Begin, StartWrites
  <2> HIDE DEF write
  <2>3. CASE handler' = "none" /\ todo' = <<>>
    BY <2>3
  <2>4. CASE handler' = "association" /\ todo' = <<write>>
    <3>1. todo' \in Seq(AnyWrite)
      BY <2>1, <2>4
    <3>2. \A i \in DOMAIN todo' : todo'[i] = write
      BY <2>4
    <3> QED
      BY <2>1, <2>4, <3>1, <3>2
  <2> QED
    BY <2>2, <2>3, <2>4
<1>6. WritesOK'
  BY <1>1, <1>2, <1>3, <1>5
  DEF StorageInv, WritesOK, VersionIsLast, Written, Trusted
<1>7. Settled'
  BY <1>1, <1>4, <1>5 DEF StorageInv, Settled, Settles, Pending
<1> QED
  BY <1>6, <1>7 DEF StorageInv

(* An association and its removal write what their variables became.       *)
LEMMA AssociationKeeps ==
  ASSUME StorageInv, NEW id \in Id, AssocComplete(id)
  PROVE  StorageInv'
<1> DEFINE a1 == Write("network", id)
           a2 == Write("assoc", "associated")
           a3 == Write("bearer", "own")
<1>1. /\ Idle_ /\ UNCHANGED <<nvm, power, ttl_value, data_model_groups>>
      /\ assoc_state' = "associated" /\ bearer_tx_state' = "own"
      /\ Local_MESH_ID' \in {id, Local_MESH_ID}
      /\ handler' = "association" /\ todo' = <<a1, a2, a3>>
  BY DEF AssocComplete, setStatus, Begin, AssociatedWrites
<1>2. /\ a1 \in AnyWrite /\ a2 \in AnyWrite /\ a3 \in AnyWrite
      /\ a1.word = "network" /\ a2.word = "assoc" /\ a3.word = "bearer"
      /\ a2.value = "associated" /\ a3.value = "own" /\ "own" \in Bearer
  <2>1. /\ "own" \in Bearer /\ id \in AnyValue /\ "own" \in AnyValue
        /\ "associated" \in AnyValue
    BY ValuesAny DEF Bearer
  <2>2. {"network", "assoc", "bearer"} \subseteq Word
    BY DEF Word
  <2> QED
    BY <2>1, <2>2, ProperWrite
<1> HIDE DEF a1, a2, a3
<1>3. /\ todo' \in Seq(AnyWrite) /\ DOMAIN todo' = 1 .. 3
      /\ todo'[1] = a1 /\ todo'[2] = a2 /\ todo'[3] = a3
  BY <1>1, <1>2
<1>4. \A i \in DOMAIN todo' : todo'[i] \in {a1, a2, a3}
  BY <1>3
<1>5. a3.value \in Value(a3.word)
  BY <1>2, Values
<1>6. /\ WritesOK'
      /\ \A w \in Word \ {"network", "assoc", "bearer"} : \A v :
           nvm[w] = v => Settles(w, v)'
  BY <1>1, <1>2, <1>3, <1>4, <1>5, BeginKeeps DEF Trusted
<1>7. Settles("assoc", assoc_state)' /\ Settles("bearer", bearer_tx_state)'
  BY <1>1, <1>2, <1>3, <1>4 DEF Settles, Pending
<1>8. Settles("ttl", ttl_value)' /\ Settles("groups", data_model_groups)'
  BY <1>1, <1>6, IdleSettled DEF Word
<1>9. Local_MESH_ID' \in AnyValue
  BY <1>1, ValuesAny DEF StorageInv, Settled
<1> QED
  BY <1>1, <1>2, <1>6, <1>7, <1>8, <1>9 DEF StorageInv, Settled

LEMMA RemovalKeeps == StorageInv /\ RemoveAssociation => StorageInv'
<1> SUFFICES ASSUME StorageInv, RemoveAssociation PROVE StorageInv'
  OBVIOUS
<1> DEFINE r1 == Write("network", NoNetwork)
           r2 == Write("bearer", DefaultBearer)
           r3 == Write("assoc", "not_associated")
           r4 == Write("ttl", DefaultTtl)
           r5 == Write("groups", initializeSupportedModelGroups)
<1>1. /\ Idle_ /\ UNCHANGED <<nvm, power, Local_MESH_ID>>
      /\ assoc_state' = "not_associated" /\ bearer_tx_state' = DefaultBearer
      /\ ttl_value' = DefaultTtl
      /\ data_model_groups' = initializeSupportedModelGroups
      /\ handler' = "removal" /\ todo' = <<r1, r2, r3, r4, r5>>
  BY DEF RemoveAssociation, configurable, Begin, RemovalWrites, status
<1>2. /\ r1 \in AnyWrite /\ r2 \in AnyWrite /\ r3 \in AnyWrite
      /\ r4 \in AnyWrite /\ r5 \in AnyWrite
  <2>1. /\ NoNetwork \in AnyValue /\ DefaultBearer \in AnyValue
        /\ "not_associated" \in AnyValue /\ DefaultTtl \in AnyValue
        /\ initializeSupportedModelGroups \in AnyValue
    BY ValuesAny, Defaults DEF NoNetwork
  <2>2. {"network", "bearer", "assoc", "ttl", "groups"} \subseteq Word
    BY DEF Word
  <2> QED
    BY <2>1, <2>2, ProperWrite
<1>3. /\ r1.word = "network"
      /\ r2.word = "bearer" /\ r2.value = DefaultBearer
      /\ r3.word = "assoc" /\ r3.value = "not_associated"
      /\ r4.word = "ttl" /\ r4.value = DefaultTtl
      /\ r5.word = "groups" /\ r5.value = initializeSupportedModelGroups
  BY DEF Write
<1> HIDE DEF r1, r2, r3, r4, r5
<1>4. /\ todo' \in Seq(AnyWrite) /\ DOMAIN todo' = 1 .. 5
      /\ todo'[1] = r1 /\ todo'[2] = r2 /\ todo'[3] = r3 /\ todo'[4] = r4
      /\ todo'[5] = r5
  BY <1>1, <1>2
<1>5. \A i \in DOMAIN todo' : todo'[i] \in {r1, r2, r3, r4, r5}
  BY <1>4
<1>6. /\ r2.value \in Value(r2.word) /\ r4.value \in Value(r4.word)
      /\ r5.value \in Value(r5.word)
  BY <1>3, Values, Defaults
<1>7. WritesOK'
  BY <1>1, <1>3, <1>4, <1>5, <1>6, BeginKeeps DEF Trusted
<1>8. /\ Settles("assoc", assoc_state)' /\ Settles("bearer", bearer_tx_state)'
      /\ Settles("ttl", ttl_value)' /\ Settles("groups", data_model_groups)'
  BY <1>1, <1>3, <1>4, <1>5 DEF Settles, Pending
<1> QED
  BY <1>1, <1>7, <1>8, Defaults DEF StorageInv, Settled

LEMMA CrashKeeps == StorageInv /\ Crash => StorageInv'
<1> SUFFICES ASSUME StorageInv, Crash PROVE StorageInv'
  OBVIOUS
<1>1. /\ ~power' /\ handler' = "none" /\ todo' = <<>> /\ nvm' = nvm
      /\ bearer_tx_state' = DefaultBearer /\ ttl_value' = DefaultTtl
      /\ data_model_groups' = initializeSupportedModelGroups
      /\ Local_MESH_ID' = NoId
  BY DEF Crash, Off, Begin
<1>2. todo' \in Seq(AnyWrite) /\ DOMAIN todo' = {}
  BY <1>1
<1>3. WritesOK'
  BY <1>1, <1>2 DEF StorageInv, WritesOK, VersionIsLast, Written
<1> QED
  BY <1>1, <1>3, ValuesAny, Defaults DEF StorageInv, Settled

LEMMA StorageStep == StorageInv /\ [Next]_vars => StorageInv'
<1> SUFFICES ASSUME StorageInv, [Next]_vars PROVE StorageInv'
  OBVIOUS
<1>1. CASE PowerOn
  BY <1>1, PowerOnKeeps
<1>2. CASE AppMeshInit
  BY <1>2, AppMeshInitKeeps
<1>3. CASE Nvm_Write
  BY <1>3, WriteKeeps
<1>4. Local_MESH_ID \in AnyValue /\ {NoId} \subseteq AnyValue
  BY ValuesAny DEF StorageInv, Settled
<1>5. CASE AssocStarted \/ UNCHANGED vars
  BY <1>4, <1>5, QuietKeeps
  DEF AssocStarted, vars, settings, status, association
<1>6. CASE AssocFailed
  <2>1. "assoc" \in Word \ {"version"} /\ "assoc" \notin Trusted
    BY DEF Word, Trusted
  <2> QED
    BY <1>4, <1>6, <2>1, ValuesAny, SettingKeeps
    DEF AssocFailed, settings, status
<1>7. CASE RemoveAssociation
  BY <1>7, RemovalKeeps
<1>8. ASSUME NEW id \in Id, AssocComplete(id) PROVE StorageInv'
  BY <1>8, AssociationKeeps
<1>9. ASSUME NEW bearer \in Bearer, BearerState(bearer) PROVE StorageInv'
  <2>1. "bearer" \in Word \ {"version"}
    BY DEF Word
  <2> QED
    BY <1>4, <1>9, <2>1, Values, ValuesAny, SettingKeeps
    DEF BearerState, configurable, association, status
<1>10. ASSUME NEW ttl \in Ttl, SetParams(ttl) PROVE StorageInv'
  <2>1. "ttl" \in Word \ {"version"}
    BY DEF Word
  <2> QED
    BY <1>4, <1>10, <2>1, Values, ValuesAny, SettingKeeps
    DEF SetParams, configurable, association, status
<1>11. ASSUME NEW index \in Index, NEW group \in Group,
              HandleGroupSetMsg(index, group)
       PROVE  StorageInv'
  <2>1. "groups" \in Word \ {"version"}
    BY DEF Word
  <2>2. nvm["groups"] = data_model_groups /\ data_model_groups \in Groups
    BY <1>11, IdleSettled
    DEF HandleGroupSetMsg, configurable, StorageInv, Settled
  <2>3. data_model_groups' \in Groups
    BY <1>11, <2>2 DEF HandleGroupSetMsg, Groups
  <2> QED
    BY <1>4, <1>11, <2>1, <2>2, <2>3, Values, ValuesAny, SettingKeeps
    DEF HandleGroupSetMsg, configurable, association, status
<1>12. CASE deviceIdAdvertTimeoutHandler
  BY <1>4, <1>12, QuietKeeps
  DEF deviceIdAdvertTimeoutHandler, setStatus, settings
<1>13. CASE timer_100ms_RBINT \/ timer_1s_RBINT
  BY <1>4, <1>13, QuietKeeps
  DEF timer_100ms_RBINT, timer_1s_RBINT, settings, association
<1>14. CASE flash_run
  <2>1. "status" \in Word \ {"version"} /\ "status" \notin Trusted
    BY DEF Word, Trusted
  <2>2. CASE writeDue
    BY <1>4, <1>14, <2>1, <2>2, SettingKeeps
    DEF flash_run, settings, association
  <2>3. CASE ~writeDue
    <3>1. nvm["status"] \in AnyValue
      BY <2>1 DEF StorageInv, WritesOK
    <3> QED
      BY <1>14, <2>3, <3>1, QuietKeeps DEF flash_run, settings, association
  <2> QED
    BY <2>2, <2>3
<1>15. CASE Crash
  BY <1>15, CrashKeeps
<1> QED
  BY <1>1, <1>2, <1>3, <1>5, <1>6, <1>7, <1>8, <1>9, <1>10, <1>11, <1>12,
     <1>13, <1>14, <1>15
  DEF Next

LEMMA StorageCorrect == Spec => []StorageInv
  BY StorageInit, StorageStep, PTL DEF Spec

(* The version word vouches for the settings, however often power goes,    *)
(* whatever the first start finds (readPersistentStore).                   *)
THEOREM VersionCorrect == Spec => []VersionIsLast
<1>1. StorageInv => VersionIsLast
  BY DEF StorageInv, WritesOK
<1> QED
  BY <1>1, StorageCorrect, PTL

(* Between handlers a node runs on what it would start with, for any       *)
(* sequence of events, losses of power and starts (the writes of           *)
(* app_mesh_handler.c and core_mesh_handler.c).                            *)
THEOREM SavedCorrect == Spec => []SavedIsInUse
<1>1. StorageInv => SavedIsInUse
  BY IdleSettled DEF SavedIsInUse
<1> QED
  BY <1>1, StorageCorrect, PTL

------------------------------------------------------------------------------
(* From the end of its start a node without a network has its advert timer *)
(* running, or has run out its time.                                       *)
Advertised ==
  power /\ handler # "boot" /\ assoc_state = "not_associated" =>
    dev_id_advert_tid \/ fov(tAdvUUID3Min)

(* A node without a network is never silent before its three minutes are   *)
(* over (InitiateAssociation, deviceIdAdvertTimeoutHandler).               *)
THEOREM AdvertisedCorrect == Spec => []UnassociatedIsAdvertised
<1>1. Init => Advertised
  BY DEF Init, Advertised
<1>2. Advertised /\ [Next]_vars => Advertised'
  <2> SUFFICES ASSUME Advertised, [Next]_vars PROVE Advertised'
    OBVIOUS
  <2> USE DEF Advertised
  <2>1. CASE PowerOn \/ AppMeshInit \/ Nvm_Write
    BY <2>1 DEF PowerOn, AppMeshInit, Nvm_Write, InitiateAssociation, Begin,
       association
  <2>2. CASE AssocStarted \/ AssocFailed \/ RemoveAssociation
    BY <2>2 DEF AssocStarted, AssocFailed, RemoveAssociation,
       InitiateAssociation, Begin
  <2>3. ASSUME NEW id \in Id, AssocComplete(id) PROVE Advertised'
    BY <2>3 DEF AssocComplete
  <2>4. CASE \/ \E bearer \in Bearer : BearerState(bearer)
             \/ \E ttl \in Ttl : SetParams(ttl)
             \/ \E index \in Index, group \in Group :
                  HandleGroupSetMsg(index, group)
    BY <2>4 DEF BearerState, SetParams, HandleGroupSetMsg, configurable,
       Idle_, association
  <2>5. CASE deviceIdAdvertTimeoutHandler
    <3>1. /\ assoc_state' = assoc_state /\ tAdvUUID3Min' = tAdvUUID3Min
          /\ unassociated => dev_id_advert_tid' = ~fov(tAdvUUID3Min)
      BY <2>5 DEF deviceIdAdvertTimeoutHandler
    <3>2. unassociated => dev_id_advert_tid' \/ fov(tAdvUUID3Min')
      BY <3>1, Zenon DEF fov
    <3> QED
      BY <3>1, <3>2, Zenon DEF unassociated, fov
  <2>6. CASE timer_100ms_RBINT \/ timer_1s_RBINT
    <3>1. UNCHANGED <<power, handler, assoc_state, dev_id_advert_tid>>
      BY <2>6 DEF timer_100ms_RBINT, timer_1s_RBINT, association
    <3>2. tAdvUUID3Min = Overflow => tAdvUUID3Min' = Overflow
      BY <2>6 DEF timer_100ms_RBINT, timer_1s_RBINT, association, Overflow
    <3> QED
      BY <3>1, <3>2, Zenon DEF fov
  <2>7. CASE flash_run
    BY <2>7 DEF flash_run, Idle_, association
  <2>8. CASE Crash \/ UNCHANGED vars
    BY <2>8 DEF Crash, Off, vars, association
  <2> QED
    BY <2>1, <2>2, <2>3, <2>4, <2>5, <2>6, <2>7, <2>8 DEF Next
<1>3. Advertised => UnassociatedIsAdvertised
  BY DEF Advertised, UnassociatedIsAdvertised, Idle_
<1> QED
  BY <1>1, <1>2, <1>3, PTL DEF Spec
------------------------------------------------------------------------------
(* Whether there is a network: the application and the stack agree, or     *)
(* will when the running handler is done, and without one the settings are *)
(* those of a new node.                                                    *)
InNetwork == /\ assoc_state = "associated"
             /\ \E n \in Id : Settles("network", n)

AsNew == /\ assoc_state # "associated"
         /\ Settles("network", NoNetwork) /\ Settles("assoc", "not_associated")
         /\ bearer_tx_state = DefaultBearer /\ ttl_value = DefaultTtl
         /\ data_model_groups = initializeSupportedModelGroups

SettlesNew == /\ Settles("bearer", DefaultBearer)
              /\ Settles("ttl", DefaultTtl)
              /\ Settles("groups", initializeSupportedModelGroups)

(* The words of a node without power; of an earlier version only those of  *)
(* the association count.                                                  *)
WordsAgree ==
  \/ nvm["assoc"] = "associated" /\ nvm["network"] \in Id
  \/ /\ nvm["assoc"] = "not_associated" /\ nvm["network"] = NoNetwork
     /\ nvm["version"] = "current" =>
          /\ nvm["bearer"] = DefaultBearer /\ nvm["ttl"] = DefaultTtl
          /\ nvm["groups"] = initializeSupportedModelGroups

(* A start that is not the first writes the settings, the version last.    *)
Resetting ==
  /\ \A i \in DOMAIN todo :
       /\ todo[i].word \in Trusted \cup {"version"}
       /\ todo[i].word = "version" => i = Len(todo)
  /\ nvm["version"] = "current" => todo = <<>>
  /\ \/ nvm["assoc"] = "associated" /\ nvm["network"] \in Id
     \/ /\ nvm["assoc"] = "not_associated" /\ nvm["network"] = NoNetwork
        /\ SettlesNew

(* One that is resets the association too.                                 *)
Fresh == /\ bearer_tx_state = DefaultBearer /\ ttl_value = DefaultTtl
         /\ Settles("assoc", "not_associated") /\ SettlesNew

(* What a single setting may be, so that power may go before or after it.  *)
Configured ==
  \A i \in DOMAIN todo :
    /\ todo[i].word # "network"
    /\ todo[i].word = "assoc" => todo[i].value = nvm["assoc"]
    /\ todo[i].word \in Trusted => nvm["assoc"] = "associated"

MatchInv ==
  /\ handler \in {"none", "boot", "association", "removal", "setting"}
  /\ handler = "removal" => AsNew
  /\ ~torn =>
       /\ ~power /\ nvm["sanity"] => WordsAgree
       /\ handler = "boot" => IF g_app_nvm_fresh THEN Fresh ELSE Resetting
       /\ handler = "setting" => Configured
       /\ power /\ handler # "boot" => InNetwork \/ AsNew

LEMMA SettlesIdle ==
  ASSUME todo = <<>>
  PROVE  \A w, v : Settles(w, v) <=> nvm[w] = v
  BY DEF Settles, Pending

LEMMA MatchInit == Init => MatchInv
<1> SUFFICES ASSUME Init PROVE MatchInv
  OBVIOUS
<1>1. ~power /\ handler = "none" /\ ~torn
  BY DEF Init
<1>2. CASE nvm = Blank
  BY <1>1, <1>2 DEF Blank, Word, MatchInv
<1>3. ASSUME NEW sanity \in BOOLEAN, NEW id \in OwnIds \cup {NoNetwork},
             nvm = Used(sanity, id)
      PROVE  MatchInv
  <2>1. /\ nvm["network"] = id /\ nvm["version"] = Old
        /\ id = NoNetwork => nvm["assoc"] = "not_associated"
        /\ id # NoNetwork => nvm["assoc"] = "associated"
    BY <1>3 DEF Used, Word
  <2>2. id = NoNetwork \/ id \in Id
    BY IdAssumption
  <2>3. WordsAgree
    BY <2>1, <2>2, MarkAssumption DEF WordsAgree
  <2> QED
    BY <1>1, <2>3 DEF MatchInv
<1> QED
  BY <1>2, <1>3 DEF Init

(* Handlers that write nothing and leave the settings alone.               *)
LEMMA MatchQuiet ==
  ASSUME MatchInv, UNCHANGED <<nvm, power, handler, todo, g_app_nvm_fresh>>,
         UNCHANGED <<bearer_tx_state, ttl_value, data_model_groups, torn>>,
         \/ assoc_state' = assoc_state
         \/ assoc_state # "associated" /\ assoc_state' # "associated"
  PROVE  MatchInv'
<1>1. (AsNew => AsNew') /\ (InNetwork => InNetwork')
  BY DEF AsNew, InNetwork, Settles, Pending
<1>2. (Fresh => Fresh') /\ (Resetting => Resetting')
  BY DEF Fresh, Resetting, SettlesNew, Settles, Pending
<1>3. (WordsAgree => WordsAgree') /\ (Configured => Configured')
  BY DEF WordsAgree, Configured
<1> QED
  BY <1>1, <1>2, <1>3 DEF MatchInv

LEMMA MatchWrite == StorageInv /\ MatchInv /\ Nvm_Write => MatchInv'
<1> SUFFICES ASSUME StorageInv, MatchInv, Nvm_Write PROVE MatchInv'
  OBVIOUS
<1>1. /\ power /\ power' = power /\ g_app_nvm_fresh' = g_app_nvm_fresh
      /\ UNCHANGED <<bearer_tx_state, ttl_value, data_model_groups,
                     assoc_state>>
      /\ todo # <<>> /\ todo' = Tail(todo)
      /\ handler' = IF Len(todo) = 1 /\ handler # "boot" THEN "none"
                    ELSE handler
      /\ torn' = (torn /\ ~(Len(todo) = 1 /\ handler = "removal"))
  BY DEF Nvm_Write, settings, association
<1>2. \A w \in Word : \A v : Settles(w, v) => Settles(w, v)'
  BY WriteEffect
<1>3. {"network", "assoc", "bearer", "ttl", "groups", "version"} \subseteq Word
  BY DEF Word
<1>4. /\ AsNew => AsNew'
      /\ InNetwork => InNetwork'
      /\ SettlesNew => SettlesNew'
  <2>1. AsNew => AsNew'
    BY <1>1, <1>2, <1>3 DEF AsNew
  <2>2. InNetwork => InNetwork'
    BY <1>1, <1>2, <1>3 DEF InNetwork
  <2>3. SettlesNew => SettlesNew'
    BY <1>2, <1>3 DEF SettlesNew
  <2> QED
    BY <2>1, <2>2, <2>3
<1>5. Fresh => Fresh'
  BY <1>1, <1>2, <1>3, <1>4 DEF Fresh
<1>6. ASSUME Configured PROVE Configured'
  <2>1. nvm'["assoc"] = nvm["assoc"]
    BY <1>3, <1>6, WriteEffect DEF Configured
  <2> QED
    BY <1>6, <2>1, WriteEffect DEF Configured
<1>7. ASSUME Resetting PROVE Resetting'
  <2>1. /\ todo \in Seq(AnyWrite) /\ todo' \in Seq(AnyWrite)
        /\ Len(todo') = Len(todo) - 1
    BY <1>1, WriteEffect DEF StorageInv, WritesOK
  <2>2. nvm'["assoc"] = nvm["assoc"] /\ nvm'["network"] = nvm["network"]
    BY <1>3, <1>7, WriteEffect DEF Resetting, Trusted
  <2>3. ASSUME NEW i \in DOMAIN todo'
        PROVE  /\ todo'[i].word \in Trusted \cup {"version"}
               /\ todo'[i].word = "version" => i = Len(todo')
    <3>1. i \in Nat /\ i + 1 \in DOMAIN todo /\ todo'[i] = todo[i + 1]
      BY <2>3, WriteEffect
    <3> QED
      BY <1>7, <2>1, <3>1 DEF Resetting
  <2>4. nvm'["version"] = "current" => todo' = <<>>
    <3>1. CASE todo[1].word = "version"
      <4>1. Len(todo) = 1
        BY <1>7, <3>1, WriteEffect DEF Resetting
      <4> QED
        BY <2>1, <4>1
    <3>2. CASE todo[1].word # "version"
      BY <1>1, <1>3, <1>7, <3>2, WriteEffect DEF Resetting
    <3> QED
      BY <3>1, <3>2
  <2> QED
    BY <1>4, <1>7, <2>2, <2>3, <2>4 DEF Resetting
<1> QED
  BY <1>1, <1>4, <1>5, <1>6, <1>7 DEF MatchInv

LEMMA Elements ==
  ASSUME NEW S, NEW s \in Seq(S)
  PROVE  DOMAIN s = 1 .. Len(s) /\ \A i \in DOMAIN s : s[i] \in S
  OBVIOUS

LEMMA MatchPowerOn == StorageInv /\ MatchInv /\ PowerOn => MatchInv'
<1> SUFFICES ASSUME StorageInv, MatchInv, PowerOn PROVE MatchInv'
  OBVIOUS
<1> DEFINE reset == ~nvm["sanity"] \/ nvm["version"] # "current"
<1>1. /\ ~power /\ power' /\ handler' = "boot" /\ nvm' = nvm /\ torn' = torn
      /\ g_app_nvm_fresh' = ~nvm["sanity"]
      /\ bearer_tx_state' = IF reset THEN DefaultBearer ELSE nvm["bearer"]
      /\ ttl_value' = IF reset THEN DefaultTtl ELSE nvm["ttl"]
      /\ todo' = (IF ~nvm["sanity"] THEN FreshWrites ELSE <<>>)
                 \o (IF reset THEN DefaultWrites ELSE <<>>)
  BY DEF PowerOn, Begin, history
<1> DEFINE d1 == Write("bearer", DefaultBearer)
           d2 == Write("ttl", DefaultTtl)
           d3 == Write("groups", initializeSupportedModelGroups)
           d4 == Write("version", "current")
           f1 == Write("sanity", TRUE)
           f2 == Write("status", NoId)
           f3 == Write("assoc", "not_associated")
           f4 == Write("uuid", TRUE)
<1>2. /\ d1.word = "bearer" /\ d1.value = DefaultBearer
      /\ d2.word = "ttl" /\ d2.value = DefaultTtl
      /\ d3.word = "groups" /\ d3.value = initializeSupportedModelGroups
      /\ d4.word = "version"
      /\ f1.word = "sanity" /\ f2.word = "status" /\ f4.word = "uuid"
      /\ f3.word = "assoc" /\ f3.value = "not_associated"
  BY DEF Write
<1>3. DefaultWrites = <<d1, d2, d3, d4>>
  BY DEF DefaultWrites
<1>4. FreshWrites = <<f1, f2, f3, f4, f1>>
  BY DEF FreshWrites
<1> HIDE DEF d1, d2, d3, d4, f1, f2, f3, f4, reset
<1>5. CASE ~nvm["sanity"]
  <2> DEFINE S == {d1, d2, d3, d4, f1, f2, f3, f4}
  <2>1. todo' = FreshWrites \o DefaultWrites
    BY <1>1, <1>5 DEF reset
  <2>2. /\ FreshWrites \in Seq(S) /\ DefaultWrites \in Seq(S)
        /\ Len(FreshWrites) = 5 /\ Len(DefaultWrites) = 4
        /\ FreshWrites[3] = f3
        /\ DefaultWrites[1] = d1 /\ DefaultWrites[2] = d2
        /\ DefaultWrites[3] = d3
    BY <1>3, <1>4
  <2>3. /\ todo' \in Seq(S) /\ Len(todo') = 9 /\ todo'[3] = f3
        /\ todo'[5 + 1] = d1 /\ todo'[5 + 2] = d2 /\ todo'[5 + 3] = d3
    <3> HIDE DEF S
    <3>1. FreshWrites \in Seq(S) /\ DefaultWrites \in Seq(S)
      BY <2>2
    <3>2. /\ todo' \in Seq(S)
          /\ Len(todo') = Len(FreshWrites) + Len(DefaultWrites)
          /\ \A i \in 1 .. Len(FreshWrites) : todo'[i] = FreshWrites[i]
          /\ \A i \in 1 .. Len(DefaultWrites) :
               todo'[Len(FreshWrites) + i] = DefaultWrites[i]
      BY <2>1, <3>1, Joined
    <3> QED
      BY <2>2, <3>2
  <2>4. /\ \A i \in DOMAIN todo' : todo'[i] \in S
        /\ {3, 6, 7, 8} \subseteq DOMAIN todo'
        /\ todo'[3] = f3 /\ todo'[6] = d1 /\ todo'[7] = d2 /\ todo'[8] = d3
    <3> HIDE DEF S
    <3>1. DOMAIN todo' = 1 .. 9 /\ \A i \in DOMAIN todo' : todo'[i] \in S
      <4>1. todo' \in Seq(S) /\ Len(todo') = 9
        BY <2>3
      <4> QED
        BY <4>1, Elements
    <3> QED
      BY <2>3, <3>1
  <2>5. Settles("assoc", "not_associated")' /\ SettlesNew'
    BY <1>2, <2>4 DEF Settles, Pending, SettlesNew
  <2>6. Fresh'
    BY <1>1, <1>5, <2>5 DEF Fresh, reset
  <2> QED
    BY <1>1, <1>5, <2>6 DEF MatchInv
<1>6. CASE nvm["sanity"] /\ nvm["version"] # "current"
  <2>1. todo' = DefaultWrites
    BY <1>1, <1>3, <1>6 DEF reset
  <2>2. /\ Len(todo') = 4 /\ DOMAIN todo' = 1 .. 4
        /\ todo'[1] = d1 /\ todo'[2] = d2 /\ todo'[3] = d3 /\ todo'[4] = d4
    BY <1>3, <2>1
  <2>3. SettlesNew'
    BY <1>2, <2>2 DEF Settles, Pending, SettlesNew
  <2>4. \A i \in DOMAIN todo' :
          /\ todo'[i].word \in Trusted \cup {"version"}
          /\ todo'[i].word = "version" => i = Len(todo')
    BY <1>2, <2>2 DEF Trusted
  <2>5. WordsAgree => Resetting'
    BY <1>1, <1>6, <2>3, <2>4 DEF Resetting, WordsAgree
  <2> QED
    BY <1>1, <1>6, <2>5 DEF MatchInv
<1>7. CASE nvm["sanity"] /\ nvm["version"] = "current"
  <2>1. todo' = <<>>
    BY <1>1, <1>7 DEF reset
  <2>2. WordsAgree => Resetting'
    BY <1>1, <1>7, <2>1
    DEF Resetting, WordsAgree, SettlesNew, Settles, Pending
  <2> QED
    BY <1>1, <1>7, <2>2 DEF MatchInv
<1> QED
  BY <1>5, <1>6, <1>7

LEMMA MatchStart == StorageInv /\ MatchInv /\ AppMeshInit => MatchInv'
<1> SUFFICES ASSUME StorageInv, MatchInv, AppMeshInit PROVE MatchInv'
  OBVIOUS
<1>1. /\ power /\ power' = power /\ handler = "boot" /\ todo = <<>>
      /\ nvm' = nvm /\ torn' = torn
      /\ data_model_groups' = nvm["groups"] /\ assoc_state' = nvm["assoc"]
      /\ UNCHANGED <<bearer_tx_state, ttl_value>>
  BY DEF AppMeshInit, history
<1>2. handler' \in {"none", "association"}
  BY DEF AppMeshInit, Begin
<1>3. /\ bearer_tx_state = nvm["bearer"] /\ ttl_value = nvm["ttl"]
  BY <1>1, SettlesIdle DEF StorageInv, Settled
<1>4. ASSUME ~torn, ~g_app_nvm_fresh PROVE (InNetwork \/ AsNew)'
  <2>1. Resetting
    BY <1>1, <1>4 DEF MatchInv
  <2>2. todo' = <<>>
    BY <1>4 DEF AppMeshInit, Begin, StartWrites
  <2>3. CASE nvm["assoc"] = "associated" /\ nvm["network"] \in Id
    BY <1>1, <2>2, <2>3 DEF InNetwork, Settles, Pending
  <2>4. CASE /\ nvm["assoc"] = "not_associated" /\ nvm["network"] = NoNetwork
             /\ SettlesNew
    BY <1>1, <1>3, <2>2, <2>4, SettlesIdle
    DEF SettlesNew, AsNew, Settles, Pending
  <2> QED
    BY <2>1, <2>3, <2>4 DEF Resetting
<1>5. ASSUME ~torn, g_app_nvm_fresh PROVE AsNew'
  <2>1. Fresh
    BY <1>1, <1>5 DEF MatchInv
  <2>2. /\ nvm["assoc"] = "not_associated"
        /\ nvm["groups"] = initializeSupportedModelGroups
        /\ bearer_tx_state = DefaultBearer /\ ttl_value = DefaultTtl
    BY <1>1, <2>1, SettlesIdle DEF Fresh, SettlesNew
  <2>3. todo' = <<Write("network", NoNetwork)>>
    BY <1>5, <2>2 DEF AppMeshInit, Begin, StartWrites
  <2>4. /\ DOMAIN todo' = {1} /\ todo'[1].word = "network"
        /\ todo'[1].value = NoNetwork
    BY <2>3 DEF Write
  <2> QED
    BY <1>1, <2>2, <2>4 DEF AsNew, Settles, Pending
<1> QED
  BY <1>1, <1>2, <1>4, <1>5 DEF MatchInv

(* One word is written: of the settings in a network, of the association   *)
(* when it failed, else the status.                                        *)
LEMMA MatchSetting ==
  ASSUME StorageInv, MatchInv, Idle_, UNCHANGED <<nvm, power, torn>>,
         NEW w \in Word \ {"network"}, NEW v,
         Begin("setting", <<Write(w, v)>>),
         w \in Trusted => nvm["network"] # NoNetwork,
         nvm["network"] = NoNetwork =>
           UNCHANGED <<bearer_tx_state, ttl_value, data_model_groups>>,
         \/ assoc_state' = assoc_state /\ w # "assoc"
         \/ /\ assoc_state # "associated" /\ assoc_state' # "associated"
            /\ w = "assoc" /\ v = "not_associated"
  PROVE  MatchInv'
<1>1. /\ power /\ todo = <<>> /\ handler = "none"
      /\ nvm["assoc"] = assoc_state \/ assoc_state = "association_started"
  BY IdleSettled DEF Idle_
<1>2. /\ handler' = "setting" /\ DOMAIN todo' = {1}
      /\ todo'[1].word = w /\ todo'[1].value = v
  BY DEF Begin, Write
<1>3. ASSUME ~torn PROVE Configured' /\ (InNetwork \/ AsNew)'
  <2>1. CASE InNetwork
    <3>1. PICK n \in Id : nvm["network"] = n
      BY <1>1, <2>1, SettlesIdle DEF InNetwork
    <3>2. assoc_state = "associated" /\ nvm["assoc"] = "associated"
      BY <1>1, <2>1 DEF InNetwork
    <3>3. w # "assoc" /\ assoc_state' = "associated"
      BY <3>2
    <3>4. Configured'
      BY <1>2, <3>2, <3>3 DEF Configured
    <3>5. Settles("network", n)'
      BY <1>2, <3>1 DEF Settles, Pending
    <3> QED
      BY <3>3, <3>4, <3>5 DEF InNetwork
  <2>2. CASE AsNew
    <3>1. /\ nvm["network"] = NoNetwork /\ nvm["assoc"] = "not_associated"
          /\ assoc_state # "associated" /\ assoc_state' # "associated"
      BY <1>1, <2>2, SettlesIdle DEF AsNew
    <3>2. w \notin Trusted /\ (w = "assoc" => v = "not_associated")
      BY <3>1
    <3>3. Configured'
      BY <1>2, <3>1, <3>2 DEF Configured
    <3>4. Settles("network", NoNetwork)' /\ Settles("assoc", "not_associated")'
      BY <1>2, <3>1, <3>2 DEF Settles, Pending
    <3> QED
      BY <2>2, <3>1, <3>3, <3>4 DEF AsNew
  <2> QED
    BY <1>1, <1>3, <2>1, <2>2 DEF MatchInv
<1> QED
  BY <1>1, <1>2, <1>3 DEF MatchInv

LEMMA MatchAssociate ==
  ASSUME StorageInv, MatchInv, NEW id \in Id, AssocComplete(id)
  PROVE  MatchInv'
<1>1. /\ Idle_ /\ UNCHANGED <<nvm, power, torn>>
      /\ assoc_state' = "associated" /\ handler' = "association"
      /\ todo' = <<Write("network", id), Write("assoc", "associated"),
                   Write("bearer", "own")>>
  BY DEF AssocComplete, Begin, AssociatedWrites
<1>2. /\ DOMAIN todo' = 1 .. 3
      /\ todo'[1].word = "network" /\ todo'[1].value = id
      /\ todo'[2].word = "assoc" /\ todo'[3].word = "bearer"
  BY <1>1 DEF Write
<1>3. Settles("network", id)'
  BY <1>2 DEF Settles, Pending
<1>4. InNetwork'
  BY <1>1, <1>3 DEF InNetwork
<1> QED
  BY <1>1, <1>4 DEF MatchInv, Idle_

LEMMA MatchRemove == StorageInv /\ MatchInv /\ RemoveAssociation => MatchInv'
<1> SUFFICES ASSUME StorageInv, MatchInv, RemoveAssociation PROVE MatchInv'
  OBVIOUS
<1>1. /\ Idle_ /\ UNCHANGED <<nvm, power, torn>>
      /\ assoc_state' = "not_associated" /\ bearer_tx_state' = DefaultBearer
      /\ ttl_value' = DefaultTtl
      /\ data_model_groups' = initializeSupportedModelGroups
      /\ handler' = "removal" /\ todo' = RemovalWrites
  BY DEF RemoveAssociation, configurable, Begin, history
<1>2. /\ DOMAIN todo' = 1 .. 5
      /\ todo'[1].word = "network" /\ todo'[1].value = NoNetwork
      /\ todo'[2].word = "bearer"
      /\ todo'[3].word = "assoc" /\ todo'[3].value = "not_associated"
      /\ todo'[4].word = "ttl" /\ todo'[5].word = "groups"
  BY <1>1 DEF RemovalWrites, Write
<1>3. Settles("network", NoNetwork)' /\ Settles("assoc", "not_associated")'
  BY <1>2 DEF Settles, Pending
<1>4. AsNew'
  BY <1>1, <1>3 DEF AsNew
<1> QED
  BY <1>1, <1>4 DEF MatchInv, Idle_

(* Power goes where no mixture is left.                                    *)
LEMMA MatchCrash == StorageInv /\ MatchInv /\ Crash => MatchInv'
<1> SUFFICES ASSUME StorageInv, MatchInv, Crash PROVE MatchInv'
  OBVIOUS
<1>1. power /\ ~power' /\ handler' = "none" /\ nvm' = nvm
  BY DEF Crash, Off, Begin
<1>2. ~torn' => /\ ~torn /\ handler \notin {"association", "removal"}
                /\ ~(handler = "boot" /\ g_app_nvm_fresh)
  BY DEF Crash
<1>3. ASSUME ~torn, handler = "boot", ~g_app_nvm_fresh PROVE WordsAgree
  <2>1. Resetting
    BY <1>3 DEF MatchInv
  <2>2. nvm["version"] = "current" /\ SettlesNew =>
          /\ nvm["bearer"] = DefaultBearer /\ nvm["ttl"] = DefaultTtl
          /\ nvm["groups"] = initializeSupportedModelGroups
    BY <2>1, SettlesIdle DEF Resetting, SettlesNew
  <2> QED
    BY <2>1, <2>2 DEF Resetting, WordsAgree
<1>4. ASSUME ~torn, handler \in {"none", "setting"} PROVE WordsAgree
  <2>1. Configured /\ (InNetwork \/ AsNew)
    <3>1. handler = "none" => Configured
      BY DEF StorageInv, WritesOK, Configured
    <3> QED
      BY <1>1, <1>4, <3>1 DEF MatchInv
  <2>2. /\ Settles("bearer", bearer_tx_state) /\ Settles("ttl", ttl_value)
        /\ Settles("groups", data_model_groups)
        /\ \/ Settles("assoc", assoc_state)
           \/ assoc_state = "association_started"
    BY <1>1, <1>4 DEF StorageInv, Settled
  <2>3. \A v : /\ Settles("network", v) => nvm["network"] = v
               /\ Settles("assoc", v) => nvm["assoc"] = v
    BY <2>1 DEF Configured, Settles, Pending
  <2>4. CASE InNetwork
    BY <2>2, <2>3, <2>4 DEF InNetwork, WordsAgree
  <2>5. CASE AsNew
    <3>1. nvm["network"] = NoNetwork /\ nvm["assoc"] = "not_associated"
      BY <2>3, <2>5 DEF AsNew
    <3>2. \A w \in Trusted : ~Pending(w)
      BY <2>1, <3>1 DEF Configured, Pending
    <3>3. /\ nvm["bearer"] = DefaultBearer /\ nvm["ttl"] = DefaultTtl
          /\ nvm["groups"] = initializeSupportedModelGroups
      BY <2>2, <2>5, <3>2 DEF AsNew, Settles, Trusted
    <3> QED
      BY <3>1, <3>3 DEF WordsAgree
  <2> QED
    BY <2>1, <2>4, <2>5
<1>5. ~torn' => WordsAgree'
  BY <1>1, <1>2, <1>3, <1>4 DEF MatchInv, WordsAgree
<1> QED
  BY <1>1, <1>5 DEF MatchInv

LEMMA MatchStep == StorageInv /\ MatchInv /\ [Next]_vars => MatchInv'
<1> SUFFICES ASSUME StorageInv, MatchInv, [Next]_vars PROVE MatchInv'
  OBVIOUS
<1>1. CASE PowerOn
  BY <1>1, MatchPowerOn
<1>2. CASE AppMeshInit
  BY <1>2, MatchStart
<1>3. CASE Nvm_Write
  BY <1>3, MatchWrite
<1>4. CASE AssocStarted \/ UNCHANGED vars
  BY <1>4, MatchQuiet
  DEF AssocStarted, vars, settings, association, history
<1>5. CASE AssocFailed
  <2>1. "assoc" \in Word \ {"network"} /\ "assoc" \notin Trusted
    BY DEF Word, Trusted
  <2> QED
    BY <1>5, <2>1, MatchSetting DEF AssocFailed, settings, history
<1>6. CASE RemoveAssociation
  BY <1>6, MatchRemove
<1>7. ASSUME NEW id \in Id, AssocComplete(id) PROVE MatchInv'
  BY <1>7, MatchAssociate
<1>8. ASSUME NEW bearer \in Bearer, BearerState(bearer) PROVE MatchInv'
  <2>1. "bearer" \in Word \ {"network"}
    BY DEF Word
  <2> QED
    BY <1>8, <2>1, MatchSetting
    DEF BearerState, configurable, association, history
<1>9. ASSUME NEW ttl \in Ttl, SetParams(ttl) PROVE MatchInv'
  <2>1. "ttl" \in Word \ {"network"}
    BY DEF Word
  <2> QED
    BY <1>9, <2>1, MatchSetting
    DEF SetParams, configurable, association, history
<1>10. ASSUME NEW index \in Index, NEW group \in Group,
              HandleGroupSetMsg(index, group)
       PROVE  MatchInv'
  <2>1. "groups" \in Word \ {"network"}
    BY DEF Word
  <2> QED
    BY <1>10, <2>1, MatchSetting
    DEF HandleGroupSetMsg, configurable, association, history
<1>11. CASE deviceIdAdvertTimeoutHandler
  BY <1>11, MatchQuiet DEF deviceIdAdvertTimeoutHandler, settings, history
<1>12. CASE timer_100ms_RBINT \/ timer_1s_RBINT
  BY <1>12, MatchQuiet
  DEF timer_100ms_RBINT, timer_1s_RBINT, settings, association, history
<1>13. CASE flash_run
  <2>1. "status" \in Word \ {"network"} /\ "status" \notin Trusted
    BY DEF Word, Trusted
  <2>2. CASE writeDue
    BY <1>13, <2>1, <2>2, MatchSetting
    DEF flash_run, settings, association, history
  <2>3. CASE ~writeDue
    BY <1>13, <2>3, MatchQuiet
    DEF flash_run, settings, association, history
  <2> QED
    BY <2>2, <2>3
<1>14. CASE Crash
  BY <1>14, MatchCrash
<1> QED
  BY <1>1, <1>2, <1>3, <1>4, <1>5, <1>6, <1>7, <1>8, <1>9, <1>10, <1>11,
     <1>12, <1>13, <1>14
  DEF Next

LEMMA MatchCorrect == Spec => [](StorageInv /\ MatchInv)
  BY StorageInit, StorageStep, MatchInit, MatchStep, PTL DEF Spec

(* Application and stack agree whether there is a network, wherever else   *)
(* power went than in an association or its removal (the order of writes   *)
(* in app_mesh_handler.c and core_mesh_handler.c).                         *)
THEOREM MatchesCorrect == Spec => []AssociationMatchesStack
<1>1. StorageInv /\ MatchInv => AssociationMatchesStack
  <2> SUFFICES ASSUME StorageInv, MatchInv, Idle_, ~torn
               PROVE  assoc_state = "associated" <=> nvm["network"] # NoNetwork
    BY DEF AssociationMatchesStack
  <2>1. todo = <<>> /\ (InNetwork \/ AsNew)
    BY IdleSettled DEF Idle_, MatchInv
  <2>2. CASE InNetwork
    <3>1. nvm["network"] \in Id /\ assoc_state = "associated"
      BY <2>1, <2>2, SettlesIdle DEF InNetwork
    <3> QED
      BY <3>1, IdAssumption DEF NoNetwork
  <2>3. CASE AsNew
    BY <2>1, <2>3, SettlesIdle DEF AsNew
  <2> QED
    BY <2>1, <2>2, <2>3
<1> QED
  BY <1>1, MatchCorrect, PTL

(* Groups, TTL and bearers of a network that was left do not reach the     *)
(* next one, with the same exception (RemoveAssociation,                   *)
(* readPersistentStore).                                                   *)
THEOREM LeftCorrect == Spec => []NothingLeftBehind
<1>1. MatchInv => NothingLeftBehind
  BY DEF MatchInv, NothingLeftBehind, Idle_, AsNew, InNetwork
<1> QED
  BY <1>1, MatchCorrect, PTL
------------------------------------------------------------------------------
(* The status block: what is neither to be written nor to be read is       *)
(* stored.                                                                 *)
Stored ==
  power /\ ~FlashWrite /\ ~FlashRead => Settles("status", Local_MESH_ID)

(* In a network the id is the node's own: as variable from the power-on    *)
(* read or the association on, before that as word.                        *)
OwnWord ==
  nvm["assoc"] = "associated" /\ nvm["network"] \in OwnIds =>
    nvm["status"] = nvm["network"]

OwnInv ==
  /\ handler = "boot" => FlashRead
  /\ ~power \/ handler = "boot" => ~FlashWrite
  /\ ~torn /\ ~lost =>
       /\ ~power /\ nvm["sanity"] => OwnWord
       /\ handler = "boot" /\ ~g_app_nvm_fresh => OwnWord
       /\ power /\ handler # "boot" /\ assoc_state = "associated" =>
            /\ FlashRead => ~FlashWrite /\ ~Pending("status")
            /\ \A n \in OwnIds :
                 Settles("network", n) =>
                   IF FlashRead THEN nvm["status"] = n ELSE Local_MESH_ID = n

(* Nothing else is said of the status than that it is written last.        *)
LEMMA StoredWrite ==
  ASSUME StorageInv, Stored, Nvm_Write
  PROVE  Stored'
<1>1. UNCHANGED <<power, FlashWrite, FlashRead, Local_MESH_ID>>
  BY DEF Nvm_Write, status
<1>2. "status" \in Word
  BY DEF Word
<1> QED
  BY <1>1, <1>2, WriteEffect DEF Stored

LEMMA StoredBegin ==
  ASSUME Stored, todo = <<>>, UNCHANGED nvm,
         power' => power,
         FlashWrite' \/ /\ ~FlashWrite' /\ ~FlashWrite
                        /\ UNCHANGED <<FlashRead, Local_MESH_ID>>,
         \A i \in DOMAIN todo' : todo'[i].word # "status"
  PROVE  Stored'
  BY SettlesIdle DEF Stored, Settles, Pending

LEMMA StoredStep == StorageInv /\ Stored /\ [Next]_vars => Stored'
<1> SUFFICES ASSUME StorageInv, Stored, [Next]_vars PROVE Stored'
  OBVIOUS
<1>1. CASE PowerOn \/ Crash
  BY <1>1 DEF PowerOn, Crash, Off, Stored
<1>2. CASE Nvm_Write
  BY <1>2, StoredWrite
<1>3. Idle_ => todo = <<>>
  BY IdleSettled
<1>4. CASE AppMeshInit
  <2>1. \A i \in DOMAIN todo' : todo'[i].word # "status"
    <3>1. \/ todo' = <<>>
          \/ /\ DOMAIN todo' = {1} /\ todo'[1].word = "network"
      BY <1>4 DEF AppMeshInit, Begin, StartWrites, Write
    <3> QED
      BY <3>1
  <2>2. UNCHANGED status
    BY <1>4 DEF AppMeshInit
  <2> QED
    BY <1>4, <2>1, <2>2, StoredBegin DEF AppMeshInit, status, Stored
<1>5. CASE \/ AssocStarted \/ deviceIdAdvertTimeoutHandler
           \/ timer_100ms_RBINT \/ timer_1s_RBINT \/ UNCHANGED vars
  BY <1>5 DEF AssocStarted, deviceIdAdvertTimeoutHandler, setStatus,
     timer_100ms_RBINT, timer_1s_RBINT, vars, status, Stored, Settles, Pending
<1>6. CASE AssocFailed
  <2>1. DOMAIN todo' = {1} /\ todo'[1].word = "assoc"
    BY <1>6 DEF AssocFailed, Begin, Write
  <2> QED
    BY <1>3, <1>6, <2>1, StoredBegin DEF AssocFailed, status, Stored
<1>7. CASE RemoveAssociation
  <2>1. \A i \in DOMAIN todo' : todo'[i].word # "status"
    BY <1>7 DEF RemoveAssociation, Begin, RemovalWrites, Write
  <2> QED
    BY <1>3, <1>7, <2>1, StoredBegin
    DEF RemoveAssociation, configurable, status, Stored
<1>8. ASSUME NEW id \in Id, AssocComplete(id) PROVE Stored'
  BY <1>8 DEF AssocComplete, setStatus, Stored
<1>9. ASSUME NEW w, NEW v, w # "status", Idle_, UNCHANGED <<nvm, power>>,
             Begin("setting", <<Write(w, v)>>), UNCHANGED status
      PROVE  Stored'
  <2>1. DOMAIN todo' = {1} /\ todo'[1].word = w
    BY <1>9 DEF Begin, Write
  <2> QED
    BY <1>3, <1>9, <2>1, StoredBegin DEF status, Stored
<1>10. CASE \/ \E bearer \in Bearer : BearerState(bearer)
            \/ \E ttl \in Ttl : SetParams(ttl)
            \/ \E index \in Index, group \in Group :
                 HandleGroupSetMsg(index, group)
  BY <1>9, <1>10 DEF BearerState, SetParams, HandleGroupSetMsg, configurable
<1>11. CASE flash_run
  <2>1. CASE writeDue
    <3>1. /\ DOMAIN todo' = {1} /\ todo'[1].word = "status"
          /\ todo'[1].value = Local_MESH_ID /\ Local_MESH_ID' = Local_MESH_ID
      BY <1>11, <2>1 DEF flash_run, Begin, Write
    <3> QED
      BY <3>1 DEF Stored, Settles, Pending
  <2>2. CASE ~writeDue
    <3>1. /\ todo = <<>> /\ todo' = todo /\ nvm' = nvm
          /\ Local_MESH_ID' = nvm["status"]
      BY <1>3, <1>11, <2>2 DEF flash_run
    <3> QED
      BY <3>1 DEF Stored, Settles, Pending
  <2> QED
    BY <2>1, <2>2
<1> QED
  BY <1>1, <1>2, <1>4, <1>5, <1>6, <1>7, <1>8, <1>10, <1>11 DEF Next

(* When nothing is left to write or read, the block holds the status       *)
(* (flash_run, setStatus).                                                 *)
THEOREM StatusCorrect == Spec => []StatusIsStored
<1>1. Init => Stored
  BY DEF Init, Stored
<1>2. StorageInv /\ Stored => StatusIsStored
  BY IdleSettled, SettlesIdle DEF Stored, StatusIsStored, Idle_
<1> QED
  BY <1>1, <1>2, StoredStep, StorageCorrect, PTL DEF Spec

LEMMA OwnInit == Init => OwnInv
<1> SUFFICES ASSUME Init PROVE OwnInv
  OBVIOUS
<1>1. ~power /\ handler = "none" /\ ~FlashWrite
  BY DEF Init
<1>2. OwnWord
  <2>1. CASE nvm = Blank
    BY <2>1, IdAssumption DEF Blank, Word, OwnWord, NoNetwork
  <2>2. ASSUME NEW sanity \in BOOLEAN, NEW id \in OwnIds \cup {NoNetwork},
               nvm = Used(sanity, id)
        PROVE  OwnWord
    BY <2>2 DEF Used, Word, OwnWord
  <2> QED
    BY <2>1, <2>2 DEF Init
<1> QED
  BY <1>1, <1>2 DEF OwnInv

(* An event that begins between handlers, of a node that is not associated *)
(* after it or whose id it leaves alone.                                   *)
LEMMA OwnBegin ==
  ASSUME OwnInv, Idle_, todo = <<>>, UNCHANGED <<nvm, power, torn, lost>>,
         handler' # "boot",
         \/ assoc_state' # "associated"
         \/ /\ UNCHANGED <<assoc_state, FlashWrite, FlashRead, Local_MESH_ID>>
            /\ \A i \in DOMAIN todo' :
                 todo'[i].word \notin {"network", "status"}
  PROVE  OwnInv'
<1>1. power /\ handler = "none"
  BY DEF Idle_
<1>2. CASE assoc_state' # "associated"
  BY <1>1, <1>2 DEF OwnInv
<1>3. CASE /\ UNCHANGED <<assoc_state, FlashWrite, FlashRead, Local_MESH_ID>>
           /\ \A i \in DOMAIN todo' :
                todo'[i].word \notin {"network", "status"}
  <2>1. ~Pending("status")' /\ \A n : Settles("network", n)' =>
                                        Settles("network", n)
    BY <1>3 DEF Settles, Pending
  <2> QED
    BY <1>1, <1>3, <2>1 DEF OwnInv
<1> QED
  BY <1>2, <1>3

LEMMA OwnWrite == StorageInv /\ MatchInv /\ OwnInv /\ Nvm_Write => OwnInv'
<1> SUFFICES ASSUME StorageInv, MatchInv, OwnInv, Nvm_Write PROVE OwnInv'
  OBVIOUS
<1>1. /\ power /\ power' = power /\ lost' = lost
      /\ UNCHANGED <<g_app_nvm_fresh, assoc_state, FlashWrite, FlashRead,
                     Local_MESH_ID>>
      /\ handler' \in {handler, "none"}
      /\ handler' = "none" => handler # "boot"
      /\ ~torn' => ~torn \/ handler = "removal"
  BY DEF Nvm_Write, association, status
<1>2. {"network", "assoc", "status"} \subseteq Word
  BY DEF Word
<1>3. ASSUME ~torn, handler = "boot", ~g_app_nvm_fresh
      PROVE  UNCHANGED <<nvm["network"], nvm["assoc"], nvm["status"]>>
  BY <1>2, <1>3, WriteEffect DEF MatchInv, Resetting, Trusted
<1>4. ASSUME ~torn', ~lost, handler # "boot", assoc_state = "associated"
      PROVE  /\ FlashRead => ~FlashWrite /\ ~Pending("status")'
             /\ \A n \in OwnIds :
                  Settles("network", n)' =>
                    IF FlashRead THEN nvm'["status"] = n ELSE Local_MESH_ID = n
  <2>1. ~torn /\ InNetwork
    BY <1>1, <1>4 DEF MatchInv, AsNew
  <2>2. PICK m \in Id : Settles("network", m) /\ Settles("network", m)'
    BY <1>2, <2>1, WriteEffect DEF InNetwork
  <2>3. \A n : Settles("network", n)' => n = m
    BY <2>2 DEF Settles, Pending
  <2>4. ~Pending("status") =>
          ~Pending("status")' /\ nvm'["status"] = nvm["status"]
    BY <1>2, WriteEffect DEF Pending
  <2>5. FlashRead => ~FlashWrite /\ ~Pending("status")
    BY <1>1, <1>4, <2>1 DEF OwnInv
  <2>6. m \in OwnIds =>
          IF FlashRead THEN nvm["status"] = m ELSE Local_MESH_ID = m
    BY <1>1, <1>4, <2>1, <2>2 DEF OwnInv
  <2> QED
    BY <2>3, <2>4, <2>5, <2>6
<1>5. ASSUME ~torn', ~lost, handler = "boot", ~g_app_nvm_fresh
      PROVE  OwnWord'
  BY <1>1, <1>3, <1>5 DEF OwnInv, OwnWord
<1> QED
  BY <1>1, <1>4, <1>5 DEF OwnInv

LEMMA OwnStart == StorageInv /\ MatchInv /\ OwnInv /\ AppMeshInit => OwnInv'
<1> SUFFICES ASSUME StorageInv, MatchInv, OwnInv, AppMeshInit PROVE OwnInv'
  OBVIOUS
<1>1. /\ power /\ power' /\ handler = "boot" /\ todo = <<>>
      /\ handler' \in {"none", "association"}
      /\ UNCHANGED <<nvm, torn, lost, FlashRead, FlashWrite>>
      /\ assoc_state' = nvm["assoc"]
      /\ nvm["assoc"] = "associated" => todo' = <<>>
  BY DEF AppMeshInit, Begin, history, status
<1>2. FlashRead /\ ~FlashWrite
  BY <1>1 DEF OwnInv
<1>3. ASSUME ~torn, ~lost, nvm["assoc"] = "associated"
      PROVE  OwnWord /\ todo' = <<>>
  <2>1. CASE g_app_nvm_fresh
    <3>1. Fresh
      BY <1>1, <1>3, <2>1 DEF MatchInv
    <3>2. nvm["assoc"] = "not_associated"
      BY <1>1, <3>1, SettlesIdle DEF Fresh
    <3> QED
      BY <1>3, <3>2
  <2>2. CASE ~g_app_nvm_fresh
    BY <1>1, <1>3, <2>2 DEF OwnInv
  <2> QED
    BY <2>1, <2>2
<1>4. ASSUME ~torn, ~lost, nvm["assoc"] = "associated", NEW n \in OwnIds,
             Settles("network", n)'
      PROVE  nvm["status"] = n
  BY <1>1, <1>3, <1>4 DEF OwnWord, Settles, Pending
<1>5. ASSUME ~torn, ~lost, nvm["assoc"] = "associated"
      PROVE  ~Pending("status")'
  BY <1>3, <1>5 DEF Pending
<1> QED
  BY <1>1, <1>2, <1>4, <1>5 DEF OwnInv

LEMMA OwnAssociate ==
  ASSUME OwnInv, NEW id \in Id, AssocComplete(id)
  PROVE  OwnInv'
<1>1. /\ power' /\ handler' = "association" /\ lost' = FlashRead
      /\ FlashRead' = FlashRead
      /\ id \in OwnIds => Local_MESH_ID' = id
      /\ todo' = <<Write("network", id), Write("assoc", "associated"),
                   Write("bearer", "own")>>
  BY DEF AssocComplete, Idle_, Begin, setStatus, AssociatedWrites
<1>2. 1 \in DOMAIN todo' /\ todo'[1].word = "network" /\ todo'[1].value = id
  BY <1>1 DEF Write
<1>3. \A n : Settles("network", n)' => n = id
  BY <1>2 DEF Settles
<1> QED
  BY <1>1, <1>3 DEF OwnInv

(* A status that was not written when power went has no exception, so it   *)
(* was stored.                                                             *)
LEMMA OwnCrash == StorageInv /\ MatchInv /\ Stored /\ OwnInv /\ Crash => OwnInv'
<1> SUFFICES ASSUME StorageInv, MatchInv, Stored, OwnInv, Crash PROVE OwnInv'
  OBVIOUS
<1>1. /\ power /\ ~power' /\ handler' = "none" /\ nvm' = nvm /\ ~FlashWrite'
  BY DEF Crash, Off, Begin
<1>2. ~torn' /\ ~lost' =>
        /\ ~torn /\ handler \notin {"association", "removal"}
        /\ ~(handler = "boot" /\ g_app_nvm_fresh)
        /\ ~lost /\ ~FlashWrite /\ ~Pending("status")
  BY DEF Crash, Pending
<1>3. ASSUME ~torn, ~lost, ~FlashWrite, ~Pending("status"),
             handler \in {"none", "setting"}
      PROVE  OwnWord
  <2> SUFFICES ASSUME nvm["assoc"] = "associated", nvm["network"] \in OwnIds
               PROVE  nvm["status"] = nvm["network"]
    BY DEF OwnWord
  <2>1. \A i \in DOMAIN todo :
          /\ todo[i].word # "network"
          /\ todo[i].word = "assoc" => todo[i].value = nvm["assoc"]
    BY <1>3 DEF MatchInv, Configured, StorageInv, WritesOK
  <2>2. Settles("network", nvm["network"])
    BY <2>1 DEF Settles
  <2>3. assoc_state = "associated"
    <3>1. InNetwork \/ AsNew
      BY <1>1, <1>3 DEF MatchInv
    <3>2. AsNew => nvm["assoc"] = "not_associated"
      BY <2>1 DEF AsNew, Settles, Pending
    <3> QED
      BY <3>1, <3>2 DEF InNetwork
  <2>4. IF FlashRead THEN nvm["status"] = nvm["network"]
        ELSE Local_MESH_ID = nvm["network"]
    BY <1>1, <1>3, <2>2, <2>3 DEF OwnInv
  <2>5. ~FlashRead => nvm["status"] = Local_MESH_ID
    BY <1>1, <1>3 DEF Stored, Settles
  <2> QED
    BY <2>4, <2>5
<1>4. ~torn' /\ ~lost' => OwnWord
  BY <1>1, <1>2, <1>3 DEF MatchInv, OwnInv
<1> QED
  BY <1>1, <1>4 DEF OwnInv, OwnWord

LEMMA OwnStep ==
  StorageInv /\ MatchInv /\ Stored /\ OwnInv /\ [Next]_vars => OwnInv'
<1> SUFFICES ASSUME StorageInv, MatchInv, Stored, OwnInv, [Next]_vars
             PROVE  OwnInv'
  OBVIOUS
<1>1. CASE PowerOn
  BY <1>1 DEF PowerOn, Begin, history, OwnInv, OwnWord
<1>2. CASE AppMeshInit
  BY <1>2, OwnStart
<1>3. CASE Nvm_Write
  BY <1>3, OwnWrite
<1>4. Idle_ => todo = <<>> /\ handler = "none"
  BY IdleSettled DEF Idle_
<1>5. CASE AssocStarted \/ AssocFailed
  BY <1>4, <1>5, OwnBegin DEF AssocStarted, AssocFailed, Begin, history
<1>6. CASE RemoveAssociation
  BY <1>4, <1>6, OwnBegin DEF RemoveAssociation, configurable, Begin, history
<1>7. ASSUME NEW id \in Id, AssocComplete(id) PROVE OwnInv'
  BY <1>7, OwnAssociate
<1>8. ASSUME NEW w \in Word, NEW v, w \notin {"network", "status"}, Idle_,
             Begin("setting", <<Write(w, v)>>),
             UNCHANGED <<nvm, power, association, status, history>>
      PROVE  OwnInv'
  <2>1. handler' = "setting" /\ DOMAIN todo' = {1} /\ todo'[1].word = w
    BY <1>8 DEF Begin, Write
  <2> QED
    BY <1>4, <1>8, <2>1, OwnBegin DEF association, status, history
<1>9. CASE \/ \E bearer \in Bearer : BearerState(bearer)
           \/ \E ttl \in Ttl : SetParams(ttl)
           \/ \E index \in Index, group \in Group :
                HandleGroupSetMsg(index, group)
  <2>1. {"bearer", "ttl", "groups"} \subseteq Word
    BY DEF Word
  <2> QED
    BY <1>8, <1>9, <2>1
    DEF BearerState, SetParams, HandleGroupSetMsg, configurable
<1>10. CASE \/ deviceIdAdvertTimeoutHandler
            \/ timer_100ms_RBINT \/ timer_1s_RBINT
  <2>1. /\ Idle_ /\ UNCHANGED <<nvm, power, handler, todo, torn, lost>>
        /\ assoc_state' = assoc_state
        /\ assoc_state = "associated" =>
             UNCHANGED <<FlashWrite, FlashRead, Local_MESH_ID>>
    BY <1>10 DEF deviceIdAdvertTimeoutHandler, unassociated,
       timer_100ms_RBINT, timer_1s_RBINT, association, history
  <2> QED
    BY <1>4, <2>1, OwnBegin
<1>11. CASE flash_run
  <2>1. /\ power /\ power' = power /\ todo = <<>> /\ handler = "none"
        /\ handler' \in {"none", "setting"}
        /\ UNCHANGED <<nvm, torn, lost, assoc_state>>
    BY <1>4, <1>11 DEF flash_run, Idle_, Begin, association, history
  <2>2. CASE writeDue
    <3>1. /\ FlashWrite /\ UNCHANGED <<Local_MESH_ID, FlashRead>>
          /\ DOMAIN todo' = {1} /\ todo'[1].word = "status"
      BY <1>11, <2>2 DEF flash_run, writeDue, Begin, Write
    <3>2. \A n : Settles("network", n)' => Settles("network", n)
      BY <2>1, <3>1 DEF Settles, Pending
    <3> QED
      BY <2>1, <3>1, <3>2 DEF OwnInv
  <2>3. CASE ~writeDue
    <3>1. /\ FlashRead /\ ~FlashRead' /\ Local_MESH_ID' = nvm["status"]
          /\ UNCHANGED <<handler, todo>>
      BY <1>11, <2>3 DEF flash_run, readDue
    <3>2. \A n : Settles("network", n)' => Settles("network", n)
      BY <2>1, <3>1 DEF Settles, Pending
    <3> QED
      BY <2>1, <3>1, <3>2 DEF OwnInv
  <2> QED
    BY <2>2, <2>3
<1>12. CASE Crash
  BY <1>12, OwnCrash
<1>13. CASE UNCHANGED vars
  BY <1>13 DEF vars, association, status, history, OwnInv, OwnWord, Settles,
     Pending
<1> QED
  BY <1>1, <1>2, <1>3, <1>5, <1>6, <1>7, <1>9, <1>10, <1>11, <1>12, <1>13
  DEF Next

(* A node in a network reports its own id, unless the association came     *)
(* before the power-on read or power went before the delayed write         *)
(* (setStatus, flash_run).                                                 *)
THEOREM OwnIdCorrect == Spec => []ReportsOwnId
<1>1. Init => Stored
  BY DEF Init, Stored
<1>2. StorageInv /\ MatchInv /\ OwnInv => ReportsOwnId
  BY IdleSettled, SettlesIdle DEF OwnInv, ReportsOwnId, Idle_
<1> QED
  BY <1>1, <1>2, StoredStep, OwnInit, OwnStep, MatchCorrect, PTL DEF Spec

------------------------------------------------------------------------------
(* The types.  A first start whose sanity word is there finds an           *)
(* association that was never written, but never one of an old layout: the *)
(* words of the association and the status kept their place.               *)
Mark(w) == IF w \in {"sanity", "network"} THEN {}
           ELSE IF w \in {"assoc", "status"} THEN {Erased} ELSE {Erased, Old}
Proper == {x \in AnyWrite : x.value \in Value(x.word)}

Words ==
  /\ DOMAIN nvm = Word
  /\ \A w \in Word : nvm[w] \in Value(w) \cup Mark(w)
Flags ==
  /\ power \in BOOLEAN /\ g_app_nvm_fresh \in BOOLEAN
  /\ dev_id_advert_tid \in BOOLEAN
  /\ FlashWrite \in BOOLEAN /\ FlashRead \in BOOLEAN
  /\ torn \in BOOLEAN /\ lost \in BOOLEAN
Counts ==
  /\ tAdvUUID3Min \in Timer(C_T_tAdvUUID3Min) /\ tWriteFlashDelay \in Timer(1)
  /\ tPoweronWait3s \in Timer(C_T_tPoweronWait3s) /\ crashes \in 0 .. MaxCrash
Running ==
  /\ handler \in {"none", "boot", "association", "removal", "setting"}
  /\ todo \in Seq(Proper)
  /\ assoc_state \in
       {"not_associated", "association_started", "associated", Erased}
  /\ Local_MESH_ID \in Id \cup {NoId, Erased}
Types == Words /\ Flags /\ Counts /\ Running

(* A status that was never written is reported, but never written again:   *)
(* the node cannot join a network, which would mark it for writing.        *)
Unwritten == nvm["status"] \notin Id \cup {NoId}
Noted ==
  /\ Unwritten =>
       /\ nvm["assoc"] = Erased /\ nvm["network"] = NoNetwork
       /\ \A i \in DOMAIN todo :
            /\ todo[i].word # "network"
            /\ todo[i].word = "assoc" =>
                 \E j \in DOMAIN todo : j < i /\ todo[j].word = "status"
       /\ power /\ handler # "boot" =>
            assoc_state = Erased /\ ~FlashWrite /\ todo = <<>>
  /\ Local_MESH_ID \notin Id \cup {NoId} =>
       Unwritten /\ power /\ handler # "boot"

(* What is written into each word.                                         *)
LEMMA WordValues ==
  /\ Value("sanity") = BOOLEAN /\ Value("uuid") = {TRUE}
  /\ Value("version") = {"current"}
  /\ Value("assoc") = {"not_associated", "associated"}
  /\ Value("bearer") = Bearer /\ Value("ttl") = Ttl
  /\ Value("groups") = Groups
  /\ Value("status") = Id \cup {NoId} /\ Value("network") = Id \cup {NoId}
  BY DEF Value

LEMMA IsProper ==
  ASSUME NEW w \in Word, NEW v \in Value(w)
  PROVE  Write(w, v) \in Proper
<1>1. v \in AnyValue
  BY DEF AnyValue
<1> QED BY <1>1, ProperWrite DEF Proper

LEMMA ListsProper ==
  /\ FreshWrites \in Seq(Proper) /\ DefaultWrites \in Seq(Proper)
  /\ RemovalWrites \in Seq(Proper) /\ StartWrites \in Seq(Proper)
  /\ \A id \in Id : AssociatedWrites(id) \in Seq(Proper)
<1>1. /\ Write("sanity", TRUE) \in Proper /\ Write("uuid", TRUE) \in Proper
      /\ Write("version", "current") \in Proper
      /\ Write("assoc", "associated") \in Proper
      /\ Write("assoc", "not_associated") \in Proper
  BY WordValues, IsProper DEF Word
<1>2. /\ Write("bearer", DefaultBearer) \in Proper
      /\ Write("bearer", "own") \in Proper
      /\ Write("ttl", DefaultTtl) \in Proper
      /\ Write("groups", initializeSupportedModelGroups) \in Proper
  <2>1. "own" \in Bearer
    BY DEF Bearer
  <2> QED BY <2>1, WordValues, Defaults, IsProper DEF Word
<1>3. /\ Write("status", NoId) \in Proper /\ Write("network", NoNetwork) \in Proper
      /\ \A id \in Id : Write("network", id) \in Proper
  BY WordValues, IsProper DEF Word, NoNetwork
<1>4. \A a, b, c, d, e \in Proper :
        <<a, b, c, d>> \in Seq(Proper) /\ <<a, b, c, d, e>> \in Seq(Proper)
  OBVIOUS
<1>5. FreshWrites \in Seq(Proper) /\ DefaultWrites \in Seq(Proper)
  BY <1>1, <1>2, <1>3, <1>4, Zenon DEF FreshWrites, DefaultWrites
<1>6. RemovalWrites \in Seq(Proper)
  BY <1>1, <1>2, <1>3, <1>4, Zenon DEF RemovalWrites
<1>7. StartWrites \in Seq(Proper)
  BY <1>3 DEF StartWrites
<1> QED BY <1>1, <1>2, <1>3, <1>5, <1>6, <1>7 DEF AssociatedWrites

LEMMA Ticks ==
  /\ Timer(1) = {-1, 0, 1} /\ Idle = 0
  /\ C_T_tAdvUUID3Min = 1 /\ C_T_tPoweronWait3s = 1 /\ C_T_tWriteFlashDelay = 1
  /\ \A t \in Timer(1) : Tick(t) \in Timer(1)
  BY DEF Timer, Tick, Idle, Overflow, C_T_tAdvUUID3Min, C_T_tPoweronWait3s,
         C_T_tWriteFlashDelay

LEMMA TypesInit == Init => Types
<1> SUFFICES ASSUME Init PROVE Types
  OBVIOUS
<1>1. Words
  <2>1. CASE nvm = Blank
    <3>1. DOMAIN nvm = Word
      BY <2>1 DEF Blank
    <3>2. /\ nvm["sanity"] = FALSE /\ nvm["network"] = NoId
          /\ \A w \in Word \ {"sanity", "network"} : nvm[w] = Erased
      BY <2>1 DEF Blank, Word, NoNetwork
    <3> QED BY <3>1, <3>2, WordValues DEF Words, Mark, Word
  <2>2. ASSUME NEW sanity \in BOOLEAN, NEW id \in OwnIds \cup {NoNetwork},
               nvm = Used(sanity, id)
        PROVE  Words
    <3>1. DOMAIN nvm = Word /\ id \in Id \cup {NoId}
      BY <2>2, IdAssumption DEF Used, NoNetwork
    <3>2. /\ nvm["sanity"] = sanity /\ nvm["uuid"] = TRUE
          /\ nvm["network"] = id /\ nvm["status"] = id
          /\ nvm["assoc"] \in {"not_associated", "associated"}
          /\ \A w \in {"version", "bearer", "ttl", "groups"} : nvm[w] = Old
      BY <2>2 DEF Used, Word
    <3> QED BY <3>1, <3>2, WordValues DEF Words, Mark, Word
  <2> QED BY <2>1, <2>2 DEF Init
<1>2. Flags
  BY DEF Init, Flags
<1>3. Counts
  BY Ticks, SizeAssumption DEF Init, Counts
<1>4. Running
  BY DEF Init, Running
<1> QED BY <1>1, <1>2, <1>3, <1>4 DEF Types

(* A write is proper, whenever it is made.                                 *)
LEMMA TypesWrite == StorageInv /\ Types /\ Nvm_Write => Types'
<1> SUFFICES ASSUME StorageInv, Types, Nvm_Write PROVE Types'
  OBVIOUS
<1>1. todo \in Seq(Proper) /\ todo # <<>> /\ todo' = Tail(todo)
  BY DEF Types, Running, Nvm_Write
<1>2. todo' \in Seq(Proper) /\ todo[1] \in Proper
  BY <1>1
<1>3. todo[1].word \in Word /\ todo[1].value \in Value(todo[1].word)
  BY <1>2 DEF Proper, AnyWrite
<1>4. Words'
  BY <1>3, WriteEffect DEF Types, Words
<1> QED BY <1>2, <1>4 DEF Types, Flags, Counts, Running, Nvm_Write,
                            association, status

(* A handler begins: it writes no word yet, but it lists proper writes.    *)
LEMMA TypesBegin ==
  ASSUME Types, UNCHANGED nvm,
         handler' \in {"none", "boot", "association", "removal", "setting"},
         todo' \in Seq(Proper)
  PROVE  /\ Words'
         /\ /\ assoc_state' \in {"not_associated", "association_started",
                                 "associated", Erased}
            /\ Local_MESH_ID' \in Id \cup {NoId, Erased}
            => Running'
  BY DEF Types, Words, Running

LEMMA TypesStep == StorageInv /\ Types /\ Noted /\ [Next]_vars => Types'
<1> SUFFICES ASSUME StorageInv, Types, Noted, [Next]_vars PROVE Types'
  OBVIOUS
<1>1. Words /\ Flags /\ Counts /\ Running
  BY DEF Types
<1>2. /\ nvm["sanity"] \in BOOLEAN
      /\ nvm["assoc"] \in {"not_associated", "associated", Erased}
      /\ nvm["status"] \in Id \cup {NoId, Erased}
  BY <1>1, WordValues DEF Words, Mark, Word
<1>3. <<>> \in Seq(Proper)
  OBVIOUS
<1>4. \A w \in Word : \A v \in Value(w) : <<Write(w, v)>> \in Seq(Proper)
  BY IsProper
<1>5. {"bearer", "ttl", "groups", "assoc", "status"} \subseteq Word
  BY DEF Word
<1>6. CASE PowerOn
  <2> DEFINE fresh == ~nvm["sanity"]
             reset == fresh \/ nvm["version"] # "current"
             a == IF fresh THEN FreshWrites ELSE <<>>
             b == IF reset THEN DefaultWrites ELSE <<>>
  <2>1. /\ handler' = "boot" /\ todo' = a \o b /\ g_app_nvm_fresh' = fresh
        /\ power' = TRUE /\ FlashRead' = TRUE
        /\ tPoweronWait3s' = C_T_tPoweronWait3s
        /\ UNCHANGED <<nvm, association, Local_MESH_ID, FlashWrite,
                       tWriteFlashDelay, history>>
    BY <1>6 DEF PowerOn, Begin
  <2>2. a \in Seq(Proper) /\ b \in Seq(Proper)
    BY <1>3, ListsProper
  <2>3. fresh \in BOOLEAN
    BY <1>2
  <2> HIDE DEF a, b, fresh
  <2>4. todo' \in Seq(Proper)
    BY <2>1, <2>2
  <2>5. Words' /\ Running'
    BY <1>1, <2>1, <2>4, TypesBegin DEF Running, association
  <2> QED BY <1>1, <2>1, <2>3, <2>5, Ticks
          DEF Types, Flags, Counts, association, history
<1>7. CASE AppMeshInit
  <2>1. /\ handler' \in {"none", "association"} /\ todo' \in Seq(Proper)
        /\ dev_id_advert_tid' \in BOOLEAN
        /\ tAdvUUID3Min' \in {tAdvUUID3Min, C_T_tAdvUUID3Min}
    BY <1>1, <1>3, <1>7, ListsProper
    DEF AppMeshInit, Begin, InitiateAssociation, Flags
  <2>2. Words' /\ Running'
    BY <1>1, <1>2, <1>7, <2>1, TypesBegin DEF AppMeshInit, Running, status
  <2> QED BY <1>1, <1>7, <2>1, <2>2, Ticks
          DEF AppMeshInit, Types, Flags, Counts, status, history
<1>8. CASE Nvm_Write
  BY <1>8, TypesWrite
<1>9. CASE AssocStarted
  BY <1>1, <1>9, TypesBegin
  DEF AssocStarted, Types, Flags, Counts, Running, status, history
<1>10. CASE AssocFailed
  <2>1. todo' \in Seq(Proper) /\ handler' = "setting"
    BY <1>4, <1>5, <1>10, WordValues DEF AssocFailed, Begin
  <2>2. Words' /\ Running'
    BY <1>1, <1>10, <2>1, TypesBegin DEF AssocFailed, Running, status
  <2> QED BY <1>1, <1>10, <2>2, Ticks
          DEF AssocFailed, InitiateAssociation, Types, Flags, Counts, status,
              history
<1>11. CASE RemoveAssociation
  <2>1. todo' \in Seq(Proper) /\ handler' = "removal"
    BY <1>11, ListsProper DEF RemoveAssociation, Begin
  <2>2. Words' /\ Running'
    BY <1>1, <1>11, <2>1, TypesBegin DEF RemoveAssociation, Running, status
  <2> QED BY <1>1, <1>11, <2>2, Ticks
          DEF RemoveAssociation, InitiateAssociation, Types, Flags, Counts,
              status, history
<1>12. ASSUME NEW id \in Id, AssocComplete(id)
       PROVE  Types'
  <2>1. todo' \in Seq(Proper) /\ handler' = "association"
    BY <1>12, ListsProper DEF AssocComplete, Begin
  <2>2. Local_MESH_ID' \in Id \cup {NoId, Erased}
    BY <1>1, <1>12 DEF AssocComplete, setStatus, Running
  <2>3. Words' /\ Running'
    BY <1>1, <1>12, <2>1, <2>2, TypesBegin DEF AssocComplete
  <2> QED BY <1>1, <1>12, <2>3, Ticks
          DEF AssocComplete, setStatus, Types, Flags, Counts
<1>13. ASSUME NEW w \in Word, NEW v \in Value(w), UNCHANGED <<nvm, power>>,
              Begin("setting", <<Write(w, v)>>),
              UNCHANGED <<g_app_nvm_fresh, association, status, history>>
       PROVE  Types'
  <2>1. Words' /\ Running'
    BY <1>1, <1>4, <1>13, TypesBegin DEF Begin, Running, association, status
  <2> QED BY <1>1, <1>13, <2>1
          DEF Types, Flags, Counts, association, status, history
<1>14. CASE \/ \E bearer \in Bearer : BearerState(bearer)
            \/ \E ttl \in Ttl : SetParams(ttl)
  BY <1>5, <1>13, <1>14, WordValues DEF BearerState, SetParams
<1>15. ASSUME NEW index \in Index, NEW group \in Group,
              HandleGroupSetMsg(index, group)
       PROVE  Types'
  <2>1. nvm["groups"] \in Groups
    BY <1>15, IdleSettled
    DEF HandleGroupSetMsg, configurable, StorageInv, Settled
  <2>2. [nvm["groups"] EXCEPT ![index] = group] \in Value("groups")
    BY <2>1, WordValues DEF Groups
  <2> QED BY <1>5, <1>13, <1>15, <2>2 DEF HandleGroupSetMsg
<1>16. CASE deviceIdAdvertTimeoutHandler
  <2>1. /\ Local_MESH_ID' \in {Local_MESH_ID, NoId}
        /\ FlashWrite' \in {FlashWrite, TRUE}
        /\ tWriteFlashDelay' \in {tWriteFlashDelay, C_T_tWriteFlashDelay}
        /\ dev_id_advert_tid' \in BOOLEAN
    BY <1>16 DEF deviceIdAdvertTimeoutHandler, setStatus, fov
  <2>2. Words' /\ Running'
    BY <1>1, <1>16, <2>1, TypesBegin
    DEF deviceIdAdvertTimeoutHandler, Running
  <2> QED BY <1>1, <1>16, <2>1, <2>2, Ticks
          DEF deviceIdAdvertTimeoutHandler, Types, Flags, Counts, history
<1>17. CASE timer_100ms_RBINT \/ timer_1s_RBINT
  <2>1. Words' /\ Running'
    BY <1>1, <1>17, TypesBegin
    DEF timer_100ms_RBINT, timer_1s_RBINT, Running, association
  <2> QED BY <1>1, <1>17, <2>1, Ticks
          DEF timer_100ms_RBINT, timer_1s_RBINT, Types, Flags, Counts,
              association, history
<1>18. CASE flash_run
  <2>1. UNCHANGED <<nvm, power, g_app_nvm_fresh, association, tPoweronWait3s,
                    history>>
    BY <1>18 DEF flash_run
  <2>2. CASE writeDue
    <3>1. /\ handler' = "setting" /\ todo' = <<Write("status", Local_MESH_ID)>>
          /\ FlashWrite' = FALSE /\ tWriteFlashDelay' = Idle
          /\ UNCHANGED <<Local_MESH_ID, FlashRead>>
      BY <1>18, <2>2 DEF flash_run, Begin
    <3>2. Local_MESH_ID \in Value("status")
      BY <1>18, <2>2, WordValues DEF flash_run, writeDue, Idle_, Noted
    <3>3. todo' \in Seq(Proper)
      BY <1>4, <1>5, <3>1, <3>2
    <3>4. Words' /\ Running'
      BY <1>1, <2>1, <3>1, <3>3, TypesBegin DEF Running, association
    <3> QED BY <1>1, <2>1, <3>1, <3>4, Ticks
            DEF Types, Flags, Counts, association, history
  <2>3. CASE ~writeDue
    <3>1. /\ FlashRead' = FALSE /\ Local_MESH_ID' = nvm["status"]
          /\ UNCHANGED <<FlashWrite, tWriteFlashDelay, handler, todo>>
      BY <1>18, <2>3 DEF flash_run
    <3>2. Words' /\ Running'
      BY <1>1, <1>2, <2>1, <3>1, TypesBegin DEF Running, association
    <3> QED BY <1>1, <2>1, <3>1, <3>2
            DEF Types, Flags, Counts, association, history
  <2> QED BY <2>2, <2>3
<1>19. CASE Crash
  <2>1. Words' /\ Running'
    BY <1>1, <1>3, <1>19, TypesBegin DEF Crash, Off, Begin
  <2>2. Flags'
    BY <1>19, Zenon DEF Crash, Off, Flags
  <2>3. crashes' \in 0 .. MaxCrash
    BY <1>1, <1>19, SizeAssumption DEF Crash, Counts
  <2>4. Counts'
    BY <1>19, <2>3, Ticks DEF Crash, Off, Counts
  <2> QED BY <2>1, <2>2, <2>4 DEF Types
<1>20. CASE UNCHANGED vars
  BY <1>1, <1>20, TypesBegin
  DEF vars, association, status, history, Types, Flags, Counts, Running
<1> QED BY <1>6, <1>7, <1>8, <1>9, <1>10, <1>11, <1>12, <1>14, <1>15, <1>16,
           <1>17, <1>18, <1>19, <1>20 DEF Next

LEMMA NotedInit == Init => Noted
<1> SUFFICES ASSUME Init PROVE Noted
  OBVIOUS
<1>1. Unwritten => nvm["assoc"] = Erased /\ nvm["network"] = NoNetwork
  <2>1. CASE nvm = Blank
    BY <2>1 DEF Blank, Word
  <2>2. ASSUME NEW sanity \in BOOLEAN, NEW id \in OwnIds \cup {NoNetwork},
               nvm = Used(sanity, id)
        PROVE  ~Unwritten
    <3>1. nvm["status"] = id
      BY <2>2 DEF Used, Word
    <3> QED BY <3>1, IdAssumption DEF Unwritten, NoNetwork
  <2> QED BY <2>1, <2>2 DEF Init
<1>2. ~power /\ todo = <<>> /\ Local_MESH_ID = NoId
  BY DEF Init
<1> QED BY <1>1, <1>2 DEF Noted

(* The first start writes the status before the association.               *)
LEMMA NotedPowerOn == Noted /\ PowerOn => Noted'
<1> SUFFICES ASSUME Noted, PowerOn PROVE Noted'
  OBVIOUS
<1> DEFINE fresh == ~nvm["sanity"]
           reset == fresh \/ nvm["version"] # "current"
<1>1. /\ ~power /\ handler' = "boot" /\ UNCHANGED <<nvm, Local_MESH_ID>>
      /\ todo' = (IF fresh THEN FreshWrites ELSE <<>>)
                 \o (IF reset THEN DefaultWrites ELSE <<>>)
  BY DEF PowerOn, Begin
<1>2. /\ Len(FreshWrites) = 5 /\ FreshWrites[2].word = "status"
      /\ \A i \in 1 .. 5 : /\ FreshWrites[i].word # "network"
                           /\ FreshWrites[i].word = "assoc" => i = 3
  BY DEF FreshWrites, Write
<1>3. /\ Len(DefaultWrites) = 4
      /\ \A i \in 1 .. 4 : DefaultWrites[i].word \notin {"network", "assoc"}
  BY DEF DefaultWrites, Write
<1>4. /\ FreshWrites \in Seq(Proper) /\ DefaultWrites \in Seq(Proper)
      /\ <<>> \in Seq(Proper)
  BY ListsProper
<1>5. ASSUME NEW i \in DOMAIN todo'
      PROVE  /\ todo'[i].word # "network"
             /\ todo'[i].word = "assoc" =>
                  2 \in DOMAIN todo' /\ 2 < i /\ todo'[2].word = "status"
  <2>1. CASE fresh
    <3>1. todo' = FreshWrites \o DefaultWrites
      BY <1>1, <2>1
    <3>2. /\ todo' \in Seq(Proper) /\ Len(todo') = 9
          /\ \A k \in 1 .. 5 : todo'[k] = FreshWrites[k]
          /\ \A k \in 1 .. 4 : todo'[5 + k] = DefaultWrites[k]
      <4>1. FreshWrites \in Seq(Proper) /\ DefaultWrites \in Seq(Proper)
        BY <1>4
      <4>2. /\ todo' \in Seq(Proper)
            /\ Len(todo') = Len(FreshWrites) + Len(DefaultWrites)
            /\ \A k \in 1 .. Len(FreshWrites) : todo'[k] = FreshWrites[k]
            /\ \A k \in 1 .. Len(DefaultWrites) :
                 todo'[Len(FreshWrites) + k] = DefaultWrites[k]
        BY <3>1, <4>1, Joined
      <4> QED BY <1>2, <1>3, <4>2
    <3>3. i \in 1 .. 9 /\ 2 \in DOMAIN todo' /\ todo'[2].word = "status"
      BY <1>2, <3>2
    <3>4. CASE i \in 1 .. 5
      BY <1>2, <3>2, <3>3, <3>4
    <3>5. CASE i \notin 1 .. 5
      <4>1. i - 5 \in 1 .. 4 /\ i = 5 + (i - 5)
        BY <3>3, <3>5
      <4>2. todo'[i] = DefaultWrites[i - 5]
        BY <3>2, <4>1
      <4> QED BY <1>3, <4>1, <4>2
    <3> QED BY <3>4, <3>5
  <2>2. CASE ~fresh
    <3> DEFINE b == IF reset THEN DefaultWrites ELSE <<>>
    <3>0. b \in Seq(Proper) /\ todo' = <<>> \o b
      BY <1>1, <1>4, <2>2
    <3> HIDE DEF b
    <3>1. todo' = b
      BY <3>0
    <3>2. i \in 1 .. 4 /\ todo' = DefaultWrites
      BY <1>3, <1>4, <3>1 DEF b
    <3> QED BY <1>3, <3>2
  <2> QED BY <2>1, <2>2
<1> QED BY <1>1, <1>5 DEF Noted, Unwritten

(* A write of the status ends the exception.                               *)
LEMMA NotedWrite == StorageInv /\ Types /\ Noted /\ Nvm_Write => Noted'
<1> SUFFICES ASSUME StorageInv, Types, Noted, Nvm_Write PROVE Noted'
  OBVIOUS
<1>1. /\ power /\ power' = power /\ todo # <<>>
      /\ handler = "boot" => handler' = "boot"
      /\ UNCHANGED <<assoc_state, Local_MESH_ID, FlashWrite>>
  BY DEF Nvm_Write, association, status
<1>2. /\ todo \in Seq(AnyWrite)
      /\ \A i \in DOMAIN todo' :
           i \in Nat /\ i + 1 \in DOMAIN todo /\ todo'[i] = todo[i + 1]
      /\ \A i \in DOMAIN todo \ {1} :
           i - 1 \in DOMAIN todo' /\ todo'[i - 1] = todo[i]
      /\ 1 \in DOMAIN todo
      /\ \A w \in Word : nvm'[w] = IF w = todo[1].word THEN todo[1].value
                                   ELSE nvm[w]
  BY WriteEffect DEF StorageInv, WritesOK
<1>3. {"status", "assoc", "network"} \subseteq Word
  BY DEF Word
<1>4. todo[1].word = "status" => ~Unwritten'
  <2>1. todo[1] \in Proper
    BY <1>2 DEF Types, Running
  <2>2. todo[1].word = "status" => todo[1].value \in Id \cup {NoId}
    BY <2>1, WordValues DEF Proper
  <2> QED BY <1>2, <1>3, <2>2 DEF Unwritten
<1>5. ASSUME Unwritten'
      PROVE  /\ Unwritten /\ handler = "boot"
             /\ UNCHANGED <<nvm["assoc"], nvm["network"]>>
             /\ \A i \in DOMAIN todo' :
                  /\ todo'[i].word # "network"
                  /\ todo'[i].word = "assoc" =>
                       \E j \in DOMAIN todo' : j < i /\ todo'[j].word = "status"
  <2>1. todo[1].word # "status"
    BY <1>4, <1>5
  <2>2. Unwritten
    BY <1>2, <1>3, <1>5, <2>1 DEF Unwritten
  <2>3. handler = "boot"
    BY <1>1, <2>2 DEF Noted
  <2>4. todo[1].word \notin {"network", "assoc"}
    <3>1. \A j \in DOMAIN todo : ~(j < 1)
      BY <1>2
    <3> QED BY <1>2, <2>2, <3>1 DEF Noted
  <2>5. ASSUME NEW i \in DOMAIN todo'
        PROVE  /\ todo'[i].word # "network"
               /\ todo'[i].word = "assoc" =>
                    \E j \in DOMAIN todo' : j < i /\ todo'[j].word = "status"
    <3>1. i \in Nat /\ i + 1 \in DOMAIN todo /\ todo'[i] = todo[i + 1]
      BY <1>2
    <3>2. todo'[i].word # "network"
      BY <2>2, <3>1 DEF Noted
    <3>3. ASSUME todo'[i].word = "assoc"
          PROVE  \E j \in DOMAIN todo' : j < i /\ todo'[j].word = "status"
      <4>1. PICK j \in DOMAIN todo : j < i + 1 /\ todo[j].word = "status"
        BY <2>2, <3>1, <3>3 DEF Noted
      <4>2. j - 1 \in DOMAIN todo' /\ todo'[j - 1].word = "status"
        BY <1>2, <2>1, <4>1
      <4>3. j - 1 < i
        BY <1>2, <3>1, <4>1
      <4> QED BY <4>2, <4>3
    <3> QED BY <3>2, <3>3
  <2> QED BY <1>2, <1>3, <2>2, <2>3, <2>4, <2>5
<1>6. Local_MESH_ID \in Id \cup {NoId}
  BY <1>1 DEF Noted
<1> QED BY <1>1, <1>5, <1>6 DEF Noted

(* Once the status was written, only the reported id matters.              *)
LEMMA NotedKeeps ==
  ASSUME Noted, UNCHANGED nvm, ~Unwritten, Local_MESH_ID' \in Id \cup {NoId}
  PROVE  Noted'
  BY DEF Noted, Unwritten

LEMMA NotedStep == StorageInv /\ OwnInv /\ Types /\ Noted /\ [Next]_vars => Noted'
<1> SUFFICES ASSUME StorageInv, OwnInv, Types, Noted, [Next]_vars
             PROVE  Noted'
  OBVIOUS
<1>1. Erased \notin {"not_associated", "association_started", "associated"}
  BY MarkAssumption
<1>2. ~Unwritten => Local_MESH_ID \in Id \cup {NoId}
  BY DEF Noted
<1>3. CASE PowerOn
  BY <1>3, NotedPowerOn
<1>4. CASE AppMeshInit
  <2>1. /\ handler = "boot" /\ UNCHANGED <<nvm, Local_MESH_ID, FlashWrite>>
        /\ assoc_state' = nvm["assoc"]
        /\ nvm["assoc"] # "not_associated" =>
             handler' = "none" /\ todo' = <<>>
    BY <1>4 DEF AppMeshInit, Begin, status
  <2>2. ~FlashWrite /\ Local_MESH_ID \in Id \cup {NoId}
    BY <2>1 DEF OwnInv, Noted
  <2> QED BY <1>1, <2>1, <2>2 DEF Noted, Unwritten
<1>5. CASE Nvm_Write
  BY <1>5, NotedWrite
<1>6. CASE \/ AssocStarted \/ AssocFailed \/ RemoveAssociation
           \/ \E bearer \in Bearer : BearerState(bearer)
           \/ \E ttl \in Ttl : SetParams(ttl)
           \/ \E index \in Index, group \in Group :
                HandleGroupSetMsg(index, group)
  <2>1. /\ Idle_ /\ UNCHANGED <<nvm, Local_MESH_ID>>
        /\ \/ assoc_state \in {"not_associated", "association_started"}
           \/ nvm["network"] # NoNetwork
    BY <1>6 DEF AssocStarted, AssocFailed, RemoveAssociation, BearerState,
                SetParams, HandleGroupSetMsg, configurable, status
  <2>2. ~Unwritten
    BY <1>1, <2>1 DEF Noted, Idle_
  <2> QED BY <1>2, <2>1, <2>2, NotedKeeps
<1>7. ASSUME NEW id \in Id, AssocComplete(id) PROVE Noted'
  <2>1. /\ Idle_ /\ UNCHANGED nvm /\ assoc_state = "association_started"
        /\ Local_MESH_ID' \in {id, Local_MESH_ID}
    BY <1>7 DEF AssocComplete, setStatus
  <2>2. ~Unwritten
    BY <1>1, <2>1 DEF Noted, Idle_
  <2> QED BY <1>2, <2>1, <2>2, NotedKeeps
<1>8. CASE deviceIdAdvertTimeoutHandler
  <2>1. CASE unassociated
    <3>1. Idle_ /\ UNCHANGED nvm /\ Local_MESH_ID' \in {NoId, Local_MESH_ID}
      BY <1>8 DEF deviceIdAdvertTimeoutHandler, setStatus
    <3>2. ~Unwritten
      BY <1>1, <2>1, <3>1 DEF Noted, Idle_, unassociated
    <3> QED BY <1>2, <3>1, <3>2, NotedKeeps
  <2>2. CASE ~unassociated
    BY <1>8, <2>2 DEF deviceIdAdvertTimeoutHandler, Noted, Unwritten
  <2> QED BY <2>1, <2>2
<1>9. CASE timer_100ms_RBINT \/ timer_1s_RBINT \/ UNCHANGED vars
  <2>1. UNCHANGED <<nvm, power, handler, todo, assoc_state, Local_MESH_ID,
                    FlashWrite>>
    BY <1>9 DEF timer_100ms_RBINT, timer_1s_RBINT, vars, association, status
  <2> QED BY <2>1 DEF Noted, Unwritten
<1>10. CASE flash_run
  <2>1. power /\ handler = "none" /\ UNCHANGED <<nvm, power, assoc_state>>
    BY <1>10 DEF flash_run, Idle_, association
  <2>2. CASE writeDue
    <3>1. FlashWrite /\ UNCHANGED Local_MESH_ID
      BY <1>10, <2>2 DEF flash_run, writeDue
    <3>2. ~Unwritten
      BY <2>1, <3>1 DEF Noted
    <3> QED BY <1>2, <2>1, <3>1, <3>2, NotedKeeps
  <2>3. CASE ~writeDue
    <3>1. /\ Local_MESH_ID' = nvm["status"]
          /\ UNCHANGED <<FlashWrite, handler, todo>>
      BY <1>10, <2>3 DEF flash_run
    <3> QED BY <2>1, <3>1 DEF Noted, Unwritten
  <2> QED BY <2>2, <2>3
<1>11. CASE Crash
  <2>1. ~power' /\ UNCHANGED nvm /\ Local_MESH_ID' = NoId /\ todo' = <<>>
    BY <1>11 DEF Crash, Off, Begin
  <2> QED BY <2>1 DEF Noted, Unwritten
<1> QED BY <1>3, <1>4, <1>5, <1>6, <1>7, <1>8, <1>9, <1>10, <1>11 DEF Next

(* The types, whatever the first start finds: each word holds what the     *)
(* code writes into it, or was never written or is of an old layout; and   *)
(* what is still to be written is proper.                                  *)
THEOREM TypeCorrect == Spec => []TypeOK
<1>1. Init => Stored
  BY DEF Init, Stored
<1>2. StorageInv /\ Types => TypeOK
  <2> SUFFICES ASSUME StorageInv, Types PROVE TypeOK
    OBVIOUS
  <2>1. /\ DOMAIN nvm = Word
        /\ \A w \in Word : nvm[w] \in Value(w) \cup
             (IF w \in {"sanity", "network"} THEN {} ELSE {Erased, Old})
    BY DEF Types, Words, Mark
  <2>2. \A i \in DOMAIN todo :
          todo[i].word \in Word /\ todo[i].value \in Value(todo[i].word)
    <3> SUFFICES ASSUME NEW i \in DOMAIN todo
                 PROVE  /\ todo[i].word \in Word
                        /\ todo[i].value \in Value(todo[i].word)
      OBVIOUS
    <3>1. todo[i] \in Proper
      BY DEF Types, Running
    <3> QED BY <3>1 DEF Proper, AnyWrite
  <2> QED BY <2>1, <2>2
          DEF TypeOK, Types, Flags, Counts, Running, StorageInv, Settled
<1> QED BY <1>1, <1>2, StoredStep, OwnInit, OwnStep, MatchCorrect, TypesInit,
           TypesStep, NotedInit, NotedStep, PTL DEF Spec
=============================================================================
