------------------------- MODULE InsertAllocProofs -------------------------
(***************************************************************************)
(* The output of insert-alloc-into-config, for any config, any allocation  *)
(* file and any spelling of its keys.                                      *)
(***************************************************************************)
EXTENDS InsertAlloc, TLAPS

-----------------------------------------------------------------------------
(* Keys and lines *)

LEMMA ElementsOf ==
  ASSUME NEW S, NEW s \in Seq(S)
  PROVE  DOMAIN s = 1..Len(s) /\ Len(s) \in Nat /\ \A i \in DOMAIN s : s[i] \in S
  OBVIOUS

LEMMA AppendOne ==
  ASSUME NEW S, NEW s \in Seq(S), NEW e \in S
  PROVE  /\ Append(s, e) \in Seq(S) /\ Len(Append(s, e)) = Len(s) + 1
         /\ DOMAIN Append(s, e) = DOMAIN s \cup {Len(s) + 1}
         /\ Len(s) + 1 \notin DOMAIN s /\ \A i \in DOMAIN s : i < Len(s) + 1
         /\ Append(s, e)[Len(s) + 1] = e
         /\ \A i \in DOMAIN s : Append(s, e)[i] = s[i]
  OBVIOUS

LEMMA ConfigTyped ==
  ASSUME config \in Configs
  PROVE  /\ config \in Seq(Pair) /\ DOMAIN config = 1..Len(config) /\ Len(config) \in Nat
         /\ \A i \in DOMAIN config : Spelling(config[i].key)
         /\ Has0x(config) \in BOOLEAN
  <1>1. config \in Seq(Pair) /\ \A i \in DOMAIN config : Spelling(config[i].key)
    BY InsertAllocAssumption
  <1>2. DOMAIN config = 1..Len(config) /\ Len(config) \in Nat
    BY <1>1, ElementsOf
  <1>4. Has0x(config) \in BOOLEAN
    BY DEF Has0x
  <1>. QED
    BY <1>1, <1>2, <1>4

\* A line with an entry has a key that is spelled as its address allows.
LEMMA EntryTyped ==
  ASSUME NEW line \in Line, line.type = "entry"
  PROVE  line.key \in Key /\ Spelling(line.key) /\ line.value \in Value
  BY InsertAllocAssumption DEF Line

\* The output's spelling of a key is the same for all spellings it is given in.
LEMMA OutKeyTyped ==
  ASSUME NEW c, NEW k \in Key
  PROVE  /\ OutKey(c, k) \in Key /\ Spelling(OutKey(c, k)) /\ OutKey(c, k).addr = k.addr
         /\ \A l \in Key : l.addr = k.addr => OutKey(c, l) = OutKey(c, k)
  <1>1. OutKey(c, k) \in Key /\ OutKey(c, k).addr = k.addr
    BY DEF OutKey, Key, Case
  <1>2. Spelling(OutKey(c, k))
    BY DEF Spelling, OutKey
  <1>3. \A l : l.addr = k.addr => OutKey(c, l) = OutKey(c, k)
    BY DEF OutKey
  <1>. QED
    BY <1>1, <1>2, <1>3

\* A config spelled in a form the script recognises is spelled as the script
\* spells the keys it adds.
Respelled == \A i \in DOMAIN config : config[i].key = OutKey(config, config[i].key)

LEMMA RecognisedRespelled == config \in Configs /\ Recognised => Respelled
  <1>. SUFFICES ASSUME config \in Configs, Recognised, NEW i \in DOMAIN config
                PROVE  config[i].key = OutKey(config, config[i].key)
    BY DEF Respelled
  <1>. DEFINE k == config[i].key
  <1>1. /\ 1 \in DOMAIN config /\ config # <<>>
        /\ k \in Key /\ Spelling(k) /\ config[1].key \in Key
    <2>1. /\ config \in Seq(Pair) /\ DOMAIN config = 1..Len(config) /\ Len(config) \in Nat
          /\ Spelling(k)
      BY ConfigTyped
    <2>2. 1 \in DOMAIN config
      BY <2>1
    <2>3. config[i] \in Pair /\ config[1] \in Pair
      BY <2>1, <2>2, ElementsOf
    <2>. QED
      BY <2>1, <2>2, <2>3 DEF Pair
  <1>2. k = [addr |-> k.addr, prefix |-> k.prefix, head |-> k.head, tail |-> k.tail]
    BY <1>1 DEF Key
  <1>3. PICK p \in {"0x", "none"} :
          \/ SpelledAs(p, "lower")
          \/ /\ SpelledAs(p, "upper")
             /\ config[1].key.tail = "upper" \/ (p = "0x" /\ config[1].key.head = "upper")
    BY DEF Recognised
  <1>4. CASE SpelledAs(p, "lower")
    <2>1. Form(config[1].key, p, "lower") /\ Form(k, p, "lower")
      BY <1>1, <1>4 DEF SpelledAs
    <2>2. ~IsUppercase(config) /\ (Has0x(config) <=> p = "0x")
      BY <1>1, <2>1 DEF Form, IsUppercase, Capital, Sample, Has0x
    <2>. QED
      BY <1>1, <1>2, <2>1, <2>2 DEF Form, OutKey, Spelling
  <1>5. CASE /\ SpelledAs(p, "upper")
             /\ config[1].key.tail = "upper" \/ (p = "0x" /\ config[1].key.head = "upper")
    <2>1. Form(config[1].key, p, "upper") /\ Form(k, p, "upper")
      BY <1>1, <1>5 DEF SpelledAs
    <2>2. IsUppercase(config) /\ (Has0x(config) <=> p = "0x")
      BY <1>1, <1>5, <2>1 DEF Form, IsUppercase, Capital, Sample, Has0x
    <2>. QED
      BY <1>1, <1>2, <2>1, <2>2 DEF Form, OutKey, Spelling
  <1>. QED
    BY <1>3, <1>4, <1>5

-----------------------------------------------------------------------------
(* Types *)

LEMMA TypeInitially == Init => TypeOK
  <1>. SUFFICES ASSUME Init PROVE TypeOK
    OBVIOUS
  <1>1. /\ lines \in Seq(Line) /\ output \in Seq(Pair) /\ DOMAIN output = {} /\ Len(lines) = 0
    BY DEF Init
  <1>2. Len(lines) <= MaxLines
    BY <1>1, InsertAllocAssumption
  <1>. QED
    BY <1>1, <1>2 DEF Init, TypeOK

LEMMA TypeNext == TypeOK /\ [Next]_vars => TypeOK'
  <1>. SUFFICES ASSUME TypeOK, [Next]_vars PROVE TypeOK'
    OBVIOUS
  <1>1. CASE /\ UNCHANGED <<config, overwriteExisting, lines, output>>
             /\ pc' \in {"start", "reading", "ending", "done", "failed", "crashed"}
             /\ outputFile' \in {"absent", "opening", "partial", "complete"}
    BY <1>1 DEF TypeOK, Spelling
  <1>2. CASE CopyConfig
    <2>1. /\ output' = config /\ pc' = "reading" /\ outputFile' = "opening"
          /\ UNCHANGED <<config, overwriteExisting, lines>>
      BY <1>2 DEF CopyConfig
    <2>2. output' \in Seq(Pair) /\ \A i \in DOMAIN output' : Spelling(output'[i].key)
      BY <2>1, ConfigTyped DEF TypeOK
    <2>. QED
      BY <2>1, <2>2 DEF TypeOK
  <1>3. ASSUME NEW line \in Line, Processed(line)
        PROVE  /\ lines' \in Seq(Line) /\ Len(lines') <= MaxLines
               /\ UNCHANGED <<config, overwriteExisting, pc, outputFile>>
    <2>1. /\ lines \in Seq(Line) /\ Len(lines) \in Nat /\ MaxLines \in Nat
          /\ lines' = Append(lines, line) /\ Len(lines) < MaxLines
          /\ UNCHANGED <<config, overwriteExisting, pc, outputFile>>
      BY <1>3, ElementsOf, InsertAllocAssumption DEF TypeOK, Processed
    <2>2. lines' \in Seq(Line) /\ Len(lines') = Len(lines) + 1
      BY <2>1, AppendOne
    <2>. QED
      BY <2>1, <2>2
  <1>4. ASSUME NEW line \in Line, Structure(line) PROVE TypeOK'
    BY <1>3, <1>4 DEF Structure, TypeOK
  <1>5. ASSUME NEW line \in Line, Insert(line) PROVE TypeOK'
    <2>1. CASE Skipped(line)
      BY <1>3, <1>5, <2>1 DEF Insert, TypeOK
    <2>2. CASE ~Skipped(line)
      <3>. DEFINE pair == [key |-> OutKey(config, line.key), value |-> line.value]
      <3>1. output' = Append(output, pair) /\ line.type = "entry" /\ Processed(line)
        BY <1>5, <2>2 DEF Insert
      <3>2. pair \in Pair /\ Spelling(pair.key)
        BY <3>1, EntryTyped, OutKeyTyped DEF Pair, TypeOK
      <3>. HIDE DEF pair
      <3>3. /\ output' \in Seq(Pair) /\ DOMAIN output' = DOMAIN output \cup {Len(output) + 1}
            /\ output'[Len(output) + 1] = pair
            /\ \A i \in DOMAIN output : output'[i] = output[i]
        BY <3>1, <3>2, AppendOne DEF TypeOK
      <3>4. \A i \in DOMAIN output' : Spelling(output'[i].key)
        BY <3>2, <3>3 DEF TypeOK
      <3>. QED
        BY <1>3, <3>1, <3>3, <3>4 DEF TypeOK
    <2>. QED
      BY <2>1, <2>2
  <1>6. CASE BadConfig \/ OpenOutput \/ InputError \/ EndOfAlloc \/ OutputFinished \/ OutputError
    BY <1>1, <1>6 DEF BadConfig, OpenOutput, InputError, EndOfAlloc, OutputFinished, OutputError,
                      Fail, TypeOK
  <1>7. ASSUME NEW line \in Line, BadLine(line) PROVE TypeOK'
    BY <1>1, <1>7 DEF BadLine, Fail
  <1>8. CASE UNCHANGED vars
    BY <1>1, <1>8 DEF vars, TypeOK
  <1>. QED
    BY <1>2, <1>4, <1>5, <1>6, <1>7, <1>8 DEF Next

\* Whatever the files hold, the output has well-spelled keys.
THEOREM InsertTypeCorrect == Spec => []TypeOK
  BY TypeInitially, TypeNext, PTL DEF Spec

-----------------------------------------------------------------------------
(* Which entry wins *)

\* What is written is spelled the way the script spells, and the keys the
\* config had, if they are spelled that way.
SpellingInv ==
  /\ TypeOK
  /\ Respelled => \A i \in DOMAIN output : output[i].key = OutKey(config, output[i].key)

\* The values that a reader of s takes from positions P.
Taken(s, P) == {s[i].value : i \in {j \in DOMAIN s : IsLast(P, j)}}

\* Reader and rule agree at every line, not only at the end.
WinnerInv ==
  /\ outputFile = "complete" => pc = "done"
  /\ Respelled =>
       /\ pc = "start" => lines = <<>>
       /\ pc \in {"reading", "ending", "done"} =>
            \A a \in Addr : Taken(output, Written(a)) = Winner(a)

\* The config of the run and its mode do not change, and what is read off the
\* config does not either.
LEMMA ConfigStays ==
  ASSUME [Next]_vars
  PROVE  /\ config' = config /\ overwriteExisting' = overwriteExisting
         /\ Respelled' = Respelled /\ Recognised' = Recognised
         /\ \A k : OutKey(config, k)' = OutKey(config, k)
  <1>1. config' = config /\ overwriteExisting' = overwriteExisting
    BY DEF Next, vars, CopyConfig, BadConfig, OpenOutput, Processed, Structure, Insert, BadLine,
           InputError, EndOfAlloc, OutputFinished, OutputError, Fail
  <1>. QED
    BY <1>1 DEF Respelled, Recognised, SpelledAs

LEMMA SpellingNext == SpellingInv /\ [Next]_vars => SpellingInv'
  <1>. SUFFICES ASSUME SpellingInv, [Next]_vars PROVE SpellingInv'
    OBVIOUS
  <1>1. TypeOK /\ TypeOK'
    BY TypeNext DEF SpellingInv
  <1>2. config' = config /\ Respelled' = Respelled
    BY ConfigStays
  <1>3. SUFFICES ASSUME Respelled
                 PROVE  \A i \in DOMAIN output' : output'[i].key = OutKey(config, output'[i].key)
    BY <1>1, <1>2 DEF SpellingInv
  <1>4. CASE output' = output
    BY <1>3, <1>4 DEF SpellingInv
  <1>5. CASE CopyConfig
    <2>1. output' = config
      BY <1>5 DEF CopyConfig
    <2>. QED
      BY <1>3, <2>1 DEF Respelled
  <1>6. ASSUME NEW line \in Line, Insert(line), ~Skipped(line)
        PROVE  \A i \in DOMAIN output' : output'[i].key = OutKey(config, output'[i].key)
    <2>. DEFINE pair == [key |-> OutKey(config, line.key), value |-> line.value]
    <2>1. output' = Append(output, pair) /\ line.type = "entry"
      BY <1>6 DEF Insert
    <2>2. line.key \in Key /\ line.value \in Value
      BY <2>1, EntryTyped
    <2>3. /\ OutKey(config, line.key) \in Key
          /\ OutKey(config, OutKey(config, line.key)) = OutKey(config, line.key)
      BY <2>2, OutKeyTyped
    <2>4. pair \in Pair /\ pair.key = OutKey(config, pair.key)
      BY <2>2, <2>3 DEF Pair
    <2>. HIDE DEF pair
    <2>5. /\ DOMAIN output' = DOMAIN output \cup {Len(output) + 1}
          /\ output'[Len(output) + 1] = pair
          /\ \A i \in DOMAIN output : output'[i] = output[i]
      BY <1>1, <2>1, <2>4, AppendOne DEF TypeOK
    <2>. QED
      BY <1>3, <2>4, <2>5 DEF SpellingInv
  <1>7. ASSUME NEW line \in Line, Structure(line) \/ BadLine(line) \/ (Insert(line) /\ Skipped(line))
        PROVE  output' = output
    BY <1>7 DEF Structure, BadLine, Fail, Insert
  <1>8. CASE \/ BadConfig \/ OpenOutput \/ InputError \/ EndOfAlloc \/ OutputFinished \/ OutputError
             \/ UNCHANGED vars
    BY <1>4, <1>8 DEF BadConfig, OpenOutput, InputError, EndOfAlloc, OutputFinished, OutputError,
                      Fail, vars
  <1>. QED
    BY <1>4, <1>5, <1>6, <1>7, <1>8 DEF Next

LEMMA SpellingInvariant == Spec => []SpellingInv
  <1>1. Init => SpellingInv
    <2>1. Init => DOMAIN output = {}
      BY DEF Init
    <2>. QED
      BY <2>1, TypeInitially DEF SpellingInv
  <1>. QED
    BY <1>1, SpellingNext, PTL DEF Spec

\* With a config that is spelled in a form the script recognises, no address is
\* in the output under two spellings.
THEOREM InsertSpellsOnce == Spec => []OneSpelling
  <1>1. SpellingInv => OneSpelling
    <2>. SUFFICES ASSUME SpellingInv, Recognised, NEW i \in DOMAIN output, NEW j \in DOMAIN output,
                         output[i].key.addr = output[j].key.addr
                  PROVE  output[i].key = output[j].key
      BY DEF OneSpelling
    <2>1. Respelled
      BY RecognisedRespelled DEF SpellingInv, TypeOK
    <2>2. output[i].key = OutKey(config, output[i].key) /\ output[j].key = OutKey(config, output[j].key)
      BY <2>1 DEF SpellingInv
    <2>3. OutKey(config, output[i].key) = OutKey(config, output[j].key)
      BY DEF OutKey
    <2>. QED
      BY <2>2, <2>3
  <1>. QED
    BY <1>1, SpellingInvariant, PTL

\* Appending something about an address does not change what a reader takes
\* for another one, and is what the reader takes for that address.
LEMMA TakenElsewhere ==
  ASSUME NEW S, NEW s \in Seq(S), NEW e \in S, NEW P \in SUBSET DOMAIN s
  PROVE  Taken(Append(s, e), P) = Taken(s, P)
  <1>. DEFINE t == Append(s, e)
              last == Len(s) + 1
  <1>1. /\ DOMAIN t = DOMAIN s \cup {last} /\ last \notin DOMAIN s
        /\ \A i \in DOMAIN s : t[i] = s[i]
    BY AppendOne
  <1>. HIDE DEF t, last
  <1>2. {j \in DOMAIN t : IsLast(P, j)} = {j \in DOMAIN s : IsLast(P, j)}
    BY <1>1 DEF IsLast
  <1>3. Taken(t, P) = Taken(s, P)
    BY <1>1, <1>2 DEF Taken
  <1>. QED
    BY <1>3 DEF t

LEMMA TakenThere ==
  ASSUME NEW S, NEW s \in Seq(S), NEW e \in S, NEW P \in SUBSET DOMAIN s
  PROVE  \A v : v \in Taken(Append(s, e), P \cup {Len(s) + 1}) <=> v = e.value
  <1>. DEFINE t == Append(s, e)
              last == Len(s) + 1
  <1>1. /\ DOMAIN t = DOMAIN s \cup {last} /\ DOMAIN s = 1..Len(s) /\ Len(s) \in Nat
        /\ t[last] = e
    BY AppendOne, ElementsOf
  <1>2. last \in Nat /\ \A j \in P : j <= last /\ ~(last <= j) /\ j # last
    BY <1>1
  <1>. HIDE DEF t, last
  <1>3. {j \in DOMAIN t : IsLast(P \cup {last}, j)} = {last}
    BY <1>1, <1>2 DEF IsLast
  <1>4. \A v : v \in Taken(t, P \cup {last}) <=> v = e.value
    BY <1>1, <1>3 DEF Taken
  <1>. QED
    BY <1>4 DEF t, last

\* A line adds one position to those of its address, if it is an entry, and
\* none to those of another address.
LEMMA WinnerAtLine ==
  ASSUME TypeOK, NEW line \in Line, Processed(line), NEW a \in Addr
  PROVE  /\ Configured(a)' = Configured(a)
         /\ Given(a)' = IF line.type = "entry" /\ line.key.addr = a
                        THEN Given(a) \cup {Len(lines) + 1} ELSE Given(a)
         /\ ~(line.type = "entry" /\ line.key.addr = a) => Winner(a)' = Winner(a)
         /\ line.type = "entry" /\ line.key.addr = a =>
              Winner(a)' = IF ~overwriteExisting /\ Configured(a) # {}
                           THEN Taken(config, Configured(a)) ELSE {line.value}
  <1>1. /\ lines' = Append(lines, line) /\ lines \in Seq(Line)
        /\ UNCHANGED <<config, overwriteExisting>>
    BY DEF Processed, TypeOK
  <1>2. /\ DOMAIN lines' = DOMAIN lines \cup {Len(lines) + 1}
        /\ Len(lines) + 1 \notin DOMAIN lines
        /\ lines'[Len(lines) + 1] = line /\ \A i \in DOMAIN lines : lines'[i] = lines[i]
    BY <1>1, AppendOne
  <1>3. Configured(a)' = Configured(a)
    BY <1>1 DEF Configured
  <1>4. Given(a)' = IF line.type = "entry" /\ line.key.addr = a
                    THEN Given(a) \cup {Len(lines) + 1} ELSE Given(a)
    BY <1>2 DEF Given, Entries
  <1>5. Given(a) \in SUBSET DOMAIN lines
    BY DEF Given, Entries
  <1>6. /\ Taken(lines', Given(a)) = Taken(lines, Given(a))
        /\ Taken(lines', Given(a) \cup {Len(lines) + 1}) = {line.value}
    <2>1. Taken(lines', Given(a)) = Taken(lines, Given(a))
      BY <1>1, <1>5, TakenElsewhere
    <2>2. Taken(lines', Given(a) \cup {Len(lines) + 1}) = {line.value}
      BY <1>1, <1>5, TakenThere
    <2>. QED
      BY <2>1, <2>2
  <1>7. /\ Winner(a) = IF Given(a) = {} \/ (~overwriteExisting /\ Configured(a) # {})
                       THEN Taken(config, Configured(a)) ELSE Taken(lines, Given(a))
        /\ Winner(a)' = IF Given(a)' = {} \/ (~overwriteExisting /\ Configured(a) # {})
                        THEN Taken(config, Configured(a)) ELSE Taken(lines', Given(a)')
    BY <1>1, <1>3 DEF Winner, Taken
  <1>. QED
    BY <1>3, <1>4, <1>6, <1>7

LEMMA WinnerNext == SpellingInv /\ WinnerInv /\ [Next]_vars => WinnerInv'
  <1>. SUFFICES ASSUME SpellingInv, WinnerInv, [Next]_vars PROVE WinnerInv'
    OBVIOUS
  <1>0. outputFile' = "complete" => pc' = "done"
    BY DEF WinnerInv, Next, vars, CopyConfig, BadConfig, OpenOutput, Processed, Structure, Insert,
           BadLine, InputError, EndOfAlloc, OutputFinished, OutputError, Fail
  <1>1. TypeOK /\ config' = config /\ overwriteExisting' = overwriteExisting
    BY ConfigStays DEF SpellingInv
  <1>2. SUFFICES ASSUME Respelled
                 PROVE  /\ pc' = "start" => lines' = <<>>
                        /\ pc' \in {"reading", "ending", "done"} =>
                             \A a \in Addr : Taken(output', Written(a)') = Winner(a)'
    <2>1. Respelled' = Respelled
      BY ConfigStays
    <2>2. \A a \in Addr : Taken(output, Written(a))' = Taken(output', Written(a)')
      BY DEF Taken
    <2>. QED
      BY <1>0, <1>2, <2>1, <2>2 DEF WinnerInv
  <1>. DEFINE Goal == /\ pc' = "start" => lines' = <<>>
                      /\ pc' \in {"reading", "ending", "done"} =>
                           \A a \in Addr : Taken(output', Written(a)') = Winner(a)'
  <1>3. CASE /\ UNCHANGED <<lines, output>> /\ pc' # "start"
             /\ pc' \in {"reading", "ending", "done"} => pc \in {"reading", "ending", "done"}
    <2>1. \A a \in Addr : Winner(a)' = Winner(a) /\ Written(a)' = Written(a)
      BY <1>1, <1>3 DEF Winner, Written, Given, Configured, Entries
    <2>2. \A a \in Addr : Taken(output', Written(a)') = Taken(output, Written(a))
      BY <1>3, <2>1 DEF Taken
    <2>. QED
      BY <1>2, <1>3, <2>1, <2>2 DEF WinnerInv
  <1>4. CASE CopyConfig
    <2>1. output' = config /\ lines' = <<>> /\ pc' = "reading"
      BY <1>2, <1>4 DEF CopyConfig, WinnerInv
    <2>2. \A a \in Addr : Given(a)' = {} /\ Written(a)' = Configured(a)'
      BY <1>1, <2>1 DEF Given, Entries, Written, Configured
    <2>3. \A a \in Addr : Winner(a)' = Taken(config', Configured(a)')
      BY <2>2 DEF Winner, Taken
    <2>. QED
      BY <1>1, <2>1, <2>2, <2>3
  <1>5. ASSUME NEW line \in Line, Structure(line) PROVE Goal
    <2>1. Processed(line) /\ line.type = "structure" /\ output' = output /\ pc = "reading" /\ pc' = pc
      BY <1>5 DEF Structure, Processed
    <2>2. \A a \in Addr : Winner(a)' = Winner(a)
      BY <1>1, <2>1, WinnerAtLine
    <2>3. \A a \in Addr : Taken(output', Written(a)') = Taken(output, Written(a))
      BY <2>1 DEF Written, Taken
    <2>. QED
      BY <1>2, <2>1, <2>2, <2>3 DEF WinnerInv
  <1>6. ASSUME NEW line \in Line, Insert(line) PROVE Goal
    <2>. DEFINE pair == [key |-> OutKey(config, line.key), value |-> line.value]
                x == line.key.addr
    <2>1. /\ Processed(line) /\ line.type = "entry" /\ pc = "reading" /\ pc' = pc
          /\ output' = IF Skipped(line) THEN output ELSE Append(output, pair)
      BY <1>6 DEF Insert, Processed
    <2>2. line.key \in Key /\ x \in Addr /\ pair \in Pair /\ pair.key.addr = x /\ output \in Seq(Pair)
      BY <1>1, <2>1, EntryTyped, OutKeyTyped DEF Pair, Key, TypeOK
    <2>3. ASSUME NEW a \in Addr PROVE Taken(output', Written(a)') = Winner(a)'
      <3>1. Taken(output, Written(a)) = Winner(a)
        BY <1>2, <2>1 DEF WinnerInv
      <3>2. Written(a) \in SUBSET DOMAIN output
        BY DEF Written
      <3>3. CASE Skipped(line)
        <4>1. output' = output /\ Written(a)' = Written(a)
          BY <2>1, <3>3 DEF Written
        <4>2. CASE a # x
          BY <1>1, <2>1, <3>1, <4>1, <4>2, WinnerAtLine
        <4>3. CASE a = x
          <5>1. ~overwriteExisting /\ Configured(a) # {}
            <6>1. PICK i \in DOMAIN config : config[i].key = OutKey(config, line.key)
              BY <3>3 DEF Skipped, PresentIn
            <6>2. config[i].key.addr = x
              BY <6>1 DEF OutKey
            <6>. QED
              BY <3>3, <4>3, <6>2 DEF Skipped, Configured
          <5>2. Winner(a) = Taken(config, Configured(a))
            BY <5>1 DEF Winner, Taken
          <5>3. Winner(a)' = Taken(config, Configured(a))
            BY <1>1, <2>1, <4>3, <5>1, WinnerAtLine
          <5>. QED
            BY <3>1, <4>1, <5>2, <5>3
        <4>. QED
          BY <4>2, <4>3
      <3>4. CASE ~Skipped(line)
        <4>1. output' = Append(output, pair)
          BY <2>1, <3>4
        <4>2. /\ DOMAIN output' = DOMAIN output \cup {Len(output) + 1}
              /\ Len(output) + 1 \notin DOMAIN output
              /\ output'[Len(output) + 1] = pair /\ \A i \in DOMAIN output : output'[i] = output[i]
          BY <2>2, <4>1, AppendOne
        <4>3. Written(a)' = IF a = x THEN Written(a) \cup {Len(output) + 1} ELSE Written(a)
          BY <2>2, <4>2 DEF Written
        <4>4. /\ Taken(output', Written(a)) = Taken(output, Written(a))
              /\ Taken(output', Written(a) \cup {Len(output) + 1}) = {line.value}
          <5>1. pair.value = line.value
            OBVIOUS
          <5>. HIDE DEF pair
          <5>. QED
            <6>1. Taken(output', Written(a)) = Taken(output, Written(a))
              BY <2>2, <3>2, <4>1, TakenElsewhere
            <6>2. Taken(output', Written(a) \cup {Len(output) + 1}) = {pair.value}
              BY <2>2, <3>2, <4>1, TakenThere
            <6>. QED
              BY <5>1, <6>1, <6>2
        <4>5. CASE a # x
          BY <1>1, <2>1, <3>1, <4>3, <4>4, <4>5, WinnerAtLine
        <4>6. CASE a = x
          <5>1. ~(~overwriteExisting /\ Configured(a) # {})
            <6>. SUFFICES ASSUME ~overwriteExisting, NEW i \in Configured(a) PROVE FALSE
              OBVIOUS
            <6>1. i \in DOMAIN config /\ config[i].key.addr = x
              BY <4>6 DEF Configured
            <6>2. config[i].key = OutKey(config, config[i].key)
              BY <1>2, <6>1 DEF Respelled
            <6>3. OutKey(config, config[i].key) = OutKey(config, line.key)
              BY <6>1 DEF OutKey
            <6>. QED
              BY <3>4, <6>1, <6>2, <6>3 DEF Skipped, PresentIn
          <5>2. Winner(a)' = {line.value}
            BY <1>1, <2>1, <4>6, <5>1, WinnerAtLine
          <5>. QED
            BY <4>3, <4>4, <4>6, <5>2
        <4>. QED
          BY <4>5, <4>6
      <3>. QED
        BY <3>3, <3>4
    <2>. QED
      BY <2>1, <2>3
  <1>7. ASSUME NEW line \in Line, BadLine(line) PROVE Goal
    BY <1>3, <1>7 DEF BadLine, Fail
  <1>8. CASE BadConfig \/ InputError \/ EndOfAlloc \/ OutputFinished \/ OutputError
    BY <1>3, <1>8 DEF BadConfig, InputError, EndOfAlloc, OutputFinished, OutputError, Fail
  <1>9. CASE UNCHANGED vars \/ OpenOutput
    <2>1. CASE pc = "start"
      BY <1>2, <1>9, <2>1 DEF WinnerInv, vars, OpenOutput
    <2>2. CASE pc # "start"
      BY <1>3, <1>9, <2>2 DEF vars, OpenOutput
    <2>. QED
      BY <2>1, <2>2
  <1>. QED
    BY <1>4, <1>5, <1>6, <1>7, <1>8, <1>9 DEF Next

\* With a config that is spelled in a form the script recognises, and however
\* the allocation file spells its keys, the right entry wins.
THEOREM InsertRightEntryWins == Spec => []RightEntryWins
  <1>1. Init => WinnerInv
    BY DEF Init, WinnerInv
  <1>2. SpellingInv /\ WinnerInv => RightEntryWins
    <2>. SUFFICES ASSUME SpellingInv, WinnerInv, outputFile = "complete", Recognised
                  PROVE  \A a \in Addr : Taken(output, Written(a)) = Winner(a)
      BY DEF RightEntryWins, Taken
    <2>1. Respelled
      BY RecognisedRespelled DEF SpellingInv, TypeOK
    <2>. QED
      BY <2>1 DEF WinnerInv
  <1>. QED
    BY <1>1, <1>2, WinnerNext, SpellingInvariant, PTL DEF Spec

-----------------------------------------------------------------------------
(* A second run *)

\* The output spells like the config, from the first key on, and holds every
\* address that was read.
RerunInv ==
  /\ outputFile = "complete" => pc = "done"
  /\ pc = "start" => lines = <<>>
  /\ pc \in {"reading", "ending", "done"} =>
       /\ \A i \in DOMAIN config : i \in DOMAIN output /\ output[i].key = config[i].key
       /\ \A k \in Key : OutKey(output, k) = OutKey(config, k)
       /\ \A i \in Entries : \E j \in DOMAIN output : output[j].key = OutKey(config, lines[i].key)

\* What is appended to the output does not change how the output spells: there
\* is a first key already, or the first key is one the script spelled itself.
LEMMA AppendSpells ==
  ASSUME TypeOK, config # <<>> => output # <<>>, NEW k \in Key, NEW v \in Value, NEW l \in Key,
         OutKey(output, l) = OutKey(config, l)
  PROVE  OutKey(Append(output, [key |-> OutKey(config, k), value |-> v]), l) = OutKey(config, l)
  <1>. DEFINE pair == [key |-> OutKey(config, k), value |-> v]
              longer == Append(output, pair)
  <1>1. output \in Seq(Pair) /\ pair \in Pair /\ pair.key = OutKey(config, k)
    BY OutKeyTyped DEF TypeOK, Pair
  <1>2. longer # <<>>
    BY <1>1
  <1>. HIDE DEF pair
  <1>3. CASE output # <<>>
    <2>1. longer[1] = output[1]
      BY <1>1, <1>3
    <2>2. Has0x(longer) = Has0x(output) /\ IsUppercase(longer) = IsUppercase(output)
      BY <1>2, <1>3, <2>1 DEF Has0x, IsUppercase, Sample
    <2>. QED
      BY <2>2 DEF OutKey, pair
  <1>4. CASE output = <<>>
    <2>1. config = <<>> /\ longer[1] = pair
      BY <1>1, <1>4
    <2>2. Has0x(config) /\ ~IsUppercase(config)
      BY <2>1 DEF Has0x, IsUppercase
    <2>3. /\ pair.key.prefix = "0x"
          /\ pair.key.head \in {"lower", "none"} /\ pair.key.tail \in {"lower", "none"}
      BY <1>1, <2>2 DEF OutKey
    <2>4. Has0x(longer) /\ ~IsUppercase(longer)
      BY <1>2, <2>1, <2>3 DEF Has0x, IsUppercase, Sample, Capital
    <2>. QED
      BY <2>2, <2>4 DEF OutKey, pair
  <1>. QED
    BY <1>3, <1>4

LEMMA RerunNext == TypeOK /\ RerunInv /\ [Next]_vars => RerunInv'
  <1>. SUFFICES ASSUME TypeOK, RerunInv, [Next]_vars PROVE RerunInv'
    OBVIOUS
  <1>1. config' = config
    BY ConfigStays
  <1>2. CASE /\ UNCHANGED <<lines, output>>
             /\ outputFile' = "complete" => pc' = "done"
             /\ pc' = "start" => pc = "start"
             /\ pc' \in {"reading", "ending", "done"} => pc \in {"reading", "ending", "done"}
    BY <1>1, <1>2 DEF RerunInv, Entries
  <1>3. CASE CopyConfig
    <2>1. output' = config /\ lines' = <<>> /\ pc' = "reading" /\ outputFile' = "opening"
      BY <1>3 DEF CopyConfig, RerunInv
    <2>. QED
      BY <1>1, <2>1 DEF RerunInv, Entries
  <1>4. ASSUME NEW line \in Line, Processed(line)
        PROVE  /\ lines' = Append(lines, line) /\ lines \in Seq(Line)
               /\ DOMAIN lines' = DOMAIN lines \cup {Len(lines) + 1}
               /\ lines'[Len(lines) + 1] = line /\ \A i \in DOMAIN lines : lines'[i] = lines[i]
               /\ pc = "reading" /\ UNCHANGED <<pc, outputFile>>
    BY <1>4, AppendOne DEF Processed, TypeOK
  <1>5. ASSUME NEW line \in Line, Structure(line) PROVE RerunInv'
    <2>1. Processed(line) /\ line.type = "structure" /\ output' = output
      BY <1>5 DEF Structure
    <2>2. Entries' = Entries
      BY <1>4, <2>1 DEF Entries
    <2>. QED
      BY <1>1, <1>4, <2>1, <2>2 DEF RerunInv, Entries
  <1>6. ASSUME NEW line \in Line, Insert(line) PROVE RerunInv'
    <2>. DEFINE pair == [key |-> OutKey(config, line.key), value |-> line.value]
    <2>1. /\ Processed(line) /\ line.type = "entry"
          /\ output' = IF Skipped(line) THEN output ELSE Append(output, pair)
      BY <1>6 DEF Insert
    <2>2. line.key \in Key /\ line.value \in Value /\ pair \in Pair /\ output \in Seq(Pair)
      BY <2>1, EntryTyped, OutKeyTyped DEF Pair, TypeOK
    <2>3. Entries' = Entries \cup {Len(lines) + 1}
      BY <1>4, <2>1 DEF Entries
    <2>4. ASSUME NEW k \in Key, k = line.key \/ \E i \in Entries : k = lines[i].key
          PROVE  \E j \in DOMAIN output' : output'[j].key = OutKey(config, k)
      <3>1. CASE Skipped(line)
        <4>1. output' = output
          BY <2>1, <3>1
        <4>2. CASE k = line.key
          <5>1. PICK i \in DOMAIN config : config[i].key = OutKey(config, line.key)
            BY <3>1 DEF Skipped, PresentIn
          <5>. QED
            BY <1>4, <2>1, <4>1, <4>2, <5>1 DEF RerunInv
        <4>. QED
          BY <1>4, <2>1, <2>4, <4>1, <4>2 DEF RerunInv
      <3>2. CASE ~Skipped(line)
        <4>1. /\ DOMAIN output' = DOMAIN output \cup {Len(output) + 1}
              /\ output'[Len(output) + 1] = pair
              /\ \A j \in DOMAIN output : output'[j] = output[j]
          BY <2>1, <2>2, <3>2, AppendOne
        <4>. QED
          BY <1>4, <2>1, <2>4, <4>1 DEF RerunInv
      <3>. QED
        BY <3>1, <3>2
    <2>5. ASSUME NEW i \in Entries'
          PROVE  \E j \in DOMAIN output' : output'[j].key = OutKey(config, lines'[i].key)
      <3>1. CASE i = Len(lines) + 1
        BY <1>4, <2>1, <2>2, <2>4, <3>1
      <3>2. CASE i \in Entries
        <4>1. lines'[i] = lines[i] /\ lines[i] \in Line /\ lines[i].type = "entry"
          BY <1>4, <2>1, <3>2, ElementsOf DEF Entries
        <4>2. lines[i].key \in Key
          BY <4>1, EntryTyped
        <4>. QED
          BY <2>4, <3>2, <4>1, <4>2
      <3>. QED
        BY <2>3, <3>1, <3>2
    <2>6. \A i \in DOMAIN config : i \in DOMAIN output' /\ output'[i].key = config[i].key
      <3>1. \A i \in DOMAIN output : i \in DOMAIN output' /\ output'[i] = output[i]
        BY <2>1, <2>2, AppendOne
      <3>. QED
        BY <1>4, <2>1, <3>1 DEF RerunInv
    <2>7. ASSUME NEW l \in Key PROVE OutKey(output', l) = OutKey(config, l)
      <3>1. config # <<>> => output # <<>>
        <4>. SUFFICES ASSUME config # <<>>, output = <<>> PROVE FALSE
          OBVIOUS
        <4>1. 1 \in DOMAIN config
          BY ConfigTyped DEF TypeOK
        <4>. QED
          BY <1>4, <2>1, <4>1 DEF RerunInv
      <3>2. OutKey(output, l) = OutKey(config, l)
        BY <1>4, <2>1 DEF RerunInv
      <3>. QED
        BY <2>1, <2>2, <3>1, <3>2, AppendSpells
    <2>. QED
      BY <1>1, <1>4, <2>1, <2>5, <2>6, <2>7 DEF RerunInv
  <1>7. ASSUME NEW line \in Line, BadLine(line) PROVE RerunInv'
    BY <1>2, <1>7 DEF BadLine, Fail
  <1>8. CASE BadConfig \/ OpenOutput \/ InputError \/ EndOfAlloc \/ OutputFinished \/ OutputError
    BY <1>2, <1>8 DEF BadConfig, OpenOutput, InputError, EndOfAlloc, OutputFinished, OutputError,
                      Fail, RerunInv
  <1>9. CASE UNCHANGED vars
    BY <1>2, <1>9 DEF vars, RerunInv
  <1>. QED
    BY <1>3, <1>5, <1>6, <1>7, <1>8, <1>9 DEF Next

\* Run again with its own output as the config the script adds nothing, however
\* the config was spelled.
THEOREM InsertRerunAddsNothing == Spec => []RerunAddsNothing
  <1>1. Init => RerunInv
    BY DEF Init, RerunInv
  <1>2. TypeOK /\ RerunInv => RerunAddsNothing
    <2>. SUFFICES ASSUME TypeOK, RerunInv, outputFile = "complete", NEW i \in Entries
                  PROVE  \E j \in DOMAIN output : output[j].key = OutKey(output, lines[i].key)
      BY DEF RerunAddsNothing, PresentIn
    <2>1. lines[i] \in Line /\ lines[i].type = "entry"
      BY ElementsOf DEF TypeOK, Entries
    <2>2. lines[i].key \in Key
      BY <2>1, EntryTyped
    <2>. QED
      BY <2>2 DEF RerunInv
  <1>. QED
    BY <1>1, <1>2, RerunNext, TypeInitially, TypeNext, PTL DEF Spec
=============================================================================
