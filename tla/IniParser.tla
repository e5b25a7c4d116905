------------------------------ MODULE IniParser ------------------------------
(***************************************************************************)
(* conf/iniparser.cpp: a program loads a file into a dictionary, looks up, *)
(* sets and removes entries, and loads the file again, changed meanwhile,  *)
(* into the same dictionary.  A line is abstracted to what iniparser_line  *)
(* makes of it; each turn of the loop over the lines is a step.            *)
(***************************************************************************)
EXTENDS Dictionary, SequencesExt

CONSTANTS
  Words,         \* what the text of a line is made of
  Marks, Quotes, BACKSLASH,   \* the words that are ; or #, " or ', and \
  NameWord, NullWord,    \* a name with its "=", and what "%s" prints for NULL
  Lines,         \* the lines a file may have
  UserKeys, UserValues,   \* what the program sets and removes by itself
  MISSING,       \* INI_INVALID_KEY, what a lookup answers for no entry
  MaxLines,      \* bound: lines of a file
  MaxCount       \* bound: d->n before another reload or set

\* name is the section or key; NULL stands for "[]", which names the section
\* before it again.  value is the text behind the "=", text the words of the
\* line when it continues one that ends in '\'; more says that it ends so itself.
LineType ==
  [kind : {"section", "value", "skip", "error", "long"}, name : {line.name : line \in Lines},
   value : Seq(Words), text : Seq(Words), more : BOOLEAN]

\* A section has no value; the section before any is "".
Values == Seq(Words) \cup {NULL}
Sections == {""} \cup ({line.name : line \in {l \in Lines : l.kind = "section"}} \ {NULL})

ASSUME IniParserAssumption ==
  /\ Lines \subseteq LineType
  /\ \A line \in Lines :
       /\ line.more => line.kind \in {"value", "skip"}
       /\ line.value # <<>> /\ Last(line.value) = BACKSLASH => line.more
       /\ line.kind = "section" => line.name = NULL \/ <<line.name>> \in Keys
       /\ line.kind = "value" => \A s \in Sections : <<s, line.name>> \in Keys
  /\ UserKeys \subseteq Keys /\ UserValues \subseteq Values
  /\ MaxLines \in Nat /\ MaxCount \in Nat
  /\ Marks \subseteq Words /\ Quotes \subseteq Words /\ {BACKSLASH, NameWord, NullWord} \subseteq Words
  /\ NULL \notin LineType /\ NULL \notin [Keys -> Values \cup {MISSING}]

\* A key names a section, or a section and one of its entries; INI_INVALID_KEY
\* is the pointer -1 and no value.
ASSUME KeysAssumption ==
  /\ \A k \in Keys : k[1] # NULL /\ (k = <<k[1]>> \/ k = <<k[1], k[2]>>)
  /\ MISSING \notin Values

VARIABLES
  dict,          \* what the program's pointer points to: a dictionary, NoDict or Gone
  pc,            \* "idle", in "load" or "reload", or "dead": the process crashed
  section, last, errs,   \* locals of the two loops: last is the line to go on with
  file,          \* the lines read by the last load or reload
  ret,           \* the result of the last call
  asFile,        \* history: nothing was set or removed since
  reloaded       \* history: this dictionary was reloaded

locals == <<section, last, errs>>
vars == <<dict, pc, locals, file, ret, asFile, reloaded>>

\* A null pointer; and memory that was freed, or a dictionary that lost an array.
NoDict == [n |-> 0, size |-> 0, key |-> <<>>, val |-> <<>>, hash |-> <<>>]
Gone == [NoDict EXCEPT !.n = 1]
Alive == dict # NoDict /\ dict # Gone

Init ==
  /\ dict = NoDict /\ pc = "idle" /\ section = "" /\ last = NULL /\ errs = 0
  /\ file = <<>> /\ ret = 0 /\ asFile = FALSE /\ reloaded = FALSE

------------------------------------------------------------------------------
\* The beginning of both functions, with the file open.
Begin(d) ==
  /\ dict' = d
  /\ section' = "" /\ last' = NULL /\ errs' = 0
  /\ file' = <<>> /\ asFile' = TRUE

Load ==
  /\ pc = "idle" /\ dict = NoDict
  /\ Begin(dictionary_new)
  /\ pc' = "load" /\ reloaded' = FALSE /\ UNCHANGED ret

Reload ==
  /\ pc = "idle" /\ Alive /\ dict.n <= MaxCount
  /\ Begin(dictionary_clear(dict))
  /\ pc' = "reload" /\ reloaded' = TRUE /\ UNCHANGED ret

\* fopen fails before anything is cleared.
ReloadNoFile ==
  /\ pc = "idle" /\ Alive
  /\ ret' = 2
  /\ UNCHANGED <<dict, pc, locals, file, asFile, reloaded>>

\* Both functions end; load gives NULL for a dictionary it deleted, reload
\* sets its own copy of the pointer to NULL and answers r.
Return(d, r) ==
  /\ dict' = IF pc = "load" /\ d = Gone THEN NoDict ELSE d
  /\ ret' = IF pc = "load" THEN 0 ELSE r
  /\ pc' = "idle" /\ section' = "" /\ last' = NULL /\ errs' = 0

Die ==
  /\ pc' = "dead" /\ dict' = Gone
  /\ UNCHANGED <<locals, file, ret, asFile, reloaded>>

\* A line that follows a '\' is the rest of the value, or of the comment.
Joined(line) ==
  IF last = NULL THEN line
  ELSE [last EXCEPT !.value = @ \o line.text, !.more = line.more]

\* The value that sscanf leaves of the text behind the "=": what is between two
\* quotes, or else all that comes before a mark; two quotes alone are nothing.
UpTo(v, S) ==
  LET at == {i \in 1 .. Len(v) : v[i] \in S}
  IN  SubSeq(v, 1, IF at = {} THEN Len(v) ELSE Min(at) - 1)
Quoted(v) == Len(v) > 1 /\ v[1] \in Quotes /\ v[2] # v[1]
Parsed(v) ==
  LET read == IF Quoted(v) THEN UpTo(Tail(v), {v[1]}) ELSE UpTo(v, Marks)
  IN  IF read # <<>> /\ read[1] \in Quotes /\ read = <<read[1], read[1]>> THEN <<>> ELSE read

\* Files in which "[]" comes before every other section are left out: their key
\* "" has the hash 0, which dictionary_clear gives to the keys it leaves behind.
Reads(line) ==
  /\ pc \in {"load", "reload"} /\ errs >= 0 /\ Len(file) < MaxLines
  /\ line.kind = "section" /\ line.name = NULL => section # ""
  /\ file' = Append(file, line)
  /\ UNCHANGED <<asFile, reloaded>>

LineTooLong(line) ==
  /\ line.kind = "long" /\ Reads(line)
  /\ Return(Gone, -3)

LineContinues(line) ==
  /\ line.kind # "long" /\ line.more /\ Reads(line)
  /\ last' = Joined(line)
  /\ UNCHANGED <<dict, pc, section, errs, ret>>

\* iniparser_line's answers for a line that is complete.
Complete(line, kind) ==
  /\ line.kind # "long" /\ ~line.more /\ Reads(line)
  /\ Joined(line).kind = kind
  /\ last' = NULL
  /\ UNCHANGED ret

LineSkipped(line) ==
  /\ Complete(line, "skip")
  /\ UNCHANGED <<dict, pc, section, errs>>

LineError(line) ==
  /\ Complete(line, "error")
  /\ errs' = errs + 1
  /\ UNCHANGED <<dict, pc, section>>

\* Bug: dictionary_set answers something else for a key that was there.
Bug_CountsOld(k, v) ==
  /\ dict' = dictionary_set(dict, k, v) /\ errs' = IF Found(dict, k) THEN 1 ELSE 0
  /\ UNCHANGED pc

\* errs is the result of dictionary_set; errors counted before are forgotten.
Stored(k, v) ==
  /\ dict' = dictionary_set(dict, k, v) /\ errs' = 0
  /\ UNCHANGED pc

SectionOf(line) == IF line.name = NULL THEN section ELSE line.name

LineSection(line) ==
  /\ Complete(line, "section")
  /\ section' = SectionOf(line)
  /\ Stored(<<SectionOf(line)>>, NULL)

LineValue(line) ==
  /\ Complete(line, "value")
  /\ Stored(<<section, Joined(line).name>>, Parsed(Joined(line).value))
  /\ UNCHANGED section

\* The dictionary cannot grow: the loop ends, and dictionary_del walks key and
\* val, of which one is NULL, unless hash alone was not allocated.
LineNoMemory(line) ==
  /\ \/ Complete(line, "section") /\ MustGrow(dict, <<SectionOf(line)>>)
     \/ Complete(line, "value") /\ MustGrow(dict, <<section, Joined(line).name>>)
  /\ \/ pc' = "dead" /\ dict' = Gone /\ UNCHANGED <<section, errs>>
     \/ dict' = Gone /\ errs' = -1 /\ UNCHANGED <<pc, section>>

\* The end of the file, or of the memory.  A line still to be continued is
\* dropped; the dictionary is deleted if the last set or error says so.
EndOfFile ==
  /\ pc \in {"load", "reload"}
  /\ Return(IF errs # 0 THEN Gone ELSE dict, 0)
  /\ UNCHANGED <<file, asFile, reloaded>>

------------------------------------------------------------------------------
\* The program's own changes.
iniparser_set(k, v) ==
  /\ pc = "idle" /\ Alive /\ (dict.n <= MaxCount \/ Found(dict, k))
  /\ dict' = dictionary_set(dict, k, v) /\ ret' = 0
  /\ asFile' = FALSE /\ file' = <<>>
  /\ UNCHANGED <<pc, locals, reloaded>>

\* dictionary_set answers -1 and leaves NULL in the place of an array.
SetNoMemory(k) ==
  /\ pc = "idle" /\ Alive /\ MustGrow(dict, k)
  /\ dict' = Gone /\ ret' = -1
  /\ UNCHANGED <<pc, locals, file, asFile, reloaded>>

iniparser_unset(k) ==
  /\ pc = "idle" /\ Alive
  /\ dict' = dictionary_unset(dict, k)
  /\ asFile' = FALSE /\ file' = <<>>
  /\ UNCHANGED <<pc, locals, ret, reloaded>>

iniparser_getstring(k, def) == dictionary_get(dict, k, def)
iniparser_find_entry(k) == iniparser_getstring(k, MISSING) # MISSING

\* getint, getdouble and getboolean follow the NULL that a section has for value.
GetNumber(k) ==
  /\ pc = "idle" /\ Alive /\ iniparser_getstring(k, MISSING) = NULL
  /\ Die

\* Any call with a pointer to what is gone.
UseGone == pc = "idle" /\ dict = Gone /\ Die

iniparser_freedict ==
  /\ pc = "idle" /\ Alive
  /\ dict' = NoDict
  /\ UNCHANGED <<pc, locals, file, ret, asFile, reloaded>>

\* The program is started again.
Restart ==
  /\ pc = "dead"
  /\ dict' = NoDict /\ pc' = "idle" /\ section' = "" /\ last' = NULL /\ errs' = 0
  /\ file' = <<>> /\ ret' = 0 /\ asFile' = FALSE /\ reloaded' = FALSE

Next ==
  \/ Load \/ Reload \/ ReloadNoFile
  \/ \E line \in Lines :
       \/ LineTooLong(line) \/ LineContinues(line) \/ LineSkipped(line)
       \/ LineError(line) \/ LineSection(line) \/ LineValue(line) \/ LineNoMemory(line)
  \/ EndOfFile
  \/ \E k \in UserKeys :
       \/ \E v \in UserValues : iniparser_set(k, v)
       \/ SetNoMemory(k) \/ iniparser_unset(k)
  \/ \E k \in Keys : GetNumber(k)
  \/ UseGone \/ iniparser_freedict \/ Restart

Spec == Init /\ [][Next]_vars

------------------------------------------------------------------------------
\* The sections and their keys, as the program lists them.
IsSection(k) == k # NULL /\ Len(k) = 1
\* The n-th of the numbers in S is the one with n - 1 below it.
InOrder(S) ==
  [n \in 1 .. Cardinality(S) |-> CHOOSE i \in S : Cardinality({j \in S : j < i}) = n - 1]

SectionSlots == InOrder({i \in Slots(dict) : IsSection(dict.key[i])})
iniparser_getnsec == Len(SectionSlots)

Bug_OffByOne(n) == IF n = 0 THEN dict.key[SectionSlots[1]] ELSE dict.key[SectionSlots[n]]
iniparser_getsecname(n) == dict.key[SectionSlots[n + 1]]

KeySlots(s) ==
  InOrder({i \in Slots(dict) : dict.key[i] # NULL /\ Len(dict.key[i]) = 2
                                                  /\ dict.key[i][1] = s[1]})
iniparser_getseckeys(s) ==
  IF ~iniparser_find_entry(s) THEN <<>>
  ELSE [j \in 1 .. Len(KeySlots(s)) |-> dict.key[KeySlots(s)[j]]]
iniparser_getsecnkeys(s) == Len(iniparser_getseckeys(s))

\* The lines iniparser_dump_ini writes.  A value is printed as it is: without
\* quotes, and one that ends in '\' makes the next line a part of it.
Blank == [kind |-> "skip", name |-> NULL, value |-> <<>>, text |-> <<>>, more |-> FALSE]
SectionLine(s) == [Blank EXCEPT !.kind = "section", !.name = s]

EndsOpen(v) == v # <<>> /\ Last(v) = BACKSLASH
ValueLine(x, v) ==
  LET words == IF EndsOpen(v) THEN Front(v) ELSE v
  IN  [kind |-> "value", name |-> x, value |-> words, text |-> <<NameWord>> \o words,
       more |-> EndsOpen(v)]

iniparser_dumpsection_ini(s) ==
  IF ~iniparser_find_entry(s) THEN <<>>
  ELSE <<Blank, SectionLine(s[1])>> \o
       [j \in 1 .. Len(KeySlots(s)) |->
          LET i == KeySlots(s)[j]
          IN  ValueLine(dict.key[i][2], IF dict.val[i] = NULL THEN <<>> ELSE dict.val[i])] \o
       <<Blank>>

\* Without a section NULL is handed to "%s", for which the C library prints a word.
iniparser_dump_ini ==
  IF iniparser_getnsec < 1
  THEN LET used == InOrder({i \in Slots(dict) : dict.key[i] # NULL})
       IN  [j \in 1 .. Len(used) |->
              ValueLine(dict.key[used[j]],
                        IF dict.val[used[j]] = NULL THEN <<NullWord>> ELSE dict.val[used[j]])]
  ELSE FlattenSeq([j \in 1 .. iniparser_getnsec |->
                     iniparser_dumpsection_ini(iniparser_getsecname(j - 1))]) \o <<Blank>>

------------------------------------------------------------------------------
\* The map a file describes: the last line for a key decides, under the last
\* section named before it.  A line ends where the next does not continue it.
Starts(f) == {i \in 1 .. Len(f) : i = 1 \/ ~f[i - 1].more}
EndsAt(f, i) == Min({j \in i .. Len(f) : ~f[j].more})
Assigning(f) ==
  {i \in Starts(f) : f[i].kind \in {"section", "value"} /\ \E j \in i .. Len(f) : ~f[j].more}
SectionAt(f, i) ==
  LET named == {j \in Assigning(f) : j <= i /\ f[j].kind = "section" /\ f[j].name # NULL}
  IN  IF named = {} THEN "" ELSE f[Max(named)].name
KeyAt(f, i) ==
  IF f[i].kind = "section" THEN <<SectionAt(f, i)>> ELSE <<SectionAt(f, i), f[i].name>>
ValueAt(f, i) ==
  IF f[i].kind = "section" THEN NULL
  ELSE Parsed(f[i].value \o FlattenSeq([j \in 1 .. EndsAt(f, i) - i |-> f[i + j].text]))

Meaning(f) ==
  [k \in Keys |-> LET at == {i \in Assigning(f) : KeyAt(f, i) = k}
                  IN  IF at = {} THEN MISSING ELSE ValueAt(f, Max(at))]

\* The dictionary and the locals have their types.
TypeOK ==
  /\ dict.n \in Nat /\ dict.size \in Nat
  /\ dict.key \in [Slots(dict) -> Keys \cup {NULL}]
  /\ dict.val \in [Slots(dict) -> Values]
  /\ dict.hash \in [Slots(dict) -> Nat]
  /\ pc \in {"idle", "load", "reload", "dead"} /\ errs \in {-1} \cup (0 .. MaxLines)
  /\ ret \in {0, 2, -1, -3} /\ asFile \in BOOLEAN /\ reloaded \in BOOLEAN

\* "Because d->n < d->size this will necessarily terminate": a key left over by
\* a reload is counted too, so the probe for an empty slot finds one.
ProbeEnds ==
  Alive => LET used == {i \in Slots(dict) : dict.key[i] # NULL}
           IN  Cardinality(used) <= dict.n /\ dict.n <= dict.size

\* Whatever was loaded, set, removed and reloaded before: the lookups are those
\* of a map.  A reload starts with an empty one although keys of the old file
\* stay behind; each line of a file and each call changes the entry it names to
\* the value it gives, and no other; nothing else changes the map but its loss.
Store == INSTANCE ConfigStore WITH
  map <- IF Alive THEN View(dict, MISSING) ELSE NULL, LOST <- NULL

Changes ==
  \/ Load \/ Reload
  \/ \E k \in UserKeys : iniparser_unset(k) \/ \E v \in UserValues : iniparser_set(k, v)
  \/ \E line \in Lines : LineSection(line) \/ LineValue(line)

AsTold ==
  /\ Load \/ Reload => Store!Open
  /\ \A k \in UserKeys :
       /\ iniparser_unset(k) => Store!Remove(k)
       /\ \A v \in UserValues : iniparser_set(k, v) => Store!Put(k, v)
  /\ \A line \in Lines :
       /\ LineSection(line) => Store!Put(<<SectionOf(line)>>, NULL)
       /\ LineValue(line) =>
            Store!Put(<<section, Joined(line).name>>, Parsed(Joined(line).value))
  /\ ~Changes => dict' = dict \/ Store!Lose

ImplementsStore == Store!StoreSpec /\ [][AsTold]_vars

\* After a load or a reload that was not refused the lookups answer what the
\* file says, lines with errors left out and an open continuation dropped.
LoadedMeansFile == pc = "idle" /\ Alive /\ asFile => View(dict, MISSING) = Meaning(file)

\* A file read to its end; one in which a line is wrong that is no continuation;
\* one that was refused.
ReadToEnd == pc' = "idle" /\ pc \in {"load", "reload"} /\ errs >= 0 /\ file' = file
HasError(f) == \E i \in Starts(f) : f[i].kind = "error"
Refused == dict' \in {NoDict, Gone}

\* A file is refused for an error in it only: whatever its lines set, set again
\* or continue, also when a wrong line is taken for the rest of a value.
GoodFileLoads == [][ReadToEnd /\ Refused => HasError(file)]_vars

\* The sections a program lists are those it can look up, each once, and so
\* are the keys of each; after a reload some are listed again.
SectionsListed ==
  pc = "idle" /\ Alive =>
    LET names == [j \in 1 .. iniparser_getnsec |-> iniparser_getsecname(j - 1)]
        here == {k \in Keys : iniparser_find_entry(k)}
        sections == {k \in here : Len(k) = 1}
    IN  /\ sections \subseteq Range(names)
        /\ \A s \in sections :
             {k \in here : Len(k) = 2 /\ k[1] = s[1]} \subseteq Range(iniparser_getseckeys(s))
        /\ ~reloaded => /\ Range(names) = sections /\ IsInjective(names)
                        /\ \A s \in sections :
                             /\ IsInjective(iniparser_getseckeys(s))
                             /\ Range(iniparser_getseckeys(s)) \subseteq here

\* A dictionary that was not reloaded, and whose keys all have their section,
\* which has no value of its own; and the map that its saved file describes,
\* where a key without a value gets an empty one.
Sectioned ==
  /\ pc = "idle" /\ Alive /\ ~reloaded
  /\ \A k \in Keys : iniparser_find_entry(k) =>
       <<k[1]>> \in Keys /\ iniparser_getstring(<<k[1]>>, MISSING) = NULL

ComesBack(k) ==
  Meaning(iniparser_dump_ini)[k] =
    IF Len(k) = 2 /\ iniparser_getstring(k, MISSING) = NULL THEN <<>>
    ELSE iniparser_getstring(k, MISSING)

\* What iniparser_dump_ini saves is loaded again as it was, wherever in the
\* table the sections and their keys are, if no value holds a mark, begins with
\* a quote or ends in '\'.
PlainValue(v) ==
  v = NULL \/ /\ \A i \in 1 .. Len(v) : v[i] \notin Marks
              /\ v # <<>> => v[1] \notin Quotes /\ Last(v) # BACKSLASH

SavedComesBack ==
  Sectioned /\ (\A k \in Keys : iniparser_find_entry(k) => PlainValue(iniparser_getstring(k, MISSING)))
    => \A k \in Keys : ComesBack(k)
=============================================================================
