---------------------------- MODULE ConfigReader ----------------------------
(***************************************************************************)
(* The configuration file of a system process, from its lines to the       *)
(* arguments of posix_spawn.  A line is the text before its first '=' and  *)
(* the text after it, both Empty when there is none.  Any line that begins *)
(* with '#' is a comment, whatever follows: its key is written Comment.    *)
(***************************************************************************)
EXTENDS Naturals, Sequences, SequencesExt, Selection

CONSTANTS
    ConfigFiles,   \* the files -c can name: whether they may and can be read, and their lines
    Files,         \* the process_file values that are regular files
    Programs       \* those of them that posix_spawn can execute

ASSUME ConfigAssumption ==
    \A f \in DOMAIN ConfigFiles :
        ConfigFiles[f].lines \in Seq([key : STRING, value : STRING])

Empty == ""
Comment == "#"

\* An empty line and one that begins with '#' are skipped, one without key=value stores nothing.
Stores(line) == line.key # Comment /\ line.value # Empty

\* Mutant: an entry that is there already is kept, as insert() would.
ConfigMapFirst(lines) ==
    LET Kept == {i \in DOMAIN lines : Stores(lines[i])}
        Earliest(k) == CHOOSE i \in Kept :
                        lines[i].key = k /\ \A j \in Kept : lines[j].key = k => i <= j
    IN  [k \in {lines[i].key : i \in Kept} |-> lines[Earliest(k)].value]

ConfigMap(lines) ==
    LET Kept == {i \in DOMAIN lines : Stores(lines[i])}
        Latest(k) == CHOOSE i \in Kept :
                       lines[i].key = k /\ \A j \in Kept : lines[j].key = k => j <= i
    IN  [k \in {lines[i].key : i \in Kept} |-> lines[Latest(k)].value]

\* An element of the vectors of strings: a word of the file, or a key behind a dash.
Word(text) == [dash |-> FALSE, text |-> text]
Flag(key) == [dash |-> TRUE, text |-> key]

(***************************************************************************)
(* consecutiveParameters_ starts with resize(2 n) empty strings, for all n *)
(* entries, and goes on with a flag and a value for each entry but         *)
(* process_file.  order is that of the unordered_map: any.                 *)
(***************************************************************************)
ConsecutiveParameters(map, order) ==
    LET Listed == Pick(order, {i \in DOMAIN order : order[i] # "process_file"})
    IN  [i \in 1..(2 * Len(order)) |-> Word(Empty)]
        \o [i \in 1..(2 * Len(Listed)) |->
               LET k == Listed[(i + 1) \div 2]
               IN  IF i % 2 = 1 THEN Flag(k) ELSE Word(map[k])]

Orders(map) == SetToSeqs(DOMAIN map)

HasFile(map) == "process_file" \in DOMAIN map /\ map["process_file"] \in Files

\* Arguments::populate: without a process_file the error is logged and args stays empty.
Populate(map, order) ==
    IF HasFile(map)
    THEN <<Word(map["process_file"])>> \o ConsecutiveParameters(map, order)
    ELSE <<>>

\* Mutant: the empty strings stay.
CStyleArgsKeepEmpty(args) == args

CStyleArgs(args) == Pick(args, {i \in DOMAIN args : args[i] # Word(Empty)})

\* posix_spawn gets a file that it can execute.
Spawns(map) == HasFile(map) /\ map["process_file"] \in Programs
=============================================================================
