-------------------------------- MODULE Dbc ----------------------------------
(***************************************************************************)
(* The DBC parser, one line at a time: av::can::DbcDatabase::parse().      *)
(*                                                                         *)
(* A line is what its tokens say: its keyword, the number and the name it  *)
(* refers to, and whether what follows has the form it must have ("good"). *)
(* Numbers have a few bits only: IdBits of a standard identifier, more of  *)
(* an extended one, perhaps unused ones, and the flag on top.              *)
(***************************************************************************)
EXTENDS Integers, Sequences, SequencesExt

CONSTANTS
    StandardMask,       \* largest standard identifier (0x7FF)
    ExtendedMask,       \* largest extended one (0x1FFFFFFF)
    ExtendedFlag,       \* bit 31
    MaxPayload,         \* 64
    Lines,              \* lines a file may consist of
    MaxLines,
    Missing             \* no comment

VARIABLES
    file,               \* the lines read so far
    messages,           \* messages_, in the order of the file
    parsing             \* "reading", "loaded" or "refused"

dbc == <<file, messages, parsing>>

DbcInit == file = <<>> /\ messages = <<>> /\ parsing = "reading"

\* The identifier a number of the file stands for.
IsExtended(raw) == raw >= ExtendedFlag
Identifier(raw) == IF IsExtended(raw) THEN raw % (ExtendedMask + 1) ELSE raw

\* Mutated form: the identifier alone decides.
NamesById(message, raw) == message.id = Identifier(raw)

Names(message, raw) == message.id = Identifier(raw) /\ message.extended = IsExtended(raw)

\* read_quoted(): a literal that ends with the line and not with a quote is
\* read as well, as far as it goes, unless it is empty.
Quoted(line) == line.quote \in {"closed", "cut"}
Text(line) == <<line.text, line.quote>>

DbcAssumption ==
    /\ StandardMask \in Nat /\ ExtendedMask \in Nat /\ ExtendedFlag \in Nat
    /\ \A line \in Lines : line.raw \in Nat /\ Text(line) # Missing

\* parse_message()
MessageParses(line) ==
    /\ line.good
    /\ line.length <= MaxPayload
    /\ IsExtended(line.raw) \/ line.raw <= StandardMask

ReadMessage(line) ==
    /\ line.keyword = "BO_"
    /\ IF MessageParses(line)
       THEN /\ messages' = Append(messages,
                 [id |-> Identifier(line.raw), extended |-> IsExtended(line.raw),
                  length |-> line.length, comment |-> Missing, signals |-> <<>>])
            /\ UNCHANGED parsing
       ELSE parsing' = "refused" /\ UNCHANGED messages

\* parse_signal(): a multiplexed signal is refused like a malformed one.
SignalParses(line) == line.good /\ Quoted(line)

ReadSignal(line) ==
    /\ line.keyword = "SG_"
    /\ IF messages # <<>> /\ SignalParses(line)
       THEN /\ messages' = [messages EXCEPT ![Len(messages)].signals =
                 Append(@, [name |-> line.name, comment |-> Missing, values |-> <<>>])]
            /\ UNCHANGED parsing
       ELSE parsing' = "refused" /\ UNCHANGED messages

\* The first message a number refers to and its first signal of a name, or 0.
MessageOf(raw) == SelectInSeq(messages, LAMBDA m : Names(m, raw))
SignalOf(raw, name) ==
    IF MessageOf(raw) = 0 THEN 0
    ELSE SelectInSeq(messages[MessageOf(raw)].signals, LAMBDA s : s.name = name)

\* apply_comment(): of a message that was not declared yet, or that other
\* tools know, nothing is kept.
ReadComment(line) ==
    LET m == MessageOf(line.raw)
        s == SignalOf(line.raw, line.name)
    IN /\ line.keyword = "CM_"
       /\ messages' =
            IF ~line.good \/ ~Quoted(line) \/ m = 0 THEN messages
            ELSE IF line.target = "BO_" THEN [messages EXCEPT ![m].comment = Text(line)]
            ELSE IF line.target = "SG_" /\ s # 0
            THEN [messages EXCEPT ![m].signals[s].comment = Text(line)]
            ELSE messages
       /\ UNCHANGED parsing

\* table.emplace() keeps the first label of a value.
Table(line) ==
    LET labels == line.labels IN
    [v \in {labels[i][1] : i \in DOMAIN labels} |->
        labels[SelectInSeq(labels, LAMBDA l : l[1] = v)][2]]

\* apply_values(): the table replaces the one of an earlier line.
ReadValues(line) ==
    LET m == MessageOf(line.raw)
        s == SignalOf(line.raw, line.name)
    IN /\ line.keyword = "VAL_"
       /\ messages' = IF line.good /\ line.labels # <<>> /\ s # 0
                      THEN [messages EXCEPT ![m].signals[s].values = Table(line)]
                      ELSE messages
       /\ UNCHANGED parsing

\* VERSION, empty lines and everything the program has no use for.
SkipLine(line) == line.keyword = "other" /\ UNCHANGED <<messages, parsing>>

ReadLine(line) ==
    /\ parsing = "reading"
    /\ Len(file) < MaxLines
    /\ file' = Append(file, line)
    /\ \/ ReadMessage(line) \/ ReadSignal(line) \/ ReadComment(line)
       \/ ReadValues(line) \/ SkipLine(line)

EndOfFile ==
    /\ parsing = "reading"
    /\ parsing' = IF messages = <<>> THEN "refused" ELSE "loaded"
    /\ UNCHANGED <<file, messages>>

DbcNext == (\E line \in Lines : ReadLine(line)) \/ EndOfFile

DbcSpec == DbcInit /\ [][DbcNext]_dbc

-----------------------------------------------------------------------------
(***************************************************************************)
(* Properties                                                              *)
(***************************************************************************)
KindOf(kinds) == {i \in DOMAIN file : file[i].keyword \in kinds}
LastBefore(kind, i) == {j \in KindOf({kind}) : j < i /\ \A k \in KindOf({kind}) : k < i => k <= j}

\* The n-th line of a kind.
NthLine(kind, n) ==
    CHOOSE i \in KindOf({kind}) : Cardinality({j \in KindOf({kind}) : j <= i}) = n

\* The line a message is declared in, and those of its signals.
Declared(m) == NthLine("BO_", m)
SignalLines(m) == {i \in KindOf({"SG_"}) : LastBefore("BO_", i) = {Declared(m)}}

\* A message is what its line says, and has the signals below it.
IsWhole(m) ==
    /\ Identifier(file[Declared(m)].raw) = messages[m].id
    /\ messages[m].extended => messages[m].id <= ExtendedMask
    /\ ~messages[m].extended => messages[m].id <= StandardMask
    /\ Len(messages[m].signals) = Cardinality(SignalLines(m))
    /\ \A i \in SignalLines(m) :
          messages[m].signals[Cardinality({j \in SignalLines(m) : j <= i})].name = file[i].name

\* A database has all messages and signals of its file, in the order of the
\* file and each signal below its message, or there is no database
\* (dbc.hpp:108-110, dbc.cpp:94-95: the file is rejected, not loaded half).
AllOrNothing ==
    parsing = "loaded" =>
    /\ messages # <<>>
    /\ Len(messages) = Cardinality(KindOf({"BO_"}))
    /\ \A m \in DOMAIN messages : IsWhole(m)

\* The lines that mean to comment on a message, and those among them that end
\* with a quote. Whether the others are comments is another question, below.
RemarkLines(m) ==
    {i \in KindOf({"CM_"}) :
       /\ i > Declared(m) /\ file[i].good /\ file[i].target = "BO_"
       /\ file[i].quote \in {"closed", "cut"} /\ Names(messages[m], file[i].raw)}
CommentLines(m) == {i \in RemarkLines(m) : file[i].quote = "closed"}

\* A comment is from a line that means the message, and from none before the
\* last whole one; that one is not overlooked, unless an earlier message has
\* the name.
IsAttached(m) ==
    /\ messages[m].comment # Missing =>
         \E i \in RemarkLines(m) : /\ Text(file[i]) = messages[m].comment
                                   /\ \A j \in CommentLines(m) : j <= i
    /\ CommentLines(m) # {} /\ messages[m].comment = Missing =>
         \E k \in 1 .. m - 1 : /\ messages[k].id = messages[m].id
                               /\ messages[k].extended = messages[m].extended

\* A remark reaches the message it names and no other (dbc.cpp, apply_comment()).
RemarksAttach == \A m \in DOMAIN messages : IsAttached(m)

\* What dbc.cpp:178-179 says: a comment whose closing quote is on a later line
\* is skipped. Violated: std::getline() fails only if there is nothing to read.
CutCommentsAreSkipped ==
    \A m \in DOMAIN messages :
       /\ messages[m].comment # Missing => messages[m].comment[2] = "closed"
       /\ \A s \in DOMAIN messages[m].signals :
             messages[m].signals[s].comment # Missing =>
                messages[m].signals[s].comment[2] = "closed"
=============================================================================
