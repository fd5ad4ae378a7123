----------------------------- MODULE ConfigFile -----------------------------
(***************************************************************************)
(* The settings a player changes in the menu: persistConfigFileSetting     *)
(* rewrites the lines of one setting and renames the result over the       *)
(* configuration file, the next start parses it (config_file.cpp).  A      *)
(* value is a sequence of characters, because what is checked is that      *)
(* encodeValue and parseValue undo each other; the rest of a line is its   *)
(* key and whether it has a separator.                                     *)
(***************************************************************************)
EXTENDS Integers, Sequences

LOCAL INSTANCE SequencesExt
LOCAL INSTANCE FiniteSetsExt

CONSTANTS Settings,   \* names of settings
          NoSetting,  \* what stands on a comment line
          Values,     \* what a player may enter or choose
          FirstFiles, \* files as a distribution or a player wrote them
          MaxSaves    \* bound: settings changed

ASSUME ConfigAssumption ==
  /\ NoSetting \notin Settings /\ MaxSaves \in Nat
  /\ \A f \in FirstFiles : \A i \in DOMAIN f :
       f[i].key \in Settings \cup {NoSetting}

VARIABLES
  cfgFile,   \* activeConfigFile: lines [key, bom, sep, text]
  cfgMap,    \* conf_map
  cfgPc,     \* "out", or in a save: "write", "rename"
  cfgTemp,   \* the lines of the .tmp file
  cfgChange, \* the setting being saved and its value
  cfgSaves   \* bound

cfgVars == <<cfgFile, cfgMap, cfgPc, cfgTemp, cfgChange, cfgSaves>>

-----------------------------------------------------------------------------
(* The characters that are special, and the parser.                        *)

Blank == {" ", "\t", "\n", "\r"}
Marker == {"#", ";"}
Quote == {"\"", "'"}
Escape == "\\"

trimCopy(s) ==
  LET solid == {i \in DOMAIN s : s[i] \notin Blank}
  IN IF solid = {} THEN << >> ELSE SubSeq(s, Min(solid), Max(solid))

\* What a character after a backslash stands for.
Unescaped(c) ==
  CASE c = "n" -> <<"\n">> [] c = "r" -> <<"\r">> [] c = "t" -> <<"\t">>
    [] c \in Quote \cup {Escape} -> <<c>> [] OTHER -> <<Escape, c>>

\* decodeQuotedValue, character by character after the quote: what has been
\* decoded, and what follows the closing quote.
QuotedStep(quote, scan, c) ==
  CASE scan.closed -> [scan EXCEPT !.rest = Append(@, c)]
    [] ~scan.closed /\ scan.escaped ->
         [scan EXCEPT !.value = @ \o Unescaped(c), !.escaped = FALSE]
    [] ~scan.closed /\ ~scan.escaped /\ c = Escape ->
         [scan EXCEPT !.escaped = TRUE]
    [] ~scan.closed /\ ~scan.escaped /\ c = quote ->
         [scan EXCEPT !.closed = TRUE]
    [] OTHER -> [scan EXCEPT !.value = Append(@, c)]

\* A value, or none: the entry is then reported and ignored.
decodeQuotedValue(entry) ==
  LET end == FoldLeft(LAMBDA scan, c : QuotedStep(Head(entry), scan, c),
                      [value |-> << >>, escaped |-> FALSE, closed |-> FALSE,
                       rest |-> << >>], Tail(entry))
      remainder == trimCopy(end.rest)
  IN IF end.closed /\ (remainder = << >> \/ Head(remainder) \in Marker)
     THEN {end.value} ELSE {}

\* findInlineComment: quote is the quotation the search is in, cut where the
\* comment begins.
CommentStep(scan, c) ==
  LET after == [scan EXCEPT !.at = @ + 1, !.before = {c}] IN
  CASE scan.cut > 0 -> after
    [] scan.cut = 0 /\ scan.escaped -> [after EXCEPT !.escaped = FALSE]
    [] scan.cut = 0 /\ ~scan.escaped /\ scan.quote # {} ->
         [after EXCEPT !.escaped = (c = Escape),
                      !.quote = IF {c} = @ THEN {} ELSE @]
    [] scan.cut = 0 /\ scan.quote = {} /\ c \in Quote ->
         [after EXCEPT !.quote = {c}]
    [] scan.cut = 0 /\ scan.quote = {} /\ c \in Marker ->
         IF scan.before \subseteq Blank
         THEN [after EXCEPT !.cut = after.at] ELSE after
    [] OTHER -> after

findInlineComment(entry) ==
  LET end == FoldLeft(CommentStep, [at |-> 0, cut |-> 0, escaped |-> FALSE,
                                    quote |-> {}, before |-> {}], entry)
  IN IF end.cut = 0 THEN Len(entry) + 1 ELSE end.cut

parseValue(raw) ==
  LET entry == trimCopy(raw) IN
  IF entry # << >> /\ Head(entry) \in Quote THEN decodeQuotedValue(entry)
  ELSE {trimCopy(SubSeq(entry, 1, findInlineComment(entry) - 1))}

\* parse: of the valid entries of a setting the last one counts, and a
\* setting without one is not in the map.
Entries(lines, k) ==
  {i \in DOMAIN lines : /\ lines[i].key = k /\ lines[i].sep
                        /\ parseValue(lines[i].text) # {}}
parse(lines) ==
  [k \in Settings |-> LET valid == Entries(lines, k) IN
     IF valid = {} THEN {} ELSE parseValue(lines[Max(valid)].text)]

-----------------------------------------------------------------------------
(* Writing a value back.                                                   *)

\* Mutant: a comment is looked for at the front only.
FrontOnly(v) ==
  \/ v[1] \in Blank \cup Marker \/ v[Len(v)] \in Blank
  \/ \E i \in DOMAIN v : v[i] \in {"\n", "\r", "\t", "\"", Escape}
RequiresQuotes(v) ==
  \/ FrontOnly(v)
  \/ \E i \in 2..Len(v) : v[i] \in Marker /\ v[i - 1] \in Blank

Escaped(c) ==
  CASE c = "\n" -> <<Escape, "n">> [] c = "\r" -> <<Escape, "r">>
    [] c = "\t" -> <<Escape, "t">> [] c \in {"\"", Escape} -> <<Escape, c>>
    [] OTHER -> <<c>>

encodeValue(v) ==
  IF v = << >> \/ ~RequiresQuotes(v) THEN v
  ELSE <<"\"">> \o FlattenSeq([i \in DOMAIN v |-> Escaped(v[i])]) \o <<"\"">>

\* Every line of the setting is replaced, also one without a separator; a
\* byte order mark hides the key of the first line from this search, which
\* parse removes.
Line(k, v) == [key |-> k, bom |-> FALSE, sep |-> TRUE, text |-> encodeValue(v)]
Rewritten(lines, k, v) ==
  LET own == {i \in DOMAIN lines : lines[i].key = k /\ ~lines[i].bom}
      new == [i \in DOMAIN lines |-> IF i \in own THEN Line(k, v)
                                     ELSE lines[i]]
  IN IF own = {} THEN Append(lines, Line(k, v)) ELSE new

-----------------------------------------------------------------------------
(* persistConfigFileSetting and the start of the program.                  *)

CfgInit ==
  /\ cfgFile \in FirstFiles /\ cfgMap = parse(cfgFile) /\ cfgPc = "out"
  /\ cfgTemp = << >> /\ cfgChange = << >> /\ cfgSaves = 0

\* The file is read as it is now and the temporary one opened.
SaveSetting ==
  /\ cfgPc = "out" /\ cfgSaves < MaxSaves /\ cfgSaves' = cfgSaves + 1
  /\ \E k \in Settings, v \in Values : cfgChange' = <<k, v>>
  /\ cfgTemp' = << >> /\ cfgPc' = "write" /\ UNCHANGED <<cfgFile, cfgMap>>

WriteLines ==
  /\ cfgPc = "write" /\ cfgPc' = "rename"
  /\ cfgTemp' = Rewritten(cfgFile, cfgChange[1], cfgChange[2])
  /\ UNCHANGED <<cfgFile, cfgMap, cfgChange, cfgSaves>>

RenameFile ==
  /\ cfgPc = "rename" /\ cfgPc' = "out"
  /\ cfgFile' = cfgTemp /\ cfgTemp' = << >>
  /\ cfgMap' = [cfgMap EXCEPT ![cfgChange[1]] = {cfgChange[2]}]
  /\ cfgChange' = << >> /\ UNCHANGED cfgSaves

\* Opening, writing, closing or renaming fails: the menu says so.
SaveFails ==
  /\ cfgPc # "out" /\ cfgPc' = "out" /\ cfgTemp' = << >> /\ cfgChange' = << >>
  /\ UNCHANGED <<cfgFile, cfgMap, cfgSaves>>

\* The program ends, or is killed during a save, and starts again: what is
\* left of a temporary file is never read, and truncated by the next save.
RestartProgram ==
  /\ cfgMap' = parse(cfgFile) /\ cfgPc' = "out" /\ cfgChange' = << >>
  /\ UNCHANGED <<cfgFile, cfgTemp, cfgSaves>>

CfgNext == SaveSetting \/ WriteLines \/ RenameFile \/ SaveFails
           \/ RestartProgram
CfgSpec == CfgInit /\ [][CfgNext]_cfgVars

-----------------------------------------------------------------------------
(* Properties.                                                             *)

\* config_file.h says of encodeValue: "Return a value that can be written back
\* without changing its meaning when parsed again."  Whatever was in the
\* file and whatever was saved or failed to be, the next start reads every
\* setting as this session has it.  Except a value that starts with a single
\* quote, which encodeValue leaves as it is and parseValue takes for a
\* quotation.
SettingsSurvive ==
  \A k \in Settings :
    \/ parse(cfgFile)[k] = cfgMap[k]
    \/ \E v \in cfgMap[k] : v # << >> /\ v[1] = "'"
=============================================================================
