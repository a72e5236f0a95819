----------------------------- MODULE JsonParser -----------------------------
(***************************************************************************)
(* ArduinoJson.  The way out: values, and the text that printTo and        *)
(* prettyPrintTo make of them.  A character is a string of its own; a run  *)
(* of digits or letters whose spelling matters to nobody is one character, *)
(* too: "1", "true".  Floats, whose digits are rounded, are left out.      *)
(*                                                                         *)
(* The way in: JsonParser takes a text apart in place.  The strings of the *)
(* result are pieces of the text itself, unescaped and moved towards its   *)
(* start, so the parser writes where it has read.                          *)
(*                                                                         *)
(* A sketch has a document, may remove an item, prints it into a buffer    *)
(* that may be too short, plain or indented; the text may be damaged; and  *)
(* it is parsed into a JsonBuffer of limited size.  A step of the parser   *)
(* is a value, a key, or what must follow it.                              *)
(***************************************************************************)
EXTENDS SequencesExt, FiniteSets

CONSTANTS
  MaxLevel,      \* IndentedPrint::MAX_LEVEL
  TabSize,       \* tabSize
  Documents,     \* the values a sketch prints
  Damages,       \* what a character may become
  BufferSizes,   \* char buffers it prints into
  Capacities,    \* CAPACITY of its StaticJsonBuffer, in nodes
  NestingLimits  \* nestingLimit

QUOTE == "\""
BACKSLASH == "\\"
NUL == "NUL"

-----------------------------------------------------------------------------
(* Values *)

String(text) == [type |-> "string", text |-> text]
Unparsed(text) == [type |-> "unparsed", text |-> text]
Integer(text) == [type |-> "integer", text |-> text]
Boolean(text) == [type |-> "boolean", text |-> text]
Null == [type |-> "null", text |-> <<"null">>]
Array(items) == [type |-> "array", items |-> items]
Object(items) == [type |-> "object", items |-> items]
Pair(key, value) == [key |-> key, value |-> value]

IsContainer(v) == v.type \in {"array", "object"}

Digits == {"1", "2"}

\* is<long>: strtol takes the whole text, an empty one too.
IsLong(v) == v.type = "integer" \/ (v.type = "unparsed" /\ \A k \in DOMAIN v.text : v.text[k] \in Digits)

\* is<bool>
IsBool(v) == v.type = "boolean" \/ (v.type = "unparsed" /\ v.text \in {<<"true">>, <<"false">>})

RECURSIVE Observed(_)
\* What a sketch sees of a value: is<>, toString, and the same of its items.
Observed(v) ==
  CASE v.type = "array" -> [is |-> "array", items |-> [k \in DOMAIN v.items |-> Observed(v.items[k])]]
    [] v.type = "object" ->
         [is |-> "object",
          items |-> [k \in DOMAIN v.items |-> Pair(v.items[k].key, Observed(v.items[k].value))]]
    [] OTHER -> [is |-> IF IsLong(v) THEN "long" ELSE IF IsBool(v) THEN "bool" ELSE "text",
                 text |-> v.text]

\* removeNode of getNodeAt: unlinks one node, if there is one.
RemoveNode(v, k) == IF k \in DOMAIN v.items THEN [v EXCEPT !.items = RemoveAt(@, k)] ELSE v

-----------------------------------------------------------------------------
(* JsonWriter *)

\* _escapeTable: the letter after the backslash, and what it stands for.
EscapeTable ==
  <<<<QUOTE, QUOTE>>, <<BACKSLASH, BACKSLASH>>, <<"b", "BS">>, <<"f", "FF">>, <<"n", "LF">>,
    <<"r", "CR">>, <<"t", "TAB">>>>

EscapeChar(c) == SelectSeq(EscapeTable, LAMBDA row : row[2] = c)

\* The first two rows stand for themselves.
UnescapeChar(c) ==
  LET rows == SelectSeq(SubSeq(EscapeTable, 3, Len(EscapeTable)), LAMBDA row : row[1] = c)
  IN IF rows = <<>> THEN c ELSE rows[1][2]

WriteChar(c) == IF EscapeChar(c) = <<>> THEN <<c>> ELSE <<BACKSLASH, EscapeChar(c)[1][1]>>

WriteString(text) ==
  <<QUOTE>> \o FlattenSeq([k \in DOMAIN text |-> WriteChar(text[k])]) \o <<QUOTE>>

\* A comma between each two.
WithCommas(texts) ==
  FlattenSeq([k \in DOMAIN texts |-> IF k = 1 THEN texts[k] ELSE <<",">> \o texts[k]])

RECURSIVE WriteTo(_)
WriteTo(v) ==
  CASE v.type = "array" ->
         <<"[">> \o WithCommas([k \in DOMAIN v.items |-> WriteTo(v.items[k])]) \o <<"]">>
    [] v.type = "object" ->
         <<"{">> \o WithCommas([k \in DOMAIN v.items |->
                      WriteString(v.items[k].key) \o <<":">> \o WriteTo(v.items[k].value)])
         \o <<"}">>
    [] v.type = "string" -> WriteString(v.text)
    [] OTHER -> v.text

-----------------------------------------------------------------------------
(* Prettyfier over IndentedPrint *)

\* IndentedPrint.write: spaces at the start of a line.
Put(p, c) ==
  [p EXCEPT !.out = @ \o (IF p.isNewLine THEN [k \in 1..(p.level * TabSize) |-> " "] ELSE <<>>) \o <<c>>,
            !.isNewLine = (c = "LF")]

PrintLn(p) == Put(Put(p, "CR"), "LF")

InEmptyBlock(p) == p.previousChar \in {"{", "["}

IndentIfNeeded(p) ==
  IF ~InEmptyBlock(p) THEN p
  ELSE PrintLn([p EXCEPT !.level = IF @ < MaxLevel THEN @ + 1 ELSE @])

UnindentIfNeeded(p) ==
  IF InEmptyBlock(p) THEN p ELSE PrintLn([p EXCEPT !.level = IF @ > 0 THEN @ - 1 ELSE @])

\* The quote behind a backslash does not end a string, be the backslash
\* itself behind one or not.
HandleStringChar(p, c) ==
  Put([p EXCEPT !.inString = ~(c = QUOTE /\ p.previousChar # BACKSLASH)], c)

HandleMarkupChar(p, c) ==
  CASE c \in {"}", "]"} -> Put(UnindentIfNeeded(p), c)
    [] c = ":" -> Put(Put(p, ":"), " ")
    [] c = "," -> PrintLn(Put(p, ","))
    [] c = QUOTE -> Put(IndentIfNeeded([p EXCEPT !.inString = TRUE]), c)
    [] OTHER -> Put(IndentIfNeeded(p), c)

PrettyWrite(p, c) ==
  [(IF p.inString THEN HandleStringChar(p, c) ELSE HandleMarkupChar(p, c)) EXCEPT !.previousChar = c]

NewPrettyfier ==
  [previousChar |-> NUL, inString |-> FALSE, level |-> 0, isNewLine |-> TRUE, out |-> <<>>]

\* prettyPrintTo
Pretty(text) == FoldLeft(PrettyWrite, NewPrettyfier, text).out

-----------------------------------------------------------------------------
(* The parser and the sketch *)

VARIABLES
  document,   \* what is printed
  json,       \* the text in memory, NUL at its end
  text,       \* "whole", "cut" off, "damaged", or "confused" by Prettyfier
  original,   \* the text the parser began with
  capacity,
  nestingLimit,
  size,       \* nodes allocated
  readPtr,
  writePtr,
  open,       \* containers being parsed, the innermost last
  value,      \* the JsonVariant parsed last; a string of it is a pointer
  at          \* what comes next

jsonVars == <<document, json, text, original, capacity, nestingLimit, size, readPtr, writePtr,
              open, value, at>>

fixedVars == <<document, text, original, capacity, nestingLimit>>

-----------------------------------------------------------------------------
(* Reading *)

\* skipCStyleComment, skipCppStyleComment, from behind the two characters
\* that begin it.
BehindComment(p, kind) ==
  IF kind = "/" THEN Min({q \in (p + 2)..Len(json) : json[q] \in {NUL, "LF"}})
  ELSE LET q == Min({q \in (p + 2)..Len(json) :
                       json[q] = NUL \/ (json[q] = "*" /\ json[q + 1] = "/")})
       IN IF json[q] = NUL THEN q ELSE q + 2

RECURSIVE skipSpacesAndComments(_)
skipSpacesAndComments(p) ==
  CASE json[p] \in {" ", "TAB", "CR", "LF"} -> skipSpacesAndComments(p + 1)
    [] json[p] = "/" /\ json[p + 1] \in {"*", "/"} ->
         skipSpacesAndComments(BehindComment(p, json[p + 1]))
    [] OTHER -> p

\* skip, from p: where to read on, or 0 if it is not there.
skip(p, c) ==
  LET q == skipSpacesAndComments(p)
  IN IF json[q] = c THEN skipSpacesAndComments(q + 1) ELSE 0

IsQuote(c) == c \in {"'", QUOTE}

Punctuation ==
  {"[", "]", "{", "}", ",", ":", " ", "/", "*", "TAB", "CR", "LF", "BS", "FF", "'", QUOTE,
   BACKSLASH, NUL}

IsLetterOrNumber(c) == c \notin Punctuation

RECURSIVE Quoted(_, _)
\* The string from p to the quote that stops it, and where it ends.
Quoted(p, stopChar) ==
  LET More(c, rest) == [rest EXCEPT !.text = <<c>> \o @] IN
  CASE json[p] = NUL -> [text |-> <<>>, next |-> p]
    [] json[p] = stopChar -> [text |-> <<>>, next |-> p + 1]
    [] json[p] = BACKSLASH ->
         IF json[p + 1] = NUL THEN [text |-> <<>>, next |-> p + 1]
         ELSE More(UnescapeChar(json[p + 1]), Quoted(p + 2, stopChar))
    [] OTHER -> More(json[p], Quoted(p + 1, stopChar))

Unquoted(p) ==
  LET end == Min({q \in p..Len(json) : ~IsLetterOrNumber(json[q])})
  IN [text |-> SubSeq(json, p, end - 1), next |-> end]

StringAt(p) == IF IsQuote(json[p]) THEN Quoted(p + 1, json[p]) ELSE Unquoted(p)

\* The string in memory that starts at p.
Deref(p) == LET end == Min({q \in p..Len(json) : json[q] = NUL}) IN SubSeq(json, p, end - 1)

-----------------------------------------------------------------------------
(* The parser *)

Nesting == Len(open)
Top == open[Len(open)]
Kind(c) == IF c = "[" THEN "array" ELSE "object"
Opening(kind) == IF kind = "array" THEN "[" ELSE "{"
Closing(kind) == IF kind = "array" THEN "]" ELSE "}"
FirstIn(kind) == IF kind = "array" THEN "value" ELSE "key"

Fail == at' = "failed" /\ UNCHANGED <<open, value>>

\* parseString: the string and its NUL move down to writePtr.
parseString ==
  LET string == StringAt(readPtr)
      end == writePtr + Len(string.text)
  IN /\ json' = [i \in DOMAIN json |->
                   CASE i \in writePtr..(end - 1) -> string.text[i - writePtr + 1]
                     [] i = end -> NUL
                     [] OTHER -> json[i]]
     /\ readPtr' = string.next
     /\ writePtr' = end + 1

\* alloc, of a container or a node
HasRoom == size < capacity

Allocate == size' = IF HasRoom THEN size + 1 ELSE size

\* parseArray, parseObject, up to the first item.  In a full buffer the
\* container is the invalid one, and the parser goes on.
Open(kind) ==
  LET inside == skip(readPtr, Opening(kind))
      behind == skip(inside, Closing(kind))
      container == [type |-> kind, items |-> <<>>, key |-> 0, valid |-> HasRoom]
  IN /\ Allocate /\ UNCHANGED <<json, writePtr>>
     /\ IF inside = 0 THEN Fail /\ UNCHANGED readPtr
        ELSE /\ open' = Append(open, container) /\ UNCHANGED value
             /\ IF behind # 0 THEN readPtr' = behind /\ at' = "end"
                ELSE readPtr' = inside /\ at' = FirstIn(kind)

ParseDocument ==
  /\ at = "document"
  /\ Open(document.type)
  /\ UNCHANGED fixedVars

\* Wrong on purpose: no end to the depth.
TooDeepNever == FALSE

\* parseAnythingTo: each container around the value has taken one off the
\* limit, but for the outermost.
TooDeep == Nesting > nestingLimit

ParseTooDeep ==
  /\ at = "value" /\ TooDeep
  /\ Fail
  /\ UNCHANGED <<fixedVars, json, size, readPtr, writePtr>>

\* parseArrayTo, parseObjectTo
ParseContainer ==
  /\ at = "value" /\ ~TooDeep /\ json[readPtr] \in {"[", "{"}
  /\ Open(Kind(json[readPtr]))
  /\ UNCHANGED fixedVars

\* parseStringTo
ParseScalar ==
  /\ at = "value" /\ ~TooDeep /\ json[readPtr] \notin {"[", "{"}
  /\ parseString
  /\ value' = [type |-> IF IsQuote(json[readPtr]) THEN "string" ELSE "unparsed", text |-> writePtr]
  /\ at' = "item"
  /\ UNCHANGED <<fixedVars, size, open>>

ParseKey ==
  /\ at = "key"
  /\ parseString
  /\ open' = [open EXCEPT ![Len(open)].key = writePtr]
  /\ at' = "colon"
  /\ UNCHANGED <<fixedVars, size, value>>

ParseColon ==
  /\ at = "colon"
  /\ \/ skip(readPtr, ":") = 0 /\ Fail /\ UNCHANGED readPtr
     \/ /\ skip(readPtr, ":") # 0
        /\ readPtr' = skip(readPtr, ":") /\ at' = "value" /\ UNCHANGED <<open, value>>
  /\ UNCHANGED <<fixedVars, json, size, writePtr>>

\* getNodeAt: the items that have the key.
SamePlace == {k \in DOMAIN Top.items :
                Top.type = "object" /\ Deref(Top.items[k].key) = Deref(Top.key)}

Item == IF Top.type = "array" THEN value ELSE Pair(Top.key, value)

\* add, set: in a new node, or in the one that has the key.
Added ==
  IF SamePlace = {} THEN [Top EXCEPT !.items = Append(@, Item)]
  ELSE [Top EXCEPT !.items[Min(SamePlace)] = Pair(@.key, value)]

\* A container takes a value, and comes to its end or to a comma.
AddItem ==
  LET behind == skip(readPtr, Closing(Top.type))
      next == skip(readPtr, ",")
      stored == Top.valid /\ (SamePlace # {} \/ HasRoom)
  IN /\ at = "item"
     /\ IF Top.valid /\ SamePlace = {} THEN Allocate ELSE UNCHANGED size
     /\ IF ~stored \/ (behind = 0 /\ next = 0) THEN Fail /\ UNCHANGED readPtr
        ELSE /\ open' = [open EXCEPT ![Len(open)] = Added] /\ UNCHANGED value
             /\ IF behind # 0 THEN readPtr' = behind /\ at' = "end"
                ELSE readPtr' = next /\ at' = FirstIn(Top.type)
     /\ UNCHANGED <<fixedVars, json, writePtr>>

\* The container is the value of the one around it, or the result.
EndContainer ==
  /\ at = "end"
  /\ IF ~Top.valid THEN Fail
     ELSE /\ value' = [type |-> Top.type, items |-> Top.items] /\ open' = Front(open)
          /\ at' = IF Nesting = 1 THEN "parsed" ELSE "item"
  /\ UNCHANGED <<fixedVars, json, size, readPtr, writePtr>>

Parser ==
  \/ ParseDocument \/ ParseTooDeep \/ ParseContainer \/ ParseScalar
  \/ ParseKey \/ ParseColon \/ AddItem \/ EndContainer

-----------------------------------------------------------------------------
(* The sketch *)

\* removeAt, remove
RemoveItem ==
  /\ at = "sketch"
  /\ \E k \in DOMAIN document.items : document' = RemoveNode(document, k)
  /\ UNCHANGED <<json, text, original, capacity, nestingLimit, size, readPtr, writePtr, open,
                 value, at>>

\* The quotes that end a string behind a backslash, which Prettyfier takes
\* for part of it.
Confuses(chars) ==
  \E k \in 3..Len(chars) :
    chars[k] = QUOTE /\ chars[k - 1] = BACKSLASH /\ chars[k - 2] = BACKSLASH

\* printTo, prettyPrintTo into StaticStringBuilder, which drops what does not
\* fit; then parseArray or parseObject.
PrintTo(pretty, bufferSize) ==
  LET plain == WriteTo(document)
      chars == IF pretty THEN Pretty(plain) ELSE plain
      kept == Min({Len(chars), bufferSize - 1})
  IN /\ at = "sketch"
     /\ json' = SubSeq(chars, 1, kept) \o <<NUL>> /\ original' = json'
     /\ text' = IF kept < Len(chars) THEN "cut"
                ELSE IF pretty /\ Confuses(plain) THEN "confused" ELSE "whole"
     /\ capacity' \in Capacities /\ nestingLimit' \in NestingLimits
     /\ at' = "document"
     /\ UNCHANGED <<document, size, readPtr, writePtr, open, value>>

\* A character becomes another before the text is parsed.
Damage ==
  /\ at = "document" /\ text = "whole"
  /\ \E k \in 1..(Len(json) - 1), c \in Damages :
       json' = [json EXCEPT ![k] = c] /\ original' = json'
  /\ text' = "damaged"
  /\ UNCHANGED <<document, capacity, nestingLimit, size, readPtr, writePtr, open, value, at>>

-----------------------------------------------------------------------------

JsonInit ==
  /\ document \in Documents
  /\ json = <<NUL>> /\ original = <<NUL>> /\ text = "whole"
  /\ capacity = 0 /\ nestingLimit = 0 /\ size = 0
  /\ readPtr = 1 /\ writePtr = 1 /\ open = <<>> /\ value = Null /\ at = "sketch"

JsonNext ==
  \/ RemoveItem
  \/ \E pretty \in BOOLEAN, bufferSize \in BufferSizes : PrintTo(pretty, bufferSize)
  \/ Damage
  \/ Parser

JsonSpec == JsonInit /\ [][JsonNext]_jsonVars

-----------------------------------------------------------------------------
(* Properties *)

\* The parser writes into the text it reads, and is never ahead of itself:
\* what it has not read is what it was, and it does not read past the end.
UnreadIntact == \A k \in readPtr..Len(json) : json[k] = original[k]

RECURSIVE Read(_), Nodes(_), Depth(_)
\* A parsed value, its pointers followed.
Read(v) ==
  CASE v.type = "array" -> Array([k \in DOMAIN v.items |-> Read(v.items[k])])
    [] v.type = "object" ->
         Object([k \in DOMAIN v.items |-> Pair(Deref(v.items[k].key), Read(v.items[k].value))])
    [] OTHER -> [type |-> v.type, text |-> Deref(v.text)]

Values(v) ==
  IF v.type = "array" THEN v.items ELSE [k \in DOMAIN v.items |-> v.items[k].value]

\* Nodes a value takes, and how many containers are around its innermost item.
Nodes(v) ==
  IF ~IsContainer(v) THEN 0
  ELSE 1 + FoldLeft(LAMBDA n, w : n + 1 + Nodes(w), 0, Values(v))

Depth(v) ==
  IF ~IsContainer(v) \/ v.items = <<>> THEN 0
  ELSE 1 + FoldLeft(LAMBDA d, w : Max({d, Depth(w)}), 0, Values(v))

Fits == Nodes(document) <= capacity /\ Depth(document) <= nestingLimit

\* What was printed is parsed to the same document as far as a sketch can
\* see, be it indented or not, if the buffer and the nesting limit allow it,
\* and not at all if they do not; a text that was cut off is never taken for
\* a document.  Nothing is destroyed before it is read.
ReadsWhatWasPrinted ==
  /\ UnreadIntact
  /\ at = "parsed" /\ text = "whole" => Fits /\ Observed(Read(value)) = Observed(document)
  /\ at = "failed" /\ text = "whole" => ~Fits
  /\ at = "parsed" => text # "cut"

=============================================================================
