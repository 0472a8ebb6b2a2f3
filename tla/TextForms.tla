------------------------------ MODULE TextForms ------------------------------
(***************************************************************************)
(* Functions of texts, before and after translation: slices, repetitions,  *)
(* searches, replacements, and what each engine makes of a position before *)
(* the first, of a negative length, of trailing blanks, of an empty text   *)
(* and of NULL.  The emitter rebuilds the source's reading from the        *)
(* target's functions (emit_functions.py, emit_expr.py); routine bodies    *)
(* have their own rules for a search and for DECODE                        *)
(* (procedural/transformer/_expr.py).                                      *)
(*                                                                         *)
(* A text is a sequence of character codes.  The operators named ...On say *)
(* what an engine computes (external), those named ...Form what the        *)
(* emitted expression computes on the target.  Arguments are literals or   *)
(* columns: many rewrites look for a literal.  Left out: collations,       *)
(* numbers that are not whole, and lengths in bytes.                       *)
(***************************************************************************)
EXTENDS CallForms, Integers, Sequences
LOCAL INSTANCE FiniteSets
LOCAL INSTANCE FiniteSetsExt
LOCAL INSTANCE SequencesExt

CONSTANTS Texts,      \* the texts functions are evaluated on
          Positions   \* starts, lengths and counts

ASSUME PositionsAssumption == Positions \subseteq Int

Virtual == {"tsql", "postgresql"}    \* positions before the first count as such
FromTheEnd == {"mysql", "oracle"}    \* a negative start counts from the end

Blank == 32
FullStop == 46
ToEnd == 100   \* the length of a slice without one, more than any text has

(***************************************************************************)
(* Texts on an engine                                                      *)
(***************************************************************************)
\* Oracle has no empty text.
Read(engine, s) == IF engine = "oracle" /\ s = <<>> THEN Null ELSE s

Slice(s, from, to) == SubSeq(s, Max({from, 1}), Min({to, Len(s)}))

RightTrimmed(s) == SubSeq(s, 1, Max({i \in 1 .. Len(s) : s[i] # Blank} \cup {0}))

\* T-SQL's LEN leaves trailing blanks out.
LenOn(engine, s) ==
    CASE s = Null -> Null
      [] engine = "tsql" -> Len(RightTrimmed(s))
      [] OTHER -> Len(s)

SubstringOn(engine, s, p, n) ==
    LET start == CASE engine = "oracle" /\ p = 0 -> 1
                   [] engine \in FromTheEnd /\ p < 0 -> Len(s) + p + 1
                   [] OTHER -> p
    IN  CASE s = Null -> Null
          [] engine \in Virtual /\ n < 0 -> Refused
          [] engine \in FromTheEnd /\ start < 1 -> <<>>
          [] OTHER -> Slice(s, start, start + n - 1)

LeftOn(engine, s, n) ==
    CASE s = Null -> Null
      [] n >= 0 -> Slice(s, 1, n)
      [] engine = "postgresql" -> Slice(s, 1, Len(s) + n)
      [] engine = "mysql" -> <<>>
      [] OTHER -> Refused

RightOn(engine, s, n) ==
    CASE s = Null -> Null
      [] n >= 0 -> Slice(s, Len(s) - n + 1, Len(s))
      [] engine = "postgresql" -> Slice(s, 1 - n, Len(s))
      [] engine = "mysql" -> <<>>
      [] OTHER -> Refused

RepeatOn(engine, s, n) ==
    CASE s = Null -> Null
      [] n < 0 -> IF engine = "tsql" THEN Null ELSE <<>>
      [] OTHER -> FlattenSeq([i \in 1 .. n |-> s])

\* The first k characters of a pad written again and again.
Filling(pad, k) == [i \in 1 .. k |-> pad[((i - 1) % Len(pad)) + 1]]

PadOn(s, n, pad, left) ==
    CASE s = Null -> Null
      [] n <= Len(s) -> Slice(s, 1, n)
      [] left -> Filling(pad, n - Len(s)) \o s
      [] OTHER -> s \o Filling(pad, n - Len(s))

\* STUFF, INSERT() and OVERLAY: n characters from p on give way to new.
SpliceOn(engine, s, p, n, new) ==
    CASE s = Null -> Null
      [] p < 1 /\ engine = "postgresql" -> Refused
      [] p \in 1 .. Len(s) \/ engine = "postgresql" ->
           Slice(s, 1, p - 1) \o new \o Slice(s, p + n, Len(s))
      [] OTHER -> IF engine = "mysql" THEN s ELSE Null

\* MySQL takes a whole text off the ends, the others any character of a set.
LeadingCut(engine, set, s) ==
    LET unit == IF engine = "mysql" THEN Len(set) ELSE 1
        goes(piece) == IF engine = "mysql" THEN piece = set ELSE piece[1] \in ToSet(set)
        gone == Max({k \in 0 .. Len(s) \div unit :
                       \A j \in 1 .. k : goes(SubSeq(s, (j - 1) * unit + 1, j * unit))})
    IN  SubSeq(s, gone * unit + 1, Len(s))

TrimOn(engine, set, s) ==
    IF s = Null THEN Null
    ELSE Reverse(LeadingCut(engine, Reverse(set), Reverse(LeadingCut(engine, set, s))))

\* The places where needle stands in hay; the k-th of some places, in order or
\* from the last on, and 0 if there is none.
Hits(needle, hay) ==
    {i \in 1 .. Len(hay) - Len(needle) + 1 : SubSeq(hay, i, i + Len(needle) - 1) = needle}

Nth(hits, k) ==
    IF Cardinality(hits) < k THEN 0
    ELSE CHOOSE i \in hits : Cardinality({j \in hits : j <= i}) = k

NthFromLast(hits, k) == Nth(hits, Cardinality(hits) - k + 1)

PositionOn(engine, needle, hay, start, k) ==
    LET hits == Hits(needle, hay)
    IN  CASE Null \in {needle, hay} -> Null
          [] engine = "tsql" /\ needle = <<>> -> 0
          [] engine = "oracle" /\ start < 0 ->
               LET before == {i \in hits : i <= Len(hay) + start + 1}
               IN  IF Cardinality(before) < k THEN 0 ELSE NthFromLast(before, k)
          [] engine # "tsql" /\ start < 1 -> 0
          [] OTHER -> Nth({i \in hits : i >= start}, k)

\* REPLACE of one character.  Oracle takes a NULL for nothing.
Replaced(s, c, new) ==
    FlattenSeq([i \in DOMAIN s |-> IF <<s[i]>> = c THEN new ELSE <<s[i]>>])

ReplaceOn(engine, s, c, new) ==
    CASE s = Null -> Null
      [] engine = "oracle" ->
           IF c = Null THEN s ELSE Replaced(s, c, IF new = Null THEN <<>> ELSE new)
      [] Null \in {c, new} -> Null
      [] OTHER -> Replaced(s, c, new)

AsciiOn(engine, s) ==
    CASE s = Null -> Null
      [] s = <<>> -> IF engine = "tsql" THEN Null ELSE 0
      [] OTHER -> s[1]

\* GREATEST of two numbers.
GreatestOn(engine, a, b) ==
    LET numbers == {a, b} \ {Null}
    IN  IF numbers = {} \/ (engine \in FromTheEnd /\ Null \in {a, b})
          THEN Null ELSE Max(numbers)

(***************************************************************************)
(* The emitted forms                                                       *)
(***************************************************************************)
\* LEN, LENGTH or CHAR_LENGTH of the target, where a form measures a text.
Size(s) == LenOn(target, s)

\* A mutant of ClippedForm: one character of the run before the text too many.
ClippedForm_OffByOne(s, p, n) ==
    IF n + p > 0 THEN SubstringOn(target, s, 1, n + p) ELSE <<>>

\* _emit_substr_neg_start: positions before the first shorten the slice, and
\* a run that ends before the text is written as an empty literal.
ClippedForm(s, p, n) ==
    IF n + p - 1 > 0 THEN SubstringOn(target, s, 1, n + p - 1) ELSE <<>>

\* SUBSTRING, in the order of the emitter's rewrites; T-SQL, which needs a
\* length, gets the size of the text.
SubstringForm(s, p, n, literal) ==
    LET short == n = ToEnd
        rest == IF short /\ target = "tsql" THEN Size(s) ELSE n
        from(start) == SubstringOn(target, s, start, rest)
    IN  CASE ~literal -> from(p)
          [] p < 0 /\ source \in FromTheEnd /\ target \in Virtual -> from(Size(s) + p + 1)
          [] p = 0 /\ source = "mysql" -> <<>>
          [] p < 1 /\ source = "postgresql" /\ short -> from(1)
          [] p = 0 /\ source = "oracle" -> from(1)
          [] p < 1 /\ source \in Virtual /\ target \in FromTheEnd -> ClippedForm(s, p, n)
          [] OTHER -> from(p)

\* LEFT: MySQL's negative length is clamped, PostgreSQL's, if a literal, counted
\* from the end.
LeftForm(s, n, literal) ==
    LET length == CASE n < 0 /\ source = "postgresql" /\ literal -> Max({Size(s) + n, 0})
                    [] n < 0 /\ source = "mysql" -> 0
                    [] OTHER -> n
    IN  CASE s = Null -> Null
          [] target = "oracle" -> SubstringOn(target, s, 1, length)
          [] OTHER -> LeftOn(target, s, length)

\* RIGHT: Oracle has none.
RightForm(s, n, literal) ==
    CASE n < 0 /\ source = "postgresql" /\ literal ->
           SubstringOn(target, s, 1 - n, IF target = "tsql" THEN Size(s) ELSE ToEnd)
      [] target = "oracle" -> Refused
      [] OTHER -> RightOn(target, s, n)

\* REPEAT and REPLICATE: RPAD of the text with itself on Oracle.
RepeatForm(s, n, literal) ==
    CASE target = "oracle" /\ literal /\ n < 0 -> <<>>
      [] s = Null -> Null
      [] target = "oracle" -> PadOn(s, Max({Len(s) * n, 0}), s, FALSE)
      [] target = "tsql" -> RepeatOn(target, s, Max({n, 0}))
      [] OTHER -> RepeatOn(target, s, n)

\* LPAD and RPAD, which T-SQL builds from REPLICATE and LEFT.
PadForm(s, n, pad, left) ==
    LET pads == Filling(pad, Len(pad) * n)
    IN  CASE target # "tsql" -> PadOn(s, n, pad, left)
          [] s = Null -> Null
          [] left -> LeftOn(target, pads, Max({n - Size(s), 0})) \o LeftOn(target, s, n)
          [] OTHER -> LeftOn(target, s \o pads, n)

\* emit_stuff_insert and OVERLAY: Oracle's concatenation takes NULL for nothing,
\* and MySQL's answer to a position outside the text is written out.
SpliceForm(s, p, n, new) ==
    LET piece(v) == IF v = Null THEN <<>> ELSE v
        core == IF target = "oracle"
                  THEN piece(SubstringOn(target, s, 1, p - 1)) \o piece(new)
                         \o piece(IF n = Null THEN Null
                                  ELSE SubstringOn(target, s, p + n, ToEnd))
                  ELSE SpliceOn(target, s, p, n, new)
    IN  IF source = "mysql" /\ s # Null /\ (p < 1 \/ p > Size(s)) THEN s ELSE core

\* TRIM of a set, LTRIM and RTRIM on Oracle.
TrimForm(set, s) == TrimOn(target, set, s)

\* LENGTH: a literal is measured as the source does it; a text of T-SQL is trimmed
\* first, one of Oracle or PostgreSQL ends in a full stop where LEN measures it.
LengthForm(s, literal) ==
    CASE literal -> IF source = "tsql" THEN Len(RightTrimmed(s)) ELSE Len(s)
      [] Read(target, s) = Null -> Null
      [] source = "tsql" -> LenOn(target, Read(target, RightTrimmed(s)))
      [] target = "tsql" /\ source # "mysql" -> LenOn(target, s \o <<FullStop>>) - 1
      [] OTHER -> LenOn(target, s)

\* The search of an empty text, which is found at 1 on MySQL and PostgreSQL, is
\* written out where the text searched for may be empty.
MaybeEmpty(needle, start, literal) ==
    /\ source \in {"mysql", "postgresql"} /\ start = 1
    /\ ~(literal /\ needle # <<>>)

\* PostgreSQL searches a slice and adds the start again.
PositionFrom(needle, hay, start) ==
    LET found == PositionOn(target, needle, SubstringOn(target, hay, start, ToEnd), 1, 1)
    IN  IF found \in {0, Null} THEN found ELSE found + start - 1

\* CHARINDEX, LOCATE, STRPOS and INSTR; _fold_oracle_instr for Oracle's own
\* searches, which only literals keep.  texts and numbers: which are literals.
PositionForm(needle, hay, start, k, texts, numbers) ==
    LET own == source = "oracle" /\ (k > 1 \/ (numbers /\ start < 0))
        into(s) == Read(target, s)
        found == PositionOn(target, into(needle), into(hay), start, 1)
    IN  CASE own /\ texts /\ numbers /\ needle # <<>> ->
               PositionOn("oracle", needle, hay, start, k)
          [] own -> Carrier
          [] target = "postgresql" /\ start # 1 -> PositionFrom(needle, hay, start)
          [] target = "tsql" /\ MaybeEmpty(needle, start, texts)
               /\ needle # Null /\ RightTrimmed(needle) = <<>> -> 1
          [] target = "oracle" /\ MaybeEmpty(needle, start, texts) /\ found = Null -> 1
          [] OTHER -> found

\* _transform_substring_position: the arguments in the target's order, the
\* occurrence dropped.
PositionText(needle, hay, start) ==
    IF target = "postgresql" /\ start # 1 THEN PositionFrom(needle, hay, start)
    ELSE PositionOn(target, Read(target, needle), Read(target, hay), start, 1)

\* REPLACE: Oracle's without a replacement, and MySQL's NULLs.
ReplaceForm(s, c, new, short, literal) ==
    LET into(v) == Read(target, v)
        native == ReplaceOn(target, into(s), into(c), into(new))
    IN  CASE short -> IF native = <<>> THEN Null ELSE native
          [] source = "mysql" /\ literal /\ Null \in {c, new} -> Null
          [] source = "mysql" /\ target = "oracle" /\ ~literal
               /\ Null \in {into(c), into(new)} -> Null
          [] OTHER -> native

\* ASCII of an empty text; a text of blanks equals it on T-SQL.
AsciiForm(s) ==
    LET native == AsciiOn(target, Read(target, s))
    IN  CASE source \notin {"mysql", "postgresql"} -> native
          [] target = "tsql" /\ s # Null /\ RightTrimmed(s) = <<>> -> 0
          [] target = "oracle" /\ native = Null -> 0
          [] OTHER -> native

\* GREATEST and LEAST: NULL is guarded, or a literal NULL left out.
GreatestForm(a, b, literal) ==
    CASE source \in FromTheEnd /\ Null \in {a, b} -> Null
      [] source = "postgresql" /\ literal /\ {a, b} # {Null} ->
           GreatestOn("postgresql", a, b)
      [] OTHER -> GreatestOn(target, a, b)

\* DECODE, whose comparison takes NULL for a value: a literal NULL is tested with
\* IS NULL in a script.
DecodeForm(a, b, literal) ==
    IF place = "script" /\ literal /\ b = Null THEN a = Null
    ELSE a = b /\ a # Null

(***************************************************************************)
(* One conversion.  An empty text that one of the two engines computes is  *)
(* NULL where Oracle is the other.                                         *)
(***************************************************************************)
Seen(v) == IF "oracle" \in {source, target} THEN Read("oracle", v) ELSE v

ConvertText(expression, value, form) ==
    /\ place = "script" /\ value # Refused
    /\ Convert(expression, Seen(value), Seen(form))

Substring(s, p, n, literal) ==
    /\ source = "tsql" => n # ToEnd
    /\ ConvertText([fn |-> "SUBSTRING", text |-> s, from |-> p, length |-> n,
                    literal |-> literal],
                   SubstringOn(source, Read(source, s), p, n),
                   SubstringForm(Read(target, s), p, n, literal))

LeftPart(s, n, literal) ==
    /\ source # "oracle"
    /\ ConvertText([fn |-> "LEFT", text |-> s, length |-> n, literal |-> literal],
                   LeftOn(source, s, n), LeftForm(Read(target, s), n, literal))

RightPart(s, n, literal) ==
    /\ source # "oracle"
    /\ ConvertText([fn |-> "RIGHT", text |-> s, length |-> n, literal |-> literal],
                   RightOn(source, s, n), RightForm(Read(target, s), n, literal))

Repeat(s, n, literal) ==
    /\ source # "oracle"
    /\ ConvertText([fn |-> "REPEAT", text |-> s, length |-> n, literal |-> literal],
                   RepeatOn(source, s, n), RepeatForm(Read(target, s), n, literal))

Pad(s, n, pad, left) ==
    /\ source # "tsql" /\ n >= 0 /\ pad \notin {Null, <<>>}
    /\ ConvertText([fn |-> "PAD", text |-> s, length |-> n, other |-> pad, left |-> left],
                   PadOn(Read(source, s), n, pad, left),
                   PadForm(Read(target, s), n, pad, left))

\* OVERLAY alone may leave the length out, which is then that of the new text.
Splice(s, p, n, new, short) ==
    /\ source # "oracle" /\ n >= 0 /\ new # Null
    /\ short => source = "postgresql"
    /\ ConvertText([fn |-> "STUFF", text |-> s, from |-> p, length |-> n, other |-> new,
                    short |-> short],
                   SpliceOn(source, s, p, IF short THEN Len(new) ELSE n, new),
                   LET fresh == Read(target, new)
                   IN  SpliceForm(Read(target, s), p, IF short THEN Size(fresh) ELSE n, fresh))

Trim(set, s) ==
    /\ set \notin {Null, <<>>}
    /\ source = "oracle" => Len(set) = 1
    /\ ConvertText([fn |-> "TRIM", text |-> s, other |-> set],
                   TrimOn(source, set, Read(source, s)), TrimForm(set, Read(target, s)))

Length(s, literal) ==
    /\ place = "script" /\ (literal => s # Null)
    /\ ConvertNumber([fn |-> "LENGTH", text |-> s, literal |-> literal],
                     LenOn(source, Read(source, s)), LengthForm(s, literal))

Position(needle, hay, start, k, texts, numbers) ==
    /\ source = "postgresql" => start = 1
    /\ source # "oracle" => k = 1
    /\ texts => Null \notin {needle, hay}
    /\ place # "generated"
    /\ ConvertNumber([fn |-> "POSITION", text |-> hay, other |-> needle, from |-> start,
                      occurrence |-> k, texts |-> texts, numbers |-> numbers],
                     PositionOn(source, Read(source, needle), Read(source, hay), start, k),
                     IF place = "script" THEN PositionForm(needle, hay, start, k, texts, numbers)
                                         ELSE PositionText(needle, hay, start))

Replace(s, c, new, short, literal) ==
    /\ c # Null => Len(c) < 2
    /\ short => source = "oracle"
    /\ ConvertText([fn |-> "REPLACE", text |-> s, search |-> c, other |-> new,
                    short |-> short, literal |-> literal],
                   LET from(v) == Read(source, v)
                   IN  ReplaceOn(source, from(s), from(c), IF short THEN Null ELSE from(new)),
                   ReplaceForm(s, c, IF short THEN <<>> ELSE new, short, literal))

Ascii(s) ==
    /\ place = "script"
    /\ ConvertNumber([fn |-> "ASCII", text |-> s],
                     AsciiOn(source, Read(source, s)), AsciiForm(s))

Greatest(a, b, literal) ==
    /\ place = "script"
    /\ ConvertNumber([fn |-> "GREATEST", values |-> <<a, b>>, literal |-> literal],
                     GreatestOn(source, a, b), GreatestForm(a, b, literal))

Decode(a, b, literal) ==
    /\ source = "oracle"
    /\ LET truth(test) == IF test THEN 1 ELSE 0
       IN  ConvertNumber([fn |-> "DECODE", values |-> <<a, b>>, literal |-> literal],
                         truth(a = b), truth(DecodeForm(a, b, literal)))

ConvertTexts ==
    /\ call = NoCall
    /\ \/ \E s \in Texts, n \in Positions, literal \in BOOLEAN :
            \/ \E length \in Positions \cup {ToEnd} : Substring(s, n, length, literal)
            \/ LeftPart(s, n, literal)
            \/ RightPart(s, n, literal)
            \/ Repeat(s, n, literal)
       \/ \E s, other \in Texts, n \in Positions :
            \/ \E left \in BOOLEAN : Pad(s, n, other, left)
            \/ \E p \in Positions, short \in BOOLEAN : Splice(s, p, n, other, short)
            \/ \E k \in 1 .. 2, texts, numbers \in BOOLEAN :
                 Position(other, s, n, k, texts, numbers)
       \/ \E s, other \in Texts :
            \/ Trim(other, s)
            \/ \E c \in Texts, short, literal \in BOOLEAN : Replace(s, c, other, short, literal)
       \/ \E s \in Texts :
            \/ \E literal \in BOOLEAN : Length(s, literal)
            \/ Ascii(s)
       \/ \E a, b \in Positions \cup {Null}, literal \in BOOLEAN :
            \/ Greatest(a, b, literal)
            \/ Decode(a, b, literal)

(***************************************************************************)
(* The values                                                              *)
(***************************************************************************)
TextFunctions ==
    {"SUBSTRING", "LEFT", "RIGHT", "REPEAT", "PAD", "STUFF", "TRIM", "LENGTH",
     "POSITION", "REPLACE", "ASCII", "GREATEST", "DECODE"}

EndsBlank(s) == s # Null /\ RightTrimmed(s) # s

\* A text argument that one of the two engines cannot tell from NULL.
Vanishes(s) == s = <<>> /\ "oracle" \in {source, target}

\* Where a search is the source's: not from before the first character, but for
\* Oracle's own; for an empty text only in a script, from the start, and where
\* the source finds it at 1; with the guards for it, not of a text of blanks on
\* T-SQL, nor with NULL or an empty text on Oracle.
Searchable ==
    LET needle == call.other
        guarded == place = "script" /\ MaybeEmpty(needle, call.from, call.texts)
    IN  /\ call.from >= 1
             \/ (source = "oracle" /\ call.from < 0 /\ place = "script" /\ call.numbers)
        /\ call.occurrence = 1 \/ place = "script"
        /\ needle = <<>> => guarded
        /\ source = "oracle" => ~Vanishes(call.text)
        /\ target = "oracle" => Null # call.text /\ ~Vanishes(call.text) /\ needle # Null
        /\ guarded /\ target = "tsql" => call.text # Null /\ ~EndsBlank(needle)

\* Where the emitted form computes the source's value.  Columns in place of
\* literals are not rewritten; where T-SQL's LEN measures a text, its trailing
\* blanks are lost; an empty text is NULL on Oracle, a limit the project documents
\* (docs/03-unsupported.md:172).
Portable ==
    LET s == call.text
    IN  CASE call.fn = "SUBSTRING" ->
               /\ ~Vanishes(s)
               /\ call.from < 1 => call.literal /\ s # Null
               /\ call.from < 0 /\ target \in Virtual => source \in Virtual \/ call.from >= -Len(s)
               /\ target = "tsql" /\ EndsBlank(s) => call.from > 0 /\ call.length # ToEnd
          [] call.fn \in {"LEFT", "RIGHT"} ->
               call.length < 0 =>
                 /\ source = "postgresql" => call.literal /\ ~(target = "tsql" /\ EndsBlank(s))
                 /\ ~(source = "mysql" /\ call.fn = "RIGHT")
          [] call.fn = "REPEAT" -> ~(source = "tsql" /\ call.length < 0)
          [] call.fn = "PAD" ->
               /\ ~Vanishes(s)
               /\ ~(target = "tsql" /\ call.left /\ EndsBlank(s))
          [] call.fn = "STUFF" ->
               /\ s # Null /\ ~Vanishes(s) /\ ~Vanishes(call.other)
               /\ source = "mysql" \/ call.from \in 1 .. Len(s)
               /\ target = "tsql" => ~EndsBlank(s) /\ ~EndsBlank(call.other)
          [] call.fn = "TRIM" ->
               /\ ~Vanishes(s)
               /\ Len(call.other) = 1 \/ "mysql" \notin {source, target}
          [] call.fn = "LENGTH" ->
               /\ ~Vanishes(s)
               /\ source = "tsql" /\ target = "oracle" => ~EndsBlank(s)
               /\ source = "mysql" /\ target = "tsql" => ~EndsBlank(s) \/ call.literal
          [] call.fn = "POSITION" -> Searchable
          [] call.fn = "REPLACE" -> {s, call.search, call.other} \cap {Null, <<>>} = {}
          [] call.fn = "ASCII" ->
               IF source \in {"mysql", "postgresql"}
                 THEN (target = "oracle" => s # Null) /\ (target = "tsql" => ~EndsBlank(s))
                 ELSE s # <<>>
          [] call.fn = "GREATEST" ->
               Null \in ToSet(call.values) /\ target \in FromTheEnd =>
                 source \in FromTheEnd \/ (source = "postgresql" /\ call.literal)
          [] OTHER -> call.values # <<Null, Null>> \/ (place = "script" /\ call.literal)

\* A function of texts computes the source's value: where a slice begins and ends,
\* what is counted from the end, where a text is found and what becomes of NULL
\* and of the empty text are the source's, whatever the target's function of the
\* same name makes of such arguments (emit_functions.py:583-716, 1031-1080,
\* 1429-1470, 1637-2154, 3061-3131; emit_expr.py:1112-1195).
TextsKept == call.fn \in TextFunctions /\ Portable => Announced
=============================================================================
