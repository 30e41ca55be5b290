------------------------------ MODULE Records ------------------------------
(***************************************************************************)
(* The life of one record in a process: it is made by a Rust or a Python   *)
(* constructor or arrives from a publisher, is changed through its Python  *)
(* properties, gets a send timestamp, and is converted to newer versions;  *)
(* at any time it is dispatched on, read from Rust and Python, and written *)
(* as CSV and JSON.  Next to it, a Python enum is parsed.                  *)
(*   rec    the record, or NoRecord                                        *)
(*   given  history: what reading each field an application or a publisher *)
(*          gave a value to should return                                  *)
(*   odd    the field a publisher sent an unusual value in, or "none"      *)
(*   word   the enum class, the input and the result of the last parse     *)
(***************************************************************************)
EXTENDS RecordText, RecordDispatch

CONSTANTS
  MaxSets  \* how often a property is assigned

ASSUME MaxSetsAssumption == MaxSets \in Nat

VARIABLES rec, given, odd, sets, word

vars == <<rec, given, odd, sets, word>>

NoRecord == [ty |-> "none"]
NoWord   == <<>>
NoGiven  == [n \in {} |-> ""]

Holds == rec # NoRecord

AllNames(t) == HeaderNames \cup FieldNames(t)

(* A value for a field, as an application writes it: a variant that is not *)
(* the default, or the name of the field.                                  *)
NotDefault(e, default) == CHOOSE v \in DOMAIN e : e[v] # default

ArgumentOf(m, f, default) ==
  CASE EnumOf(m, f) # "none" -> NotDefault(FieldEnums[EnumOf(m, f)], default)
    [] f.name \in m.options -> "Yes"
    [] OTHER -> f.name

Argument(t, n) ==
  IF n \in HeaderNames THEN n
  ELSE ArgumentOf(RecordMethods[t], FieldOf[t][n], Defaults[t][n])

(* What reading it should return: the tri-states are read as Option<bool>. *)
Reads(t, n, arg) == IF n \in RecordMethods[t].options THEN OptionBool[arg] ELSE arg

GivenBy(t, args)   == [n \in DOMAIN args |-> Reads(t, n, args[n])]
Arguments(t, names) == [n \in names |-> Argument(t, n)]
AllGiven(t, names)  == GivenBy(t, Arguments(t, names))

Init == /\ rec = NoRecord
        /\ given = NoGiven
        /\ odd = "none"
        /\ sets = 0
        /\ word = NoWord

Made(r, g) == /\ ~Failed(r)
              /\ rec' = r
              /\ given' = g
              /\ UNCHANGED <<odd, sets, word>>

Idle == rec = NoRecord /\ word = NoWord

-----------------------------------------------------------------------------
(* Constructors.                                                           *)

(* Default, or default_for_schema of the types of several rtypes. *)
Default(t) ==
  /\ Idle
  /\ \E rt \in has_rtype[t] :
       /\ \E s \in DOMAIN RTypeFromSchema : RTypeFromSchema[s] = RTypeConsts[rt]
            \/ has_rtype[t] = {rt}
       /\ Made(DefaultRecord(t, rt), NoGiven)

(* The texts a control message is made with, at the limit of its field. *)
Messages(n) == (SystemTexts \ {"invalid"}) \cup {ToString(n - 1), ToString(n), "wide"}

NewError ==
  /\ Idle
  /\ \/ \E msg \in Messages(302), code \in DOMAIN ErrorCode \cup {"None"},
           is_last \in BOOLEAN :
          LET r == ErrorMsg_new("ts_event", code, msg, is_last)
          IN Made(r, [ts_event |-> "ts_event", is_last |-> IF is_last THEN "1" ELSE "0"]
                       @@ (IF code = "None" THEN NoGiven ELSE [code |-> code])
                       @@ (IF r.val.err = msg THEN [err |-> msg] ELSE NoGiven))
     \/ \E msg \in Messages(64) :
          LET r == ErrorMsgV1_new("ts_event", msg)
          IN Made(r, [ts_event |-> "ts_event"]
                       @@ (IF r.val.err = msg THEN [err |-> msg] ELSE NoGiven))

NewSystem ==
  /\ Idle
  /\ \/ \E msg \in Messages(303), code \in DOMAIN SystemCode \cup {"None"} :
          Made(SystemMsg_new("ts_event", code, msg),
               [ts_event |-> "ts_event", msg |-> msg]
                 @@ (IF code = "None" THEN NoGiven ELSE [code |-> code]))
     \/ Made(SystemMsg_heartbeat("ts_event"), [ts_event |-> "ts_event", code |-> "Heartbeat"])
     \/ \E msg \in Messages(64) :
          Made(SystemMsgV1_new("ts_event", msg), [ts_event |-> "ts_event", msg |-> msg])
     \/ Made(SystemMsgV1_heartbeat("ts_event"), [ts_event |-> "ts_event"])

NewSymbolMapping ==
  /\ Idle
  /\ \/ \E sym \in {"stype_in_symbol", "70", "71"}, stype \in DOMAIN SType :
          Made(SymbolMappingMsg_new("instrument_id", "ts_event", Raw(SType[stype]), sym,
                                    Raw(SType["RawSymbol"]), "stype_out_symbol", "start_ts",
                                    "end_ts"),
               AllGiven("SymbolMappingMsg", {"instrument_id", "ts_event", "start_ts", "end_ts",
                                             "stype_out_symbol"})
                 @@ [stype_in |-> stype, stype_in_symbol |-> sym, stype_out |-> "RawSymbol"])
     \/ \E sym \in {"stype_out_symbol", "21", "22"} :
          Made(SymbolMappingMsgV1_new("instrument_id", "ts_event", "stype_in_symbol", sym,
                                      "start_ts", "end_ts"),
               AllGiven("SymbolMappingMsgV1", {"instrument_id", "ts_event", "start_ts",
                                               "end_ts", "stype_in_symbol"})
                 @@ [stype_out_symbol |-> sym])

PyMade(t, rt, args) == Made(PyNewRecord(t, rt, args), GivenBy(t, args))

(* None, one or all of the optional arguments. *)
Optional(ctor) ==
  {{}, DOMAIN ctor.optional} \cup {{n} : n \in DOMAIN ctor.optional}

(* A text argument at the limit of its field. *)
AtLimit(args, n, len) == {[args EXCEPT ![n] = ToString(k)] : k \in {len - 1, len}}

TextArguments(t, named) == {n \in PyNew[t].required \cap DOMAIN named : named[n].ty = "str"}

(* py_new with its required arguments, the texts as long as they may be,   *)
(* and a choice of the optional ones.                                      *)
PyNewAction(t) ==
  /\ Idle
  /\ \E rt \in has_rtype[t], opt \in Optional(PyNew[t]) :
       PyMade(t, rt, Arguments(t, (PyNew[t].required \ {"rtype"}) \cup opt))

PyNewLongText(t) ==
  /\ Idle
  /\ \E rt \in has_rtype[t], args \in {Arguments(t, PyNew[t].required \ {"rtype"})} :
       \E n \in TextArguments(t, FieldOf[t]) : \E long \in AtLimit(args, n, FieldOf[t][n].len) :
         PyMade(t, rt, long)

-----------------------------------------------------------------------------
(* A record from a publisher: any value of every field, one of them        *)
(* undefined, unknown to this version, or not readable.                    *)
OddValues(t, f) ==
  CASE f.attr = "unix_nanos" -> {"0", UNDEF_TIMESTAMP}
    [] f.attr = "fixed_price" -> {UNDEF_PRICE}
    [] f.ty \in DOMAIN FieldEnums -> {}
    [] f.ty = "c_char" -> {"NUL", "high", "?"}
    [] f.ty = "str" -> {"", "invalid", ToString(f.len - 1), ToString(f.len)}
                          \cup (IF t = "SystemMsgV1" THEN SystemTexts ELSE {})
    [] f.name = "levels" -> {"default"}
    [] OTHER -> {"0", "?"} \cup {TypeMax[u] : u \in DOMAIN TypeMax \cap {f.ty}}

Receive(t) ==
  /\ Idle
  /\ \E rt \in has_rtype[t], args \in {Arguments(t, AllNames(t))}, n \in FieldNames(t) :
       \E v \in OddValues(t, FieldOf[t][n]) :
         /\ rec' = NewRecord(t, rt, n :> v,
                             [m \in DOMAIN args |-> PyConvert(t, m, args[m])])
         /\ given' = GivenBy(t, [m \in DOMAIN args \ {n} |-> args[m]])
         /\ odd' = n
         /\ UNCHANGED <<sets, word>>

-----------------------------------------------------------------------------
(* What happens to a record.                                               *)

(* Assigning a property of the Python class. *)
PyAssign ==
  /\ Holds
  /\ sets < MaxSets
  /\ \E n \in PyWritable(rec.ty) \ DOMAIN given : \E arg \in {Argument(rec.ty, n)} :
       /\ rec' = PySet(rec, n, arg)
       /\ given' = given @@ GivenBy(rec.ty, n :> arg)
       /\ odd' = IF odd = n THEN "none" ELSE odd
  /\ sets' = sets + 1
  /\ UNCHANGED word

(* WithTsOut::new. *)
AddTsOut ==
  /\ Holds
  /\ rec.ts_out = NoTsOut
  /\ rec' = WithTsOut(rec, "ts_out")
  /\ UNCHANGED <<given, odd, sets, word>>

(* From<&v1::T> for v2::T and so on; a send timestamp is kept. *)
Upgraded(new) ==
  /\ rec' = IF rec.ts_out = NoTsOut THEN new ELSE WithTsOut(new, rec.ts_out)
  /\ given' = [n \in DOMAIN given \cap AllNames(new.ty) |-> given[n]]
  /\ odd' = IF odd \in AllNames(new.ty) THEN odd ELSE "none"
  /\ UNCHANGED <<sets, word>>

UpgradeToV2 == Holds /\ rec.ty \in ToV2 /\ Upgraded(AsV2(rec))
UpgradeToV3 == Holds /\ rec.ty \in ToV3 /\ Upgraded(AsV3(rec))

-----------------------------------------------------------------------------
(* Parsing an enum in Python: its value, or a text in any of the styles.   *)
Styles == {"snake", "SNAKE", "kebab"}

ParseValue ==
  /\ Idle
  /\ \E k \in DOMAIN PyEnums :
       LET e == PyEnums[k]
       IN \E x \in CASE e.kind = "char" -> {<<e.raw[v], high>> : v \in DOMAIN e.raw,
                                                                  high \in {0, 1}}
                     [] e.kind = "int"  -> {e.raw[v] : v \in DOMAIN e.raw} \cup {254}
                     [] e.kind = "text" -> {<<e.as_str[v], s>> : v \in DOMAIN e.as_str,
                                                                 s \in Styles} :
            word' = <<k, PyNewEnum(e, x)>>
  /\ UNCHANGED <<rec, given, odd, sets>>

ParseName ==
  /\ Idle
  /\ \E k \in {j \in DOMAIN PyEnums : PyEnums[j].text # NoText} :
       \E v \in DOMAIN PyEnums[k].name, s \in Styles :
         word' = <<k, PyFromText(PyEnums[k], <<PyEnums[k].name[v], s>>)>>
  /\ UNCHANGED <<rec, given, odd, sets>>

Create ==
  \/ \E t \in RecordTypes : Default(t)
  \/ NewError \/ NewSystem \/ NewSymbolMapping
  \/ \E t \in DOMAIN PyNew : PyNewAction(t) \/ PyNewLongText(t)
  \/ \E t \in RecordTypes : Receive(t)

Next == Create \/ PyAssign \/ AddTsOut \/ UpgradeToV2 \/ UpgradeToV3 \/ ParseValue \/ ParseName

Spec == Init /\ [][Next]_vars

-----------------------------------------------------------------------------
(* Properties.                                                             *)

(* The record has a value for every visible field of its type, its length  *)
(* and rtype are those of the type, and only its own fields were given.    *)
TypeOK ==
  /\ sets \in 0..MaxSets
  /\ Holds =>
       /\ DOMAIN rec.val = AllNames(rec.ty)
       /\ rec.rtype \in has_rtype[rec.ty]
       /\ record_size(rec) = IF rec.ts_out = NoTsOut THEN SizeOf(rec.ty)
                             ELSE WithTsOutSize(rec.ty)
       /\ DOMAIN given \subseteq AllNames(rec.ty)
       /\ odd \in AllNames(rec.ty) \cup {"none"}

(* Whatever an application or a publisher gave to a field is read back the *)
(* same, from Rust and from Python, through constructors, setters, a send  *)
(* timestamp and conversions to newer versions: no argument lands in       *)
(* another field, no text is cut, no field is dropped by a conversion.     *)
ReadBack ==
  Holds => \A n \in DOMAIN given :
    /\ IF n \in HeaderNames THEN rec.val[n] = given[n] ELSE RustRead(rec, n) = given[n]
    /\ n \in PyReadable(rec.ty) => PyRead(rec, n) = given[n]

(* A field nobody gave a value to has the default of the record's type:    *)
(* the arguments a Python constructor leaves out, the fields a conversion  *)
(* adds and those a Rust constructor does not set agree with Default.  The *)
(* code of a system message converted from version 1 comes from its text.  *)
UnsetIsDefault ==
  Holds => \A n \in FieldNames(rec.ty) \ (DOMAIN given \cup {odd}) :
    \/ rec.val[n] = Defaults[rec.ty][n]
    \/ rec.ty = "SystemMsg" /\ n \in {"code", "msg"}
    \/ rec.ty \in {"ErrorMsg", "ErrorMsgV1"} /\ n = "err"
    \/ rec.ty = "SystemMsgV1" /\ n = "msg"

(* From the rtype and the length alone every dispatch finds the type the   *)
(* record was made as, of the right version, and never panics: also with a *)
(* send timestamp, which makes a record of an old version longer, and      *)
(* after a conversion.  A newer, larger version is never read from it.     *)
DispatchFindsType ==
  Holds =>
    LET ts_out == rec.ts_out # NoTsOut
        newest == rec.ty \notin ToV3
    IN /\ rtype_dispatch(rec, ts_out) = rec.ty
       /\ rtype_dispatch(rec, FALSE) = rec.ty
       /\ RecordRefEnum_try_from(rec) = IF newest THEN rec.ty ELSE Err
       /\ \A t \in RecordTypes :
            try_get(rec, t, ts_out) # Err => SizeOf(t) <= SizeOf(rec.ty)
       /\ newest /\ RTypeConsts[rec.rtype] \in DOMAIN try_into_schema =>
            schema_dispatch_base[try_into_schema[RTypeConsts[rec.rtype]]] = rec.ty

(* Converting a definition of version 1 first to version 2 and then to     *)
(* version 3 gives the same record as converting it at once.               *)
UpgradePathsCommute ==
  Holds /\ rec.ty = "InstrumentDefMsgV1" => AsV3(AsV2(rec)) = AsV3(rec)

(* A conversion never changes whether a system message is a heartbeat,     *)
(* which version 1 tells by the text and later versions by the code.       *)
HeartbeatKept ==
  [][Holds /\ rec.ty = "SystemMsgV1" /\ rec'.ty = "SystemMsg"
       => is_heartbeat(rec') = is_heartbeat(rec)]_vars

AbsentInAll(f, v, rust, pretty) ==
  LET csv  == csv_write_field(f, v, TRUE)
      json == json_write_field(f, v, TRUE)
  IN /\ f.attr \in {"fixed_price", "unix_nanos"} =>
          f.name \in RecordMethods[rec.ty].parsed \cap PyClasses[rec.ty].pretty
     /\ f.attr = "fixed_price" =>
          /\ (rust = "NaN") = (v = UNDEF_PRICE)
          /\ (pretty = "NaN") = (v = UNDEF_PRICE)
          /\ (csv = "") = (v = UNDEF_PRICE)
          /\ (json = NULL) = (v = UNDEF_PRICE)
     /\ f.attr = "unix_nanos" =>
          /\ (rust = "None") = (v = UNDEF_TIMESTAMP)
          /\ (pretty = "None") = (v = UNDEF_TIMESTAMP)
          /\ (csv = "") = (v \in {"0", UNDEF_TIMESTAMP})
          /\ (json = NULL) = (v \in {"0", UNDEF_TIMESTAMP})

(* An undefined price or time is absent in every form: NaN or None in Rust *)
(* and in the pretty_ properties of Python, an empty cell in CSV, null in  *)
(* JSON; a defined one is never absent, but for the time 0 in a text.      *)
AbsentAgrees ==
  Holds => \A n \in FieldNames(rec.ty) :
    AbsentInAll(FieldOf[rec.ty][n], rec.val[n], RustRead(rec, n), PyPretty(rec, n))

Columns(cells) == [i \in DOMAIN cells |-> cells[i].col]

TextsAgree(csv, json, header) ==
  /\ Columns(csv) = header
  /\ Columns(json) = header
  /\ \A i \in DOMAIN csv :
       \/ csv[i].text = json[i].text
       \/ csv[i].text = "" /\ json[i].text = NULL

(* The CSV header names the cells of the row one by one, the Python field  *)
(* list and the JSON members have the same order, and CSV and JSON show    *)
(* the same texts, absent values apart.                                    *)
TextFormsAgree ==
  Holds =>
    /\ TextsAgree(serialize_to(rec, TRUE), to_json(rec, TRUE),
                  serialize_header(rec.ty, rec.ts_out # NoTsOut))
    /\ PyOrderedFields[rec.ty] = serialize_header(rec.ty, FALSE)

(* The numpy dtypes of a class, packed one after the other, put every      *)
(* field where the compiler's layout has it, with no byte left over: the   *)
(* bytes of a record can be read as an array row.                          *)
DtypesMatchLayout ==
  Holds => PackedOffsets[rec.ty] = Append(Layouts[rec.ty].offset, SizeOf(rec.ty))

(* Every variant a Python enum was parsed to has a value and a name that   *)
(* parse to it again, whatever the style of the text was; a schema and the *)
(* rtype of its records lead back to each other.                           *)
EnumsRoundTrip ==
  word # NoWord /\ word[2] # Err =>
    LET e == PyEnums[word[1]]
        v == word[2]
        value == IF e.kind = "char" THEN <<PyValue(e, v), 0>> ELSE PyValue(e, v)
    IN /\ PyNewEnum(e, value) = v
       /\ e.text # NoText => /\ PyFromText(e, <<e.name[v], "SNAKE">>) = v
                             /\ PyFromText(e, <<e.as_str[v], e.text>>) = v
       /\ word[1] = "RType" /\ v \in DOMAIN try_into_schema =>
            RTypeFromSchema[try_into_schema[v]] = v
       /\ word[1] = "Schema" /\ v # "Tbbo" => try_into_schema[RTypeFromSchema[v]] = v

=============================================================================
