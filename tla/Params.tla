------------------------------- MODULE Params -------------------------------
(***************************************************************************)
(* The parameters of AP_Param/AP_Param.cpp in the storage of module        *)
(* Storage: after a header, a list of records, each a key, a type and a    *)
(* value, ended by a sentinel.  Saving a parameter that is in the list     *)
(* overwrites its value; one that is not is put in the sentinel's place.   *)
(* A cell of the storage is a field of that layout, so a power loss may    *)
(* leave any part of a record in the file.                                 *)
(***************************************************************************)
EXTENDS Storage, FiniteSetsExt

CONSTANTS
    Magic,         \* the content of the EEPROM header
    Sentinel,      \* _sentinal_key, _sentinal_type, _sentinal_group
    Type,          \* the type of every parameter; any other content has type_size() 0
    Keys,          \* the keys of the parameters that are looked up by name
    FormatVersion, \* the key of format_version
    Version,       \* k_format_version
    Default,       \* the default value of a parameter
    Values         \* the values a parameter is set to

\* A cell tells what it holds: a part of a value is never taken for a key.  There is room for the
\* two headers.
ASSUME ParamAssumption ==
    /\ {Magic, Sentinel, Type, FormatVersion, Version} \cup Keys \cup Values \subseteq Data
    /\ ({Magic, Sentinel, Type, Version} \cup Values) \cap (Keys \cup {FormatVersion}) = {}
    /\ Size > 2

VARIABLES
    stored  \* history: the value each parameter had when image and file were last equal, with those
            \* it was saved with since; {} if it was not in the file then, or left behind its list

paramVars == <<storageVars, stored>>

ParamKeys == Keys \cup {FormatVersion}

HeaderSize  == 2                  \* sizeof(Param_header): key and type are cells
FirstRecord == 1                  \* sizeof(EEPROM_header)
Nowhere     == Size + HeaderSize  \* the offset 0xffff

type_size(type) == IF type = Type THEN 1 ELSE 0

\* Either field is enough, "for robustness against power off while adding a variable".
IsSentinel(buf, ofs) == buf[ofs] = Sentinel \/ buf[ofs + 1] = Sentinel

\* scan() and load_all() go from record to record up to the sentinel.
IsRecord(buf, ofs) == ofs + 1 < Size /\ ~IsSentinel(buf, ofs)
Behind(buf, ofs)   == ofs + type_size(buf[ofs + 1]) + HeaderSize

\* The offsets they come to, the one they end at included.
Visits(buf) ==
    LET from[ofs \in 0 .. Size + HeaderSize] ==
            IF IsRecord(buf, ofs) THEN {ofs} \cup from[Behind(buf, ofs)] ELSE {ofs}
    IN  from[FirstRecord]

\* The records, and where the sentinel is met.
Walk(buf)    == {ofs \in Visits(buf) : IsRecord(buf, ofs)}
WalkEnd(buf) == LET ofs == Max(Visits(buf)) IN IF ofs + 1 < Size THEN ofs ELSE Nowhere

Records(buf, key) == {ofs \in Walk(buf) : buf[ofs] = key /\ buf[ofs + 1] = Type}

\* scan() stops at the first record of the key; load_all() goes on, so that the last one counts.
\* A value that would lie behind the storage is not read.
IsFound(buf, key) == Records(buf, key) # {}
Scan(buf, key)    == Min(Records(buf, key))
load_all(buf, key) ==
    LET found == {ofs \in Records(buf, key) : ofs + HeaderSize < Size}
    IN  IF found # {} THEN buf[Max(found) + HeaderSize] ELSE Default

-----------------------------------------------------------------------------
write_sentinal(im, ofs) == WriteBlock(im, ofs, <<Sentinel, Sentinel>>)

\* What lies behind the sentinel is left as it is.
erase_all(im) == write_sentinal(WriteBlock(im, 0, <<Magic>>), FirstRecord)

\* defect: the value of a stored parameter is written to the offset of its record
HeaderAt(buf, key) == Scan(buf, key)

\* Where the value of a stored parameter is.
ValueAt(buf, key) == Scan(buf, key) + HeaderSize

\* save(): a value is overwritten in place; a default value, a list without an end and a full
\* storage are not written to; a new parameter writes sentinel, value and header, in this order.
Save(im, key, value) ==
    LET ofs == WalkEnd(im.buf)
    IN  CASE IsFound(im.buf, key) -> WriteBlock(im, ValueAt(im.buf, key), <<value>>)
          [] ~IsFound(im.buf, key) /\ ofs # Nowhere /\ value # Default
                /\ ofs + 1 + 2 * HeaderSize < Size ->
               WriteBlock(WriteBlock(write_sentinal(im, ofs + HeaderSize + 1),
                                     ofs + HeaderSize, <<value>>),
                          ofs, <<key, Type>>)
          [] OTHER -> im

\* setup() and load_parameters(): storage of another firmware is erased.
LoadParameters(im) ==
    LET checked == IF im.buf[0] = Magic THEN im ELSE erase_all(im)
    IN  IF load_all(checked.buf, FormatVersion) = Version
        THEN checked
        ELSE Save(erase_all(checked), FormatVersion, Version)

\* A key is left behind the end of the list by an older list, or by additions that a power loss cut
\* short: a later addition, cut short as well, would make the list run into it.
LeftBehind(buf, key) == \E c \in WalkEnd(buf) .. Size - 1 : buf[c] = key

\* The values to expect after a power loss, when the image is im and the file f: the parameters
\* saved by the step have one more.
Expect(im, f, key, saved) ==
    LET had == IF stored[key] # {} /\ key \in saved
               THEN stored[key] \cup {load_all(im.buf, key)} ELSE stored[key]
        now == IF IsFound(f, key) THEN {load_all(f, key)} ELSE {}
    IN  IF ~im.open \/ im.buf # f THEN had
        ELSE IF LeftBehind(f, key) THEN {}
        ELSE IF had = {} \/ (now # {} /\ now \subseteq had) THEN now ELSE had

ParamInit ==
    /\ StorageInit
    /\ stored = [key \in ParamKeys |-> {}]

Record(im, saved) == stored' = [key \in ParamKeys |-> Expect(im, file', key, saved)]

\* The vehicle starts: the parameters are the first to use the storage.
Boot ==
    /\ ~initialised
    /\ UNCHANGED <<file, thread, overtaken>>
    /\ \E im \in {LoadParameters(StorageOpen(image))} : SetImage(im) /\ Record(im, {})

\* set_and_save(), for the ground station.
SetAndSave(key, value) ==
    /\ initialised
    /\ UNCHANGED <<file, thread, overtaken>>
    /\ \E im \in {Save(image, key, value)} : SetImage(im) /\ Record(im, {key})

\* The steps of the storage thread.
Works(step) == step /\ IF file' = file THEN UNCHANGED stored ELSE Record(image, {})

PowerFails == PowerLoss /\ stored' = [key \in ParamKeys |-> {}]

ParamNext ==
    \/ Boot
    \/ \E key \in Keys, value \in Values : SetAndSave(key, value)
    \/ Works(TickSucceeds)
    \/ Works(TickFails)
    \/ PowerFails

\* The storage thread is scheduled every 10 ms.
ParamSpec ==
    /\ ParamInit /\ [][ParamNext]_paramVars
    /\ WF_storageVars(TickSucceeds)

-----------------------------------------------------------------------------
\* A parameter that was in the file keeps one of the values it has had since, wherever the power
\* fails: neither a save of it nor the addition of another one, written line by line and cell by
\* cell, loses it (AP_Param.cpp:687-762, 893-931).
StoredParametersSurvive ==
    \A key \in ParamKeys : stored[key] # {} =>
        IsFound(file, key) /\ load_all(file, key) \in stored[key]

\* Left alone by its users and by errors, the storage thread brings all to the file that no store
\* to the mask has overtaken (Storage.cpp:208-266).
AllIsWrittenInTheEnd ==
    <>[][TickSucceeds]_storageVars
        => <>[](\A c \in Cells : Differs(c) => LineOf(c) \in overtaken)

=============================================================================
