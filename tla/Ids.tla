--------------------------------- MODULE Ids ---------------------------------
(****************************************************************************)
(* The ID database of lsub: the names of vendors, devices and classes, read *)
(* from a file when the first one is asked for.  The environment is the     *)
(* rest of lsub, which names a file, asks, and cleans up; what the file     *)
(* holds is chosen when it is opened, so it may be installed, replaced or   *)
(* removed between two attempts to load it.                                 *)
(*                                                                          *)
(* A line of the file is a record: nest, the number of tabs; tag, the       *)
(* letter of a top-level line or the width of the number that a nested one  *)
(* starts with; id, that number; name, the text behind it.  "4+4" is a line *)
(* with two numbers, of which the code keeps the second.                    *)
(****************************************************************************)
EXTENDS Integers, Sequences

CONSTANTS
  Files,      \* the contents a file may have
  Query,      \* the vendor, device and class of the entities to be named
  Hash(_),    \* id_hash: the bucket of a key
  SUB_CONFIG  \* sub_id of the entries that are not about a subclass: 0xff

Lines == [nest : Nat, tag : STRING, id : Nat, name : STRING]

ASSUME FilesAssumption == Files \subseteq Seq(Lines)
ASSUME QueryAssumption ==
  Query \subseteq [vendor : Nat, device : Nat, base : Nat, sub : Nat]
ASSUME SubConfigAssumption == SUB_CONFIG \in Nat

NotFound == "NULL"
NoQuery == [vendor |-> 0, device |-> 0, base |-> 0, sub |-> 0]

VARIABLES
  table,     \* the entries of all buckets, the latest first
  hashed,    \* id_hash has been allocated
  idFile,    \* what id_file_name points to: "null", "static" or "heap"
  freeName,  \* free_id_name
  heap,      \* how many results of realpath are allocated
  lines,     \* the lines of the open file still to be read
  source,    \* history: the lines the last load took in
  ids,       \* ids_id, the numbers that the lines so far have left
  err,       \* what ended the last load, or "none"
  asked,     \* the query being answered
  shown,     \* the answers given
  db         \* "idle", "open", "parse", "answer" or "closed"

store == <<table, hashed>>
path == <<idFile, freeName, heap>>
parse == <<lines, source, ids, err>>
idsVars == <<store, path, parse, asked, shown, db>>

Cats == {"unset", "unknown", "vendor", "device", "subsystem", "gen_subsystem",
         "class", "subclass", "progif"}

(* The key of an entry: its category and six numbers.  subsys_id, which is  *)
(* 0 at all times, is left out; subsys is subsys_vendor_id.                 *)
Key == [cat : Cats, vendor : Nat, device : Nat, subsys : Nat, base : Nat, sub : Nat]

KeyOf(c, v, d, b, s) ==
  [cat |-> c, vendor |-> v, device |-> d, subsys |-> 0, base |-> b, sub |-> s]

IdsInit ==
  /\ table = <<>> /\ hashed = FALSE
  /\ idFile = "null" /\ freeName = FALSE /\ heap = 0
  /\ lines = <<>> /\ source = <<>> /\ err = "none"
  /\ ids = KeyOf("unset", 0, 0, 0, SUB_CONFIG)
  /\ asked = NoQuery /\ shown = <<>>
  /\ db = "idle"

----------------------------------------------------------------------------
Freed == IF freeName THEN 1 ELSE 0

(* ub_set_ids_file_path, for -i: the argument is not to be freed.           *)
SetIdsFilePath ==
  /\ db = "idle" /\ shown = <<>>
  /\ heap' = heap - Freed
  /\ idFile' = "static" /\ freeName' = FALSE
  /\ UNCHANGED <<store, parse, asked, shown, db>>

(* Mutant: the file is loaded again as long as loading has failed.          *)
MustLoad_UntilSuccess == ~hashed \/ err # "none"

(* ub_lookup_name loads the file while there is no table: for the first     *)
(* name, and for each one after a load that entered nothing.                *)
MustLoad == ~hashed

Ask(q) ==
  /\ db = "idle"
  /\ asked' = q
  /\ db' = IF MustLoad THEN "open" ELSE "answer"
  /\ UNCHANGED <<store, path, parse, shown>>

(* Mutant: the result of an earlier realpath is not freed.                  *)
Resolve_Leaks ==
  IF idFile = "null"
  THEN idFile' = "static" /\ UNCHANGED <<freeName, heap>>
  ELSE idFile' = "heap" /\ freeName' = TRUE /\ heap' = heap + 1

(* The default path is a constant; any other is made absolute, in memory    *)
(* that the database owns and frees when the next one replaces it.          *)
Resolve ==
  IF idFile = "null"
  THEN idFile' = "static" /\ UNCHANGED <<freeName, heap>>
  ELSE idFile' = "heap" /\ freeName' = TRUE /\ heap' = heap + 1 - Freed

(* ub_load_name_list on a file that holds f, and what makes it give up.     *)
Open(f) ==
  /\ db = "open"
  /\ Resolve
  /\ lines' = f /\ source' = <<>> /\ err' = "none"
  /\ ids' = KeyOf("unset", 0, 0, 0, SUB_CONFIG)
  /\ db' = "parse"
  /\ UNCHANGED <<store, asked, shown>>

PathFails ==
  /\ db = "open" /\ idFile # "null"
  /\ db' = "answer"
  /\ UNCHANGED <<store, path, parse, asked, shown>>

OpenFails ==
  /\ db = "open"
  /\ Resolve
  /\ db' = "answer"
  /\ UNCHANGED <<store, parse, asked, shown>>

----------------------------------------------------------------------------
(* ub_id_lookup: the first of the entries with this key.                    *)
Matches(k) == {n \in DOMAIN table : table[n].key = k}

Lookup(k) ==
  IF Matches(k) = {} THEN NotFound
  ELSE table[CHOOSE n \in Matches(k) : \A m \in Matches(k) : n <= m].name

(* ub_id_insert goes along the bucket's chain to an entry that differs in   *)
(* nothing, but compares base and sub with 0 instead of the key's own.      *)
Duplicate(k) ==
  \E n \in DOMAIN table :
    /\ Hash(table[n].key) = Hash(k)
    /\ table[n].key = [k EXCEPT !.base = 0, !.sub = 0]

----------------------------------------------------------------------------
(* The line being read.  What a nested line means depends on the category   *)
(* that the lines before it have left.                                      *)
Line == Head(lines)
Reading == db = "parse" /\ lines # <<>>
TopLevel(tag) == Line.nest = 0 /\ Line.tag = tag
Nested(n, tag, cats) == Line.nest = n /\ Line.tag = tag /\ ids.cat \in cats

AfterVendor == {"vendor", "device", "subsystem"}
AfterClass == {"class", "subclass", "progif"}

(* The line has its effect on ids and is done with.                         *)
Advance(i) ==
  /\ ids' = i
  /\ source' = Append(source, Line) /\ lines' = Tail(lines)
  /\ UNCHANGED <<path, err, asked, shown, db>>

(* The load ends here, and the entries made so far stay.                    *)
EndLoad(e) ==
  /\ err' = e /\ lines' = <<>>
  /\ db' = "answer"
  /\ UNCHANGED <<path, source, asked, shown>>

Refuse(e) == EndLoad(e) /\ UNCHANGED <<store, ids>>

(* A comment or blank line, and anything in a block of unknown kind.        *)
Ignored ==
  /\ Reading
  /\ \/ Line.tag = "#"
     \/ Line.nest > 0 /\ Line.tag # "long" /\ ids.cat = "unknown"
  /\ Advance(ids)
  /\ UNCHANGED store

Insert(i) ==
  /\ Line.name # "" /\ ~Duplicate(i)
  /\ table' = <<[key |-> i, name |-> Line.name]>> \o table
  /\ hashed' = TRUE
  /\ Advance(i)

(* No name, a name that is refused, or no memory for the hash or the entry. *)
InsertFails(i) ==
  /\ \/ Line.name = "" /\ EndLoad("Parse error") /\ UNCHANGED hashed
     \/ Line.name # "" /\ Duplicate(i) /\ EndLoad("Duplicate item") /\ UNCHANGED hashed
     \/ /\ Line.name # "" /\ ~Duplicate(i)
        /\ EndLoad("memory application failed")
        /\ hashed' \in {hashed, TRUE}
  /\ ids' = i
  /\ UNCHANGED table

Take(i) == Insert(i) \/ InsertFails(i)

(* The top-level lines of ids_parse_top_level.                              *)
ClassLine ==
  Reading /\ TopLevel("C") /\ Take(KeyOf("class", 0, 0, Line.id, SUB_CONFIG))

VendorLine ==
  Reading /\ TopLevel("V") /\ Take(KeyOf("vendor", Line.id, 0, 0, SUB_CONFIG))

(* The vendor of a subsystem block is looked for with the sub_id that the   *)
(* last line has left.                                                      *)
SubsystemLine ==
  /\ Reading /\ TopLevel("S")
  /\ IF Lookup(KeyOf("vendor", Line.id, 0, 0, ids.sub)) # NotFound
     THEN /\ Advance(KeyOf("gen_subsystem", Line.id, 0, 0, ids.sub))
          /\ UNCHANGED store
     ELSE Refuse("Vendor does not exist")

UnrecognizedLine ==
  /\ Reading /\ TopLevel("X")
  /\ Advance([ids EXCEPT !.cat = "unknown", !.base = 0])
  /\ UNCHANGED store

(* Mutant: the subsystem of the line before is kept.                        *)
DeviceOf_KeepsSubsys(i) == [i EXCEPT !.device = Line.id, !.base = 0, !.sub = SUB_CONFIG]

DeviceOf(i) ==
  [i EXCEPT !.device = Line.id, !.subsys = 0, !.base = 0, !.sub = SUB_CONFIG]

(* The lines of ids_parse_nest_level1.                                      *)
DeviceLine ==
  /\ Reading /\ Nested(1, "4", AfterVendor)
  /\ Take([DeviceOf(ids) EXCEPT !.cat = "device"])

SubsystemDeviceLine ==
  Reading /\ Nested(1, "4", {"gen_subsystem"}) /\ Take(DeviceOf(ids))

SubclassLine ==
  /\ Reading /\ Nested(1, "2", {"class"})
  /\ Take([ids EXCEPT !.sub = Line.id, !.subsys = 0])

(* Behind the line of a programming interface the number of a subclass goes *)
(* into device_id.                                                          *)
LaterSubclassLine ==
  /\ Reading /\ Nested(1, "2", {"subclass", "progif"})
  /\ Take([ids EXCEPT !.cat = "subclass", !.device = Line.id, !.subsys = 0])

(* The lines of ids_parse_nest_level2.                                      *)
SubsystemNameLine ==
  /\ Reading /\ Nested(2, "4+4", {"device", "subsystem"})
  /\ Take([ids EXCEPT !.cat = "subsystem", !.subsys = Line.id])

ProgIfLine ==
  /\ Reading /\ Nested(2, "2", AfterClass)
  /\ Take([ids EXCEPT !.cat = "progif", !.subsys = Line.id])

LineTooLong == Reading /\ Line.tag = "long" /\ Refuse("Line too long")

(* Any other line: a wrong number, a number of another width than the block *)
(* asks for, or a line outside all blocks or nested too deep.               *)
Malformed ==
  /\ Reading
  /\ Line.tag \notin {"#", "long"}
  /\ IF Line.nest = 0
     THEN Line.tag \notin {"C", "S", "X", "V"}
     ELSE /\ ids.cat # "unknown"
          /\ ~Nested(1, "4", AfterVendor \cup {"gen_subsystem"})
          /\ ~Nested(1, "2", AfterClass)
          /\ ~Nested(2, "4+4", {"device", "subsystem"})
          /\ ~Nested(2, "2", AfterClass)
  /\ Refuse("Parse error")

Loaded ==
  /\ db = "parse" /\ lines = <<>>
  /\ db' = "answer"
  /\ UNCHANGED <<store, path, parse, asked, shown>>

ReadFails == db = "parse" /\ Refuse("I/O error")

ParseLine ==
  \/ Ignored \/ ClassLine \/ VendorLine \/ SubsystemLine \/ UnrecognizedLine
  \/ DeviceLine \/ SubsystemDeviceLine \/ SubclassLine \/ LaterSubclassLine
  \/ SubsystemNameLine \/ ProgIfLine \/ LineTooLong \/ Malformed

----------------------------------------------------------------------------
SubKey(q) == KeyOf("class", 0, 0, q.base, q.sub)
BaseKey(q) == KeyOf("class", 0, 0, q.base, SUB_CONFIG)
DeviceKey(q) == KeyOf("device", q.vendor, q.device, 0, SUB_CONFIG)
VendorKey(q) == KeyOf("vendor", q.vendor, 0, 0, SUB_CONFIG)

(* format_name_pair: a subclass is only named together with its class.      *)
FormatNamePair(sub, base, device, vendor) ==
  [class  |-> IF sub # NotFound /\ base # NotFound THEN sub ELSE base,
   vendor |-> vendor,
   device |-> device]

(* Mutant: the subclass is looked for after sub_id was set to SUB_CONFIG.   *)
NameOf_SubLate(q) ==
  FormatNamePair(Lookup(BaseKey(q)), Lookup(BaseKey(q)),
                 Lookup(DeviceKey(q)), Lookup(VendorKey(q)))

NameOf(q) ==
  FormatNamePair(Lookup(SubKey(q)), Lookup(BaseKey(q)),
                 Lookup(DeviceKey(q)), Lookup(VendorKey(q)))

Answer ==
  /\ db = "answer"
  /\ shown' = Append(shown, [query |-> asked, answer |-> NameOf(asked)])
  /\ db' = "idle"
  /\ UNCHANGED <<store, path, parse, asked>>

(* ub_free_ids_hash, and what sysfs_ub_cleanup does about the path.         *)
FreeIds ==
  /\ db = "idle"
  /\ table' = <<>> /\ hashed' = FALSE
  /\ heap' = heap - Freed
  /\ idFile' = IF freeName THEN "null" ELSE idFile
  /\ freeName' = FALSE
  /\ db' = "closed"
  /\ UNCHANGED <<parse, asked, shown>>

(* The steps that ub_lookup_name takes by itself once it is called.         *)
LookupName ==
  \/ \E f \in Files : Open(f)
  \/ PathFails \/ OpenFails \/ ParseLine \/ Loaded \/ ReadFails \/ Answer

IdsNext ==
  \/ SetIdsFilePath
  \/ \E q \in Query : Ask(q)
  \/ LookupName
  \/ FreeIds

IdsSpec == IdsInit /\ [][IdsNext]_idsVars

----------------------------------------------------------------------------
Errors ==
  {"none", "I/O error", "Line too long", "Parse error", "Vendor does not exist",
   "Duplicate item", "memory application failed"}

(* Types, and the memory of the path: what realpath returned is owned by    *)
(* the database, there is at most one at a time, and after the cleanup none *)
(* is left, however often the load was tried.                               *)
IdsTyped ==
  /\ table \in Seq([key : Key, name : STRING])
  /\ hashed \in BOOLEAN
  /\ idFile \in {"null", "static", "heap"} /\ freeName \in BOOLEAN
  /\ lines \in Seq(Lines) /\ source \in Seq(Lines)
  /\ ids \in Key /\ err \in Errors
  /\ db \in {"idle", "open", "parse", "answer", "closed"}

PathOwned ==
  /\ freeName <=> idFile = "heap"
  /\ heap = Freed
  /\ db = "closed" => heap = 0

(* The reference: what a file says, read as blocks.  A nested line belongs  *)
(* to the last top-level line before it that is not a comment.              *)
In(f, n, tag, id) ==
  \E m \in 1 .. n - 1 :
    /\ f[m].nest = 0 /\ f[m].tag = tag /\ f[m].id = id
    /\ \A k \in m + 1 .. n - 1 : f[k].nest = 0 => f[k].tag = "#"

At(f, nest, tag, id) ==
  {n \in DOMAIN f : f[n].nest = nest /\ f[n].tag = tag /\ f[n].id = id}

LastName(f, S) ==
  IF S = {} THEN NotFound ELSE f[CHOOSE n \in S : \A m \in S : m <= n].name

Says(f, q) ==
  FormatNamePair(
    LastName(f, {n \in At(f, 1, "2", q.sub) : In(f, n, "C", q.base)}),
    LastName(f, At(f, 0, "C", q.base)),
    LastName(f, {n \in At(f, 1, "4", q.device) : In(f, n, "V", q.vendor)}),
    LastName(f, At(f, 0, "V", q.vendor)))

(* A file whose subclasses come before the programming interfaces of their  *)
(* class, and none of which has the number SUB_CONFIG.                      *)
Regular(f) ==
  \A n \in DOMAIN f :
    f[n].nest = 1 /\ f[n].tag = "2" =>
      /\ f[n].id # SUB_CONFIG
      /\ \A m \in 1 .. n - 1 :
           f[m].nest = 2 => \E k \in m + 1 .. n - 1 : f[k].nest = 0 /\ f[k].tag # "#"

(* Each answer is what the file says, as far as it could be read: no number *)
(* that a line has left in ids_id makes a later line mean something else.   *)
NamesFollowFile ==
  db = "idle" /\ shown # <<>> /\ Regular(source) =>
    LET last == shown[Len(shown)] IN last.answer = Says(source, last.query)

(* A query that found a name is answered with it ever after: the load is    *)
(* not tried again, and a file replaced in the meantime changes nothing.    *)
AnswersStable ==
  \A m, n \in DOMAIN shown :
    /\ m < n /\ shown[m].query = shown[n].query
    /\ shown[m].answer # FormatNamePair(NotFound, NotFound, NotFound, NotFound)
    => shown[m].answer = shown[n].answer

(* "Duplicate item" (ids.c:455): the load refuses an item because it is     *)
(* there already.                                                           *)
OnlyDuplicatesRefused ==
  err = "Duplicate item" /\ db # "closed" => \E n \in DOMAIN table : table[n].key = ids

(* The refinement: the chains are a map, in which an entry hides those that *)
(* were made before it.                                                     *)
Names == [k \in {table[n].key : n \in DOMAIN table} |-> Lookup(k)]

Get(m, k) == IF k \in DOMAIN m THEN m[k] ELSE NotFound

Answered(m, q) ==
  FormatNamePair(Get(m, SubKey(q)), Get(m, BaseKey(q)),
                 Get(m, DeviceKey(q)), Get(m, VendorKey(q)))

Map == INSTANCE NameMap WITH names <- Names

MapSpec == Map!Spec
=============================================================================
