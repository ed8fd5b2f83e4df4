----------------------------- MODULE FileSystem -----------------------------
(***************************************************************************)
(* The file system (fs.c): a tree of nodes in memory, which save copies to *)
(* the disk and fs_init reads back when the machine starts.                *)
(*                                                                         *)
(* A save writes a sector for each file that has data, in the order of a   *)
(* walk through the tree, and the table of entries last.  The machine may  *)
(* stop between two sectors; one sector is written or not.  The table is   *)
(* longer than a sector: of its MAX_DISK_NODES entries (16 of 52 bytes) a  *)
(* sector holds Whole (9), and of the next one all but size and            *)
(* data_sector.  What fs_init reads beyond is its stack, which nothing has *)
(* set: any of Junk.                                                       *)
(*                                                                         *)
(* Entries and their sectors are numbered from 1, and so are the nodes     *)
(* that fs_init makes of them; 0 is no node.  A file's data is a text and  *)
(* the number of its bytes that the node has: the sector holds the text,   *)
(* the table the size.  No tick touches any of this, and no command of the *)
(* shell begins before the last one has ended.                             *)
(***************************************************************************)
EXTENDS Integers, SequencesExt

CONSTANTS
  MAX_DISK_NODES,  \* (16)
  Whole,           \* (9)
  MaxNodes,        \* nodes there is memory for
  Names,           \* the names that are typed
  Stored,          \* what create_node keeps of a name: 31 characters
  Texts,           \* the texts that are typed
  Size,            \* how long each of them is
  MaxCommands,     \* bound: commands that are typed
  Junk             \* entries, as fs_init may find them on its stack

ASSUME FileSystemAssumption ==
  /\ {MAX_DISK_NODES, Whole, MaxNodes} \subseteq Nat \ {0}
  /\ Whole < MAX_DISK_NODES /\ MAX_DISK_NODES <= MaxNodes
  /\ Stored \in [Names -> Names] /\ \A name \in Names : Stored[Stored[name]] = Stored[name]
  /\ Size \in [Texts -> Nat \ {0}]

VARIABLES
  nodes,        \* the nodes in memory
  current_dir,
  disk,         \* the table, empty if there is none, and the data sectors
  pc,           \* "booted", "prompt" or "save"
  written,      \* the last data sector the current save has written
  promised,     \* the entries of the last save that was said to be done
  attempted,    \* texts written to each data sector since
  typed,        \* how many commands were typed
  clean         \* nothing in the tree comes from the stack of fs_init

vars == <<nodes, current_dir, disk, pc, written, promised, attempted, typed, clean>>
history == <<promised, attempted, typed, clean>>

Entries == 1 .. MAX_DISK_NODES
NoData == [text |-> "none", size |-> 0]
Unused == [name |-> "none", type |-> "FS_FILE", parent |-> 0, data |-> NoData]
root == 1

(* An entry is what fs_init makes of what it finds: only a file has data.  *)
ASSUME JunkAssumption ==
  \A e \in Junk :
    /\ e.type \in {"FS_FILE", "FS_DIRECTORY"}
    /\ e.data = NoData \/ (e.type = "FS_FILE" /\ e.data.size \in Nat \ {0})

(* Mutant: the name is kept whole.                                         *)
Kept_Whole(name) == name

Kept(name) == IF name \in DOMAIN Stored THEN Stored[name] ELSE name

(* create_node.                                                            *)
Node(name, type, parent) ==
  [name |-> Kept(name), type |-> type, data |-> NoData, parent |-> parent, children |-> <<>>]

NewRoot == [n \in {root} |-> Node("root", "FS_DIRECTORY", 0)]

Init ==
  /\ nodes = NewRoot
  /\ current_dir = root
  /\ disk = [table |-> <<>>, sectors |-> [i \in Entries |-> "none"]]
  /\ pc = "booted" /\ written = 0
  /\ promised = <<>> /\ attempted = [i \in Entries |-> {}]
  /\ typed = 0 /\ clean = TRUE

----------------------------------------------------------------------------
(* Commands.  One that finds no memory or no such name changes nothing.    *)
Command ==
  /\ pc # "save" /\ typed < MaxCommands
  /\ pc' = "prompt" /\ typed' = typed + 1
  /\ UNCHANGED <<disk, written, promised, attempted, clean>>

Listed == nodes[current_dir].children

Spare == (1 .. MaxNodes) \ DOMAIN nodes

AddNode(name, type) ==
  LET new == Min(Spare)
  IN  /\ Spare # {}
      /\ nodes' = [n \in DOMAIN nodes \cup {new} |->
           IF n = new THEN Node(name, type, current_dir)
           ELSE IF n = current_dir THEN [nodes[n] EXCEPT !.children = <<new>> \o @]
           ELSE nodes[n]]
      /\ UNCHANGED current_dir

Mkdir(name) == Command /\ AddNode(name, "FS_DIRECTORY")

CreateFile(name) ==
  /\ Command
  /\ \A i \in DOMAIN Listed : nodes[Listed[i]].name # name
  /\ AddNode(name, "FS_FILE")

(* The first node of the current directory that has the name, and is of    *)
(* one of the types.                                                       *)
Find(name, types) ==
  SelectInSeq(Listed, LAMBDA n : nodes[n].name = name /\ nodes[n].type \in types)

Cd(name) ==
  /\ Command
  /\ \E i \in {Find(name, {"FS_DIRECTORY"})} \ {0} : current_dir' = Listed[i]
  /\ UNCHANGED nodes

CdUp ==
  /\ Command
  /\ nodes[current_dir].parent # 0
  /\ current_dir' = nodes[current_dir].parent
  /\ UNCHANGED nodes

(* Target is node, its parent, the parent of that, and so on: it is in     *)
(* every set that holds node and the parents of its members.               *)
HasParents(S) == \A n \in S : nodes[n].parent # 0 => nodes[n].parent \in S

IsParentOf(target, node) ==
  \A S \in SUBSET DOMAIN nodes : node \in S /\ HasParents(S) => target \in S

(* Mutant: the children are not freed.                                     *)
FreeNode_NotItsChildren(top) == {top}

(* free_node_recursive: it frees top, its children, the children of those, *)
(* and so on.                                                              *)
HasChildren(S) == \A n \in S : Range(nodes[n].children) \subseteq S

FreeNode(top) ==
  {n \in DOMAIN nodes :
     \A S \in SUBSET DOMAIN nodes : top \in S /\ HasChildren(S) => n \in S}

Rm(name) ==
  /\ Command
  /\ name # "root"
  /\ \E i \in {Find(name, {"FS_FILE", "FS_DIRECTORY"})} \ {0} :
       /\ ~IsParentOf(Listed[i], current_dir)
       /\ nodes' = [n \in DOMAIN nodes \ FreeNode(Listed[i]) |->
            IF n = current_dir THEN [nodes[n] EXCEPT !.children = RemoveAt(@, i)]
            ELSE nodes[n]]
  /\ UNCHANGED current_dir

(* The old data is freed first: if there is no memory, the file is empty.  *)
WriteFile(name, text) ==
  /\ Command
  /\ \E i \in {Find(name, {"FS_FILE"})} \ {0},
        data \in {[text |-> text, size |-> Size[text]], NoData} :
       nodes' = [nodes EXCEPT ![Listed[i]].data = data]
  /\ UNCHANGED current_dir

----------------------------------------------------------------------------
(* fs_save_to_disk.  serialize_node walks through the tree, each node      *)
(* before its children and what is under them, and stops at the end of the *)
(* table.                                                                  *)
Visit(walk) ==
  IF walk.next = <<>> THEN walk
  ELSE [done |-> Append(walk.done, Head(walk.next)),
        next |-> nodes[Head(walk.next)].children \o Tail(walk.next)]

Order ==
  LET walk[i \in 0 .. MaxNodes] ==
        IF i = 0 THEN [done |-> <<>>, next |-> <<root>>] ELSE Visit(walk[i - 1])
  IN  walk[MaxNodes].done

Serialized == SubSeq(Order, 1, Min({Len(Order), MAX_DISK_NODES}))

ParentIdx(n) == SelectInSeq(Order, LAMBDA p : p = nodes[n].parent)

Save ==
  /\ pc # "save" /\ typed < MaxCommands
  /\ pc' = "save" /\ written' = 0 /\ typed' = typed + 1
  /\ UNCHANGED <<nodes, current_dir, disk, promised, attempted, clean>>

Pending == {i \in DOMAIN Serialized : i > written /\ nodes[Serialized[i]].data # NoData}

SaveSector ==
  /\ pc = "save"
  /\ \E i \in Pending :
       /\ i = Min(Pending)
       /\ written' = i
       /\ disk' = [disk EXCEPT !.sectors[i] = nodes[Serialized[i]].data.text]
       /\ attempted' = [attempted EXCEPT ![i] = @ \cup {nodes[Serialized[i]].data.text}]
  /\ UNCHANGED <<nodes, current_dir, pc, promised, typed, clean>>

(* The table is written, and the shell says that everything is saved.      *)
TableWritten ==
  /\ disk' = [disk EXCEPT !.table = [i \in DOMAIN Serialized |->
       LET n == Serialized[i]
       IN  [name |-> nodes[n].name, type |-> nodes[n].type, parent |-> ParentIdx(n),
            size |-> nodes[n].data.size]]]
  /\ promised' = [i \in DOMAIN Order |->
       LET n == Order[i]
       IN  [name |-> nodes[n].name, type |-> nodes[n].type, parent |-> ParentIdx(n),
            data |-> nodes[n].data]]
  /\ attempted' = [i \in Entries |-> {}]
  /\ pc' = "prompt"
  /\ UNCHANGED <<nodes, current_dir, written, typed, clean>>

(* Mutant: the table is written before the data.                           *)
SaveTable_First == pc = "save" /\ written = 0 /\ TableWritten

SaveTable == pc = "save" /\ Pending = {} /\ TableWritten

----------------------------------------------------------------------------
(* fs_init: the entries it sees, loose being what is on its stack.         *)
DataOf(i) ==
  IF disk.table[i].type = "FS_FILE" /\ disk.table[i].size > 0
  THEN [text |-> disk.sectors[i], size |-> disk.table[i].size]
  ELSE NoData

Read(loose, i) ==
  IF i > Whole + 1 THEN loose[i]
  ELSE IF i > Len(disk.table) THEN Unused
  ELSE [name |-> disk.table[i].name, type |-> disk.table[i].type,
        parent |-> disk.table[i].parent,
        data |-> IF i <= Whole THEN DataOf(i)
                 ELSE IF disk.table[i].type = "FS_FILE" THEN loose[i].data ELSE NoData]

(* Node i is put before the other children of its parent p.                *)
Linked(tree, i, p) ==
  [n \in DOMAIN tree |->
     [tree[n] EXCEPT !.parent   = IF n = i THEN p ELSE tree[n].parent,
                     !.children = IF n = p THEN <<i>> \o tree[n].children
                                  ELSE tree[n].children]]

(* A node is made of each entry in use, and then put under its parent.     *)
Loaded(loose) ==
  LET used == {i \in Entries : Read(loose, i) # Unused}
      tree[i \in Entries] ==
        IF i = root
        THEN [n \in used |->
               [name |-> Read(loose, n).name, type |-> Read(loose, n).type,
                data |-> Read(loose, n).data, parent |-> 0, children |-> <<>>]]
        ELSE IF {i, Read(loose, i).parent} \subseteq used
        THEN Linked(tree[i - 1], i, Read(loose, i).parent)
        ELSE tree[i - 1]
  IN  tree[MAX_DISK_NODES]

(* The machine stops, whatever it was doing, and is started again.         *)
Restart ==
  /\ \E loose \in [Whole + 1 .. MAX_DISK_NODES -> Junk] :
       IF disk.table = <<>> THEN nodes' = NewRoot /\ clean' = TRUE
       ELSE /\ nodes' = Loaded(loose)
            /\ clean' = (/\ Len(disk.table) <= Whole
                         /\ \A i \in Whole + 2 .. MAX_DISK_NODES : loose[i] = Unused)
  /\ current_dir' = root
  /\ pc' = "booted" /\ written' = 0
  /\ UNCHANGED <<disk, promised, attempted, typed>>

Commands ==
  \/ \E name \in Names :
       \/ Mkdir(name) \/ CreateFile(name) \/ Cd(name) \/ Rm(name)
       \/ \E text \in Texts : WriteFile(name, text)
  \/ CdUp

Saving == Save \/ SaveSector \/ SaveTable

Next == Commands \/ Saving \/ Restart

Spec == Init /\ [][Next]_vars

(* The machine is only switched off while the shell waits for a command.   *)
CalmSpec == Init /\ [][Commands \/ Saving \/ (pc # "save" /\ Restart)]_vars

----------------------------------------------------------------------------
(* Types.  Names in the tree are names that create_node keeps: typing one  *)
(* of the longer names never puts it there whole.                          *)
TypeOK ==
  /\ DOMAIN nodes \subseteq 1 .. MaxNodes /\ current_dir \in DOMAIN nodes
  /\ \A n \in DOMAIN nodes :
       /\ nodes[n].name \in {"root"} \cup Range(Stored) \cup {e.name : e \in Junk}
       /\ nodes[n].type \in {"FS_FILE", "FS_DIRECTORY"}
       /\ nodes[n].data # NoData =>
            nodes[n].type = "FS_FILE" /\ nodes[n].data.size > 0
  /\ pc \in {"booted", "prompt", "save"} /\ written \in 0 .. MAX_DISK_NODES
  /\ Len(disk.table) <= MAX_DISK_NODES

(* What the pointers of a tree say of each other, in whatever order nodes  *)
(* are made, removed with all that is under them, and read back: a node's  *)
(* children are allocated, are listed once, and name it as their parent;   *)
(* the root is nobody's child; the root can be reached from the current    *)
(* directory, and every node from the root (none leaks) unless it came     *)
(* from the stack of fs_init.                                              *)
TreeSound ==
  /\ nodes[root].parent = 0
  /\ \A n \in DOMAIN nodes :
       LET children == nodes[n].children
       IN  /\ IsInjective(children) /\ Range(children) \subseteq DOMAIN nodes \ {root}
           /\ \A i \in DOMAIN children : nodes[children[i]].parent = n
           /\ nodes[n].parent # 0 =>
                /\ nodes[n].parent \in DOMAIN nodes
                /\ n \in Range(nodes[nodes[n].parent].children)
  /\ IsParentOf(root, current_dir)
  /\ clean => \A n \in DOMAIN nodes : IsParentOf(root, n)

(* What fs_init makes of the disk, wherever the machine was stopped: every *)
(* entry of the last finished save that is whole in the sector has its     *)
(* name, its type, its parent and its size again, and its bytes come from  *)
(* that save or from one that was cut short since; with no such save there *)
(* is the root alone.  Nothing else is there unless the stack put it.      *)
RestartRestores ==
  pc = "booted" =>
    /\ promised = <<>> => nodes = NewRoot
    /\ \A i \in DOMAIN promised : i <= Whole =>
         /\ i \in DOMAIN nodes
         /\ <<nodes[i].name, nodes[i].type, nodes[i].parent, nodes[i].data.size>>
              = <<promised[i].name, promised[i].type, promised[i].parent,
                  promised[i].data.size>>
         /\ nodes[i].data.text \in {promised[i].data.text} \cup attempted[i]
    /\ clean /\ promised # <<>> => DOMAIN nodes = DOMAIN promised

(* "Structura si datele au fost salvate pe disc": what save has reported   *)
(* as saved is there again when the machine is started (fs.c:200).         *)
SavedIsLoaded ==
  pc = "booted" => \A i \in DOMAIN promised :
    i \in DOMAIN nodes /\ [name |-> nodes[i].name, type |-> nodes[i].type,
      parent |-> nodes[i].parent, data |-> nodes[i].data] = promised[i]

=============================================================================
