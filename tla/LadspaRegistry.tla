--------------------------- MODULE LadspaRegistry ---------------------------
(***************************************************************************)
(* The registry of LADSPA types and what init_jack and init_dsp ask of the *)
(* config file: the plug-in files are opened one after the other, their    *)
(* types are registered by id and name, and the chains' effects are made   *)
(* from the types that the config names.  Whatever is wrong throws, and    *)
(* nothing catches it: start-up ends where it is, half done as it may be.  *)
(*                                                                         *)
(* All of this happens in the main thread, and nobody else looks at the    *)
(* registry.                                                               *)
(***************************************************************************)
EXTENDS Integers, Sequences

CONSTANTS
  File,         \* paths of plug-in files
  Name,         \* names of LADSPA types
  Libraries,    \* what may be installed: the descriptors in each file
  Unloadable,   \* the content of a file that dlopen or dlsym fails on
  Documents,    \* the config files considered
  Absent,       \* a section that the config file does not have
  Malformed,    \* a section that is not of the kind the program wants
  MessageLength \* of the text "attempt to register duplicated id: "

Descriptor == [id : Nat, name : Name]

\* The sections of a config file, with the routes and chains cut down to what
\* is used here: the types of all effects.
Document ==
  [routes  : {"some", Absent},
   plugins : Seq(File) \union {Absent, Malformed},
   effects : Seq(Name) \union {Absent, Malformed}]

ASSUME RegistryAssumption ==
  /\ Libraries \subseteq [File -> Seq(Descriptor) \union {Unloadable}]
  /\ Documents \subseteq Document
  /\ Unloadable \notin Seq(Descriptor)
  /\ MessageLength \in Nat
  /\ {Absent, Malformed} \intersect (Seq(File) \union Seq(Name)) = {}

VARIABLES
  library,       \* what is installed
  document,      \* the config file
  phase,         \* the step of start-up
  life,          \* whether start-up goes on, is over, or how it ended
  at,            \* the element of the list that the step is at
  rest,          \* the ids of the file's types that are yet to be imported
  loaded_files,  \* ladspa::loaded_files
  loaded_types,  \* ladspa::loaded_types
  name_to_id,    \* ladspa::name_to_id
  made           \* the types of the effects made

registry == <<loaded_files, loaded_types, name_to_id>>
vars == <<library, document, phase, life, at, rest, registry, made>>

Empty == [x \in {} |-> 0]

With(f, x, v) == [y \in DOMAIN f \union {x} |-> IF y = x THEN v ELSE f[y]]

\* ladspa::file::types: of two descriptors with one id the later one stays.
TypesOf(f) ==
  LET At(i) == {k \in DOMAIN library[f] : library[f][k].id = i}
  IN  [i \in {library[f][k].id : k \in DOMAIN library[f]} |->
         library[f][CHOOSE k \in At(i) : \A l \in At(i) : l <= k].name]

Init ==
  /\ library \in Libraries
  /\ document \in Documents
  /\ phase = "routes"
  /\ life = "starting"
  /\ at = 1
  /\ rest = {}
  /\ loaded_files = {}
  /\ loaded_types = Empty
  /\ name_to_id = Empty
  /\ made = <<>>

Go(from, to) ==
  /\ life = "starting"
  /\ phase = from
  /\ phase' = to

Die(in, how) ==
  /\ life = "starting"
  /\ phase = in
  /\ life' = how
  /\ UNCHANGED <<library, document, phase, at, rest, registry, made>>

-----------------------------------------------------------------------------
GetRoutes ==
  IF document.routes = Absent
  THEN Die("routes", "refused")
  ELSE /\ Go("routes", "plugins")
       /\ UNCHANGED <<library, document, life, at, rest, registry, made>>

GetPlugins ==
  IF document.plugins \in {Absent, Malformed}
  THEN Die("plugins", "refused")
  ELSE /\ Go("plugins", "open")
       /\ UNCHANGED <<library, document, life, at, rest, registry, made>>

\* Mutant of Remember: the path is not noted.
Forget(f) == UNCHANGED loaded_files

Remember(f) == loaded_files' = loaded_files \union {f}

\* The file is read whole, and noted, before its types are looked at.
Open ==
  /\ phase = "open"
  /\ at \in DOMAIN document.plugins
  /\ LET f == document.plugins[at]
     IN  IF f \in loaded_files \/ library[f] = Unloadable
         THEN Die("open", "refused")
         ELSE /\ Go("open", "import")
              /\ Remember(f)
              /\ rest' = DOMAIN TypesOf(f)
              /\ UNCHANGED <<library, document, life, at, loaded_types,
                             name_to_id, made>>

\* Mutant of Taken: names are not compared.
TakenId(i, n) == i \in DOMAIN loaded_types

\* Mutant of Taken: ids are not compared.
TakenName(i, n) == n \in DOMAIN name_to_id

Taken(i, n) == i \in DOMAIN loaded_types \/ n \in DOMAIN name_to_id

\* What becomes of a duplicate.  Where it is the id, the id is not appended to
\* the text of the exception but added to the pointer to it: what is read there
\* is the rest of the text up to its terminator, and beyond it anything.
Outcomes(i) ==
  {"refused"} \union
  (IF i \in DOMAIN loaded_types /\ i > MessageLength THEN {"undefined"} ELSE {})

\* The types of the file in the order of their ids.
Import ==
  /\ rest # {}
  /\ LET f == document.plugins[at]
         i == CHOOSE i \in rest : \A j \in rest : i <= j
         n == TypesOf(f)[i]
     IN  IF Taken(i, n)
         THEN \E how \in Outcomes(i) : Die("import", how)
         ELSE /\ Go("import", "import")
              /\ loaded_types' = With(loaded_types, i, [file |-> f, name |-> n])
              /\ name_to_id' = With(name_to_id, n, i)
              /\ rest' = rest \ {i}
              /\ UNCHANGED <<library, document, life, at, loaded_files, made>>

Imported ==
  /\ rest = {}
  /\ Go("import", "open")
  /\ at' = at + 1
  /\ UNCHANGED <<library, document, life, rest, registry, made>>

AllOpen ==
  /\ phase = "open"
  /\ at \notin DOMAIN document.plugins
  /\ Go("open", "chains")
  /\ at' = 1
  /\ UNCHANGED <<library, document, life, rest, registry, made>>

GetChains ==
  IF document.effects \in {Absent, Malformed}
  THEN Die("chains", "refused")
  ELSE /\ Go("chains", "effects")
       /\ UNCHANGED <<library, document, life, at, rest, registry, made>>

\* Both forms of instantiate, and get_type.
Instantiate ==
  /\ phase = "effects"
  /\ at \in DOMAIN document.effects
  /\ LET n == document.effects[at]
     IN  IF n \notin DOMAIN name_to_id \/ name_to_id[n] \notin DOMAIN loaded_types
         THEN Die("effects", "refused")
         ELSE /\ Go("effects", "effects")
              /\ made' = Append(made, loaded_types[name_to_id[n]])
              /\ at' = at + 1
              /\ UNCHANGED <<library, document, life, rest, registry>>

\* A plug-in that cannot be made gives no handle, and nothing looks at it before
\* the constructor of the instance calls connect_port with it.
NoHandle ==
  /\ phase = "effects"
  /\ at \in DOMAIN document.effects
  /\ document.effects[at] \in DOMAIN name_to_id
  /\ Die("effects", "undefined")

Ready ==
  /\ phase = "effects"
  /\ at \notin DOMAIN document.effects
  /\ life = "starting"
  /\ life' = "ready"
  /\ UNCHANGED <<library, document, phase, at, rest, registry, made>>

Next ==
  \/ GetRoutes
  \/ GetPlugins
  \/ Open
  \/ Import
  \/ Imported
  \/ AllOpen
  \/ GetChains
  \/ Instantiate
  \/ NoHandle
  \/ Ready

Spec == Init /\ [][Next]_vars

-----------------------------------------------------------------------------
\* The plug-in files that the program has opened.
Opened ==
  CASE phase \in {"routes", "plugins"} -> {}
    [] phase = "open" -> {document.plugins[k] : k \in 1 .. at - 1}
    [] phase = "import" -> {document.plugins[k] : k \in 1 .. at}
    [] OTHER -> {document.plugins[k] : k \in DOMAIN document.plugins}

\* The values of the variables, and how far start-up has come.
TypeOK ==
  /\ library \in Libraries
  /\ document \in Documents
  /\ phase \in {"routes", "plugins", "open", "import", "chains", "effects"}
  /\ life \in {"starting", "ready", "refused", "undefined"}
  /\ at \in Nat \ {0}
  /\ phase \in {"open", "import", "chains", "effects"} => document.plugins \in Seq(File)
  /\ phase = "open" => at <= Len(document.plugins) + 1
  /\ phase = "import" => at <= Len(document.plugins) /\ rest \subseteq DOMAIN TypesOf(document.plugins[at])
  /\ phase = "effects" => document.effects \in Seq(Name) /\ at = Len(made) + 1
  /\ loaded_files = Opened
  /\ \A f \in loaded_files : library[f] # Unloadable
  /\ loaded_types \in [DOMAIN loaded_types -> [file : loaded_files, name : Name]]
  /\ name_to_id \in [DOMAIN name_to_id -> Nat]
  /\ made \in Seq([file : File, name : Name])

\* Ids and names are paired one to one, and each pair is that of a type in an
\* open file, also where start-up broke off (src/ladspa.cxx:40-52).
OneToOne ==
  /\ \A i \in DOMAIN loaded_types :
       /\ loaded_types[i].name \in DOMAIN name_to_id
       /\ name_to_id[loaded_types[i].name] = i
       /\ i \in DOMAIN TypesOf(loaded_types[i].file)
       /\ TypesOf(loaded_types[i].file)[i] = loaded_types[i].name
  /\ \A n \in DOMAIN name_to_id :
       /\ name_to_id[n] \in DOMAIN loaded_types
       /\ loaded_types[name_to_id[n]].name = n

\* The list of plug-ins makes sense, in whatever order: each file is listed once
\* and can be loaded, and no id and no name is there twice.
Sound ==
  LET L == DOMAIN document.plugins
      F(k) == document.plugins[k]
  IN  /\ \A k, l \in L : F(k) = F(l) => k = l
      /\ \A k \in L : library[F(k)] # Unloadable
      /\ \A k, l \in L : \A i \in DOMAIN TypesOf(F(k)), j \in DOMAIN TypesOf(F(l)) :
           i = j \/ TypesOf(F(k))[i] = TypesOf(F(l))[j] => k = l /\ i = j

\* Some plug-in of the list has a type of that name.
Offered(n) ==
  \E k \in DOMAIN document.plugins : \E i \in DOMAIN TypesOf(document.plugins[k]) :
    TypesOf(document.plugins[k])[i] = n

\* Two plug-ins of the list share an id that leads beyond the text to which it is
\* added.
LongIdTwice ==
  \E k, l \in DOMAIN document.plugins :
    /\ k # l
    /\ \E i \in DOMAIN TypesOf(document.plugins[k])
               \intersect DOMAIN TypesOf(document.plugins[l]) : i > MessageLength

\* Start-up is refused exactly for what is wrong with the list as a whole: not
\* for the order of its files, and not later than it should be.  The refusal itself is
\* harmless but for an id above MessageLength that two plug-ins share; a name that is
\* there twice never leads beyond the text
\* (src/ladspa.cxx:29-61, 72-86, src/audio.cxx:121-126).
DecidedByContents ==
  /\ life \in {"refused", "undefined"} /\ phase \in {"open", "import"} => ~Sound
  /\ life = "undefined" /\ phase = "import" => LongIdTwice
  /\ phase \in {"chains", "effects"} => Sound
  /\ life = "refused" /\ phase = "effects" => ~Offered(document.effects[at])

\* Each effect has the type that the config names, from a file that it lists.
RightTypes ==
  \A k \in DOMAIN made :
    /\ made[k].name = document.effects[k]
    /\ \E i \in DOMAIN TypesOf(made[k].file) : TypesOf(made[k].file)[i] = made[k].name
=============================================================================
