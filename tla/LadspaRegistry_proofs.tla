----------------------- MODULE LadspaRegistry_proofs -----------------------
(***************************************************************************)
(* Theorems about LadspaRegistry, for any plug-in files and config files.  *)
(*                                                                         *)
(* The registry holds exactly the types imported so far: CoverInv relates  *)
(* the two, and with OneToOne it decides both what a refusal says about    *)
(* the list of plug-ins and what getting through it says.                  *)
(***************************************************************************)
EXTENDS LadspaRegistry, Extremes, TLAPS

\* The file at place k of the list has been opened.
Reached(k) ==
  /\ \/ phase = "open" /\ k < at
     \/ phase = "import" /\ k <= at
     \/ phase \in {"chains", "effects"}
  /\ k \in DOMAIN document.plugins

\* The type i of that file has been imported.
IsImported(k, i) ==
  /\ Reached(k)
  /\ i \in DOMAIN TypesOf(document.plugins[k])
  /\ ~(phase = "import" /\ k = at /\ i \in rest)

\* What start-up has behind it.
StageInv ==
  /\ phase \in {"routes", "plugins", "chains"} => at = 1
  /\ phase # "effects" => made = <<>>

\* The registry has the types that were imported, and no others.
CoverInv ==
  /\ \A k \in Nat : \A i \in Nat : IsImported(k, i) =>
       /\ i \in DOMAIN loaded_types
       /\ loaded_types[i].file = document.plugins[k]
       /\ loaded_types[i].name = TypesOf(document.plugins[k])[i]
  /\ \A i \in DOMAIN loaded_types : \E k \in Nat :
       IsImported(k, i) /\ loaded_types[i].file = document.plugins[k]

\* No file was opened twice.
DistinctInv ==
  \A k, l \in Nat : Reached(k) /\ Reached(l) /\ document.plugins[k] = document.plugins[l] => k = l

IInv ==
  /\ TypeOK
  /\ StageInv
  /\ OneToOne
  /\ CoverInv
  /\ DistinctInv
  /\ DecidedByContents

\* The types of a file that was read have numbers and names.
LEMMA TypesOfFile ==
  ASSUME TypeOK, NEW f \in File, library[f] # Unloadable
  PROVE  /\ DOMAIN TypesOf(f) \subseteq Nat
         /\ \A i \in DOMAIN TypesOf(f) : TypesOf(f)[i] \in Name
<1> DEFINE s == library[f]
           At(i) == {k \in DOMAIN s : s[k].id = i}
           Is == {s[k].id : k \in DOMAIN s}
           Last(i) == CHOOSE k \in At(i) : \A l \in At(i) : l <= k
<1>1. s \in Seq(Descriptor)
  BY RegistryAssumption DEF TypeOK
<1>2. TypesOf(f) = [i \in Is |-> s[Last(i)].name]
  BY DEF TypesOf
<1>3. DOMAIN s = 1 .. Len(s) /\ Len(s) \in Nat
  BY <1>1
<1>4. \A k \in DOMAIN s : s[k] \in Descriptor
  BY <1>1
<1>5. Is \subseteq Nat
  BY <1>4 DEF Descriptor
<1>6. ASSUME NEW i \in Is PROVE s[Last(i)].name \in Name
  <2>1. At(i) \subseteq 0 .. Len(s) /\ At(i) # {}
    BY <1>3
  <2>2. \E k \in At(i) : \A l \in At(i) : l <= k
    BY <2>1, <1>3, Greatest
  <2>3. Last(i) \in At(i)
    BY <2>2
  <2> QED
    BY <2>3, <1>4 DEF Descriptor
<1> QED
  BY <1>2, <1>5, <1>6

\* What is installed and what is configured stays.
LEMMA Given ==
  ASSUME [Next]_vars
  PROVE  library' = library /\ document' = document
  BY DEF Next, vars, GetRoutes, GetPlugins, Open, Import, Imported, AllOpen, GetChains, Instantiate, NoHandle, Ready, Go, Die

LEMMA SameTypes ==
  ASSUME library' = library, NEW f
  PROVE  TypesOf(f)' = TypesOf(f)
  BY DEF TypesOf

-----------------------------------------------------------------------------
(* The steps, by what they leave alone.                                    *)

\* A step that does no more than decide how start-up ends.
Ending == UNCHANGED <<library, document, phase, at, rest, registry, made>>

\* One that finds a section of the config file, or ends a list.
Moving == UNCHANGED <<library, document, life, rest, registry, made>>

StepOfRegistry ==
  \/ Ending /\ life' \in {"starting", "ready", "refused", "undefined"}
  \/ Moving /\ life = "starting" /\ (GetRoutes \/ GetPlugins \/ Imported \/ AllOpen \/ GetChains)
  \/ life = "starting" /\ life' = life /\ Open
  \/ life = "starting" /\ life' = life /\ Import
  \/ life = "starting" /\ life' = life /\ Instantiate

LEMMA Steps ==
  ASSUME TypeOK, [Next]_vars
  PROVE  StepOfRegistry
<1>1. CASE GetRoutes
  BY <1>1 DEF GetRoutes, Go, Die, StepOfRegistry, Ending, Moving, registry
<1>2. CASE GetPlugins
  BY <1>2 DEF GetPlugins, Go, Die, StepOfRegistry, Ending, Moving, registry
<1>3. CASE Open
  BY <1>3 DEF Open, Go, Die, StepOfRegistry, Ending, registry
<1>4. CASE Import
  BY <1>4 DEF Import, Outcomes, Go, Die, StepOfRegistry, Ending, registry
<1>5. CASE Imported
  BY <1>5 DEF Imported, Go, StepOfRegistry, Moving, registry
<1>6. CASE AllOpen
  BY <1>6 DEF AllOpen, Go, StepOfRegistry, Moving, registry
<1>7. CASE GetChains
  BY <1>7 DEF GetChains, Go, Die, StepOfRegistry, Ending, Moving, registry
<1>8. CASE Instantiate
  BY <1>8 DEF Instantiate, Go, Die, StepOfRegistry, Ending, registry
<1>9. CASE NoHandle
  BY <1>9 DEF NoHandle, Die, StepOfRegistry, Ending, registry
<1>10. CASE Ready
  BY <1>10 DEF Ready, StepOfRegistry, Ending, registry
<1>11. CASE UNCHANGED vars
  BY <1>11 DEF TypeOK, vars, StepOfRegistry, Ending, registry
<1> QED
  BY <1>1, <1>2, <1>3, <1>4, <1>5, <1>6, <1>7, <1>8, <1>9, <1>10, <1>11 DEF Next

\* A file is opened.
LEMMA OpenStep ==
  ASSUME TypeOK, Open, life = "starting", life' = life
  PROVE  \E f \in File :
           /\ phase = "open" /\ phase' = "import"
           /\ at \in DOMAIN document.plugins /\ f = document.plugins[at]
           /\ f \notin loaded_files /\ library[f] # Unloadable
           /\ loaded_files' = loaded_files \union {f}
           /\ rest' = DOMAIN TypesOf(f)
           /\ UNCHANGED <<library, document, at, loaded_types, name_to_id, made>>
<1>1. phase = "open" /\ at \in DOMAIN document.plugins /\ document.plugins \in Seq(File)
  BY DEF Open, TypeOK
<1>2. document.plugins[at] \in File
  BY <1>1
<1>3. document.plugins[at] \notin loaded_files /\ library[document.plugins[at]] # Unloadable
  BY DEF Open, Die
<1> QED
  BY <1>1, <1>2, <1>3 DEF Open, Go, Remember

\* A type is imported: the one with the least id that is left.
LEMMA ImportStep ==
  ASSUME TypeOK, Import, life = "starting", life' = life
  PROVE  \E f \in File : \E i \in rest : \E n \in Name :
           /\ phase = "import" /\ phase' = "import"
           /\ f = document.plugins[at] /\ f \in loaded_files
           /\ i \in Nat /\ i \in DOMAIN TypesOf(f) /\ n = TypesOf(f)[i]
           /\ i \notin DOMAIN loaded_types /\ n \notin DOMAIN name_to_id
           /\ loaded_types' = With(loaded_types, i, [file |-> f, name |-> n])
           /\ name_to_id' = With(name_to_id, n, i)
           /\ rest' = rest \ {i}
           /\ UNCHANGED <<library, document, at, loaded_files, made>>
<1> DEFINE f == document.plugins[at]
           i == CHOOSE j \in rest : \A k \in rest : j <= k
           n == TypesOf(f)[i]
<1>1. ~Taken(i, n)
  BY DEF Import, Outcomes, Die
<1>2. phase = "import"
  BY <1>1 DEF Import, Go
<1>3. /\ document.plugins \in Seq(File) /\ at \in 1 .. Len(document.plugins)
      /\ rest \subseteq DOMAIN TypesOf(f)
  BY <1>2 DEF TypeOK
<1>4. f \in File /\ f \in loaded_files /\ library[f] # Unloadable
  BY <1>2, <1>3 DEF TypeOK, Opened
<1>5. DOMAIN TypesOf(f) \subseteq Nat /\ \A j \in DOMAIN TypesOf(f) : TypesOf(f)[j] \in Name
  BY <1>4, TypesOfFile
<1>6. i \in rest
  <2>1. rest \subseteq Nat /\ rest # {}
    BY <1>3, <1>5 DEF Import
  <2>2. \E j \in rest : \A k \in rest : j <= k
    BY <2>1, Least
  <2> QED
    BY <2>2
<1>7. /\ phase' = "import"
      /\ loaded_types' = With(loaded_types, i, [file |-> f, name |-> n])
      /\ name_to_id' = With(name_to_id, n, i)
      /\ rest' = rest \ {i}
      /\ UNCHANGED <<library, document, at, loaded_files, made>>
  BY <1>1 DEF Import, Go
<1> HIDE DEF i, n
<1>8. n \in Name /\ n = TypesOf(f)[i]
  BY <1>3, <1>5, <1>6 DEF n
<1> QED
  BY <1>1, <1>2, <1>3, <1>4, <1>5, <1>6, <1>7, <1>8 DEF Taken

\* An effect is made.
LEMMA InstantiateStep ==
  ASSUME TypeOK, Instantiate, life = "starting", life' = life
  PROVE  \E n \in Name :
           /\ phase = "effects" /\ phase' = "effects"
           /\ at \in DOMAIN document.effects /\ n = document.effects[at]
           /\ n \in DOMAIN name_to_id /\ name_to_id[n] \in DOMAIN loaded_types
           /\ made' = Append(made, loaded_types[name_to_id[n]])
           /\ at' = at + 1
           /\ UNCHANGED <<library, document, rest, loaded_files, loaded_types, name_to_id>>
<1>1. /\ phase = "effects" /\ at \in DOMAIN document.effects
      /\ document.effects \in Seq(Name)
  BY DEF Instantiate, TypeOK
<1>2. document.effects[at] \in Name
  BY <1>1
<1>3. /\ document.effects[at] \in DOMAIN name_to_id
      /\ name_to_id[document.effects[at]] \in DOMAIN loaded_types
  BY DEF Instantiate, Die
<1> QED
  BY <1>1, <1>2, <1>3 DEF Instantiate, Go, registry

-----------------------------------------------------------------------------
(* Types and stages.                                                       *)

LEMMA TypesInit ==
  ASSUME Init
  PROVE  TypeOK /\ StageInv
<1>1. loaded_types \in [DOMAIN loaded_types -> [file : loaded_files, name : Name]]
  BY DEF Init, Empty
<1>2. name_to_id \in [DOMAIN name_to_id -> Nat]
  BY DEF Init, Empty
<1>3. made \in Seq([file : File, name : Name])
  BY DEF Init
<1> QED
  BY <1>1, <1>2, <1>3 DEF Init, TypeOK, StageInv, Opened

LEMMA StageStep ==
  ASSUME TypeOK, StageInv, [Next]_vars
  PROVE  StageInv'
<1>1. CASE Ending
  BY <1>1 DEF Ending, StageInv
<1>2. CASE Moving /\ life = "starting" /\ (GetRoutes \/ GetPlugins \/ Imported \/ AllOpen \/ GetChains)
  BY <1>2 DEF Moving, StageInv, GetRoutes, GetPlugins, Imported, AllOpen, GetChains, Go, Die
<1>3. CASE life = "starting" /\ life' = life /\ Open
  BY <1>3, OpenStep DEF StageInv
<1>4. CASE life = "starting" /\ life' = life /\ Import
  BY <1>4, ImportStep DEF StageInv
<1>5. CASE life = "starting" /\ life' = life /\ Instantiate
  BY <1>5, InstantiateStep DEF StageInv
<1> QED
  BY <1>1, <1>2, <1>3, <1>4, <1>5, Steps DEF StepOfRegistry

LEMMA TypeStep ==
  ASSUME TypeOK, StageInv, [Next]_vars
  PROVE  TypeOK'
<1>0. /\ library' = library /\ document' = document
      /\ \A f : TypesOf(f)' = TypesOf(f)
  BY Given, SameTypes
<1>1. CASE Ending /\ life' \in {"starting", "ready", "refused", "undefined"}
  BY <1>0, <1>1 DEF Ending, TypeOK, Opened, registry
<1>2. CASE Moving /\ life = "starting" /\ (GetRoutes \/ GetPlugins \/ Imported \/ AllOpen \/ GetChains)
  <2>1. CASE GetRoutes
    BY <1>0, <1>2, <2>1 DEF GetRoutes, Go, Die, Moving, TypeOK, Opened, registry
  <2>2. CASE GetPlugins
    <3>1. document.plugins \in Seq(File)
      BY <1>2, <2>2, RegistryAssumption DEF GetPlugins, Die, Moving, TypeOK, Document
    <3>2. /\ phase = "plugins" /\ phase' = "open" /\ at' = at /\ at = 1
      BY <1>2, <2>2 DEF GetPlugins, Go, Die, Moving, StageInv
    <3>3. Opened = {} /\ Opened' = {}
      BY <1>0, <3>2 DEF Opened
    <3> QED
      BY <1>0, <1>2, <3>1, <3>2, <3>3 DEF Moving, TypeOK, registry
  <2>3. CASE Imported
    <3>1. phase = "import" /\ phase' = "open" /\ at' = at + 1 /\ rest = {}
      BY <2>3 DEF Imported, Go
    <3>2. at \in Nat \ {0} /\ at <= Len(document.plugins) /\ document.plugins \in Seq(File)
      BY <3>1 DEF TypeOK
    <3>3. Opened' = Opened
      BY <1>0, <3>1, <3>2 DEF Opened
    <3> QED
      BY <1>0, <1>2, <3>1, <3>2, <3>3 DEF Moving, TypeOK, registry
  <2>4. CASE AllOpen
    <3>1. /\ phase = "open" /\ phase' = "chains" /\ at' = 1
          /\ at \notin DOMAIN document.plugins
      BY <2>4 DEF AllOpen, Go
    <3>2. /\ at \in Nat \ {0} /\ at <= Len(document.plugins) + 1
          /\ document.plugins \in Seq(File)
      BY <3>1 DEF TypeOK
    <3>3. Opened' = Opened
      <4>1. DOMAIN document.plugins = 1 .. at - 1
        BY <3>1, <3>2
      <4> QED
        BY <1>0, <3>1, <4>1 DEF Opened
    <3> QED
      BY <1>0, <1>2, <3>1, <3>2, <3>3 DEF Moving, TypeOK, registry
  <2>5. CASE GetChains
    <3>1. phase = "chains" /\ phase' = "effects" /\ at' = at /\ at = 1 /\ made = <<>>
      BY <1>2, <2>5 DEF GetChains, Go, Die, Moving, StageInv
    <3>2. document.effects \in Seq(Name)
      BY <1>2, <2>5, RegistryAssumption DEF GetChains, Die, Moving, TypeOK, Document
    <3>3. Opened' = Opened
      BY <1>0, <3>1 DEF Opened
    <3> QED
      BY <1>0, <1>2, <3>1, <3>2, <3>3 DEF Moving, TypeOK, registry
  <2> QED
    BY <1>2, <2>1, <2>2, <2>3, <2>4, <2>5
<1>3. CASE life = "starting" /\ life' = life /\ Open
  <2>1. PICK f \in File :
           /\ phase = "open" /\ phase' = "import"
           /\ at \in DOMAIN document.plugins /\ f = document.plugins[at]
           /\ f \notin loaded_files /\ library[f] # Unloadable
           /\ loaded_files' = loaded_files \union {f}
           /\ rest' = DOMAIN TypesOf(f)
           /\ UNCHANGED <<library, document, at, loaded_types, name_to_id, made>>
    BY <1>3, OpenStep
  <2>2. document.plugins \in Seq(File) /\ at \in 1 .. Len(document.plugins)
    BY <2>1 DEF TypeOK
  <2>3. loaded_files' = Opened'
    <3>1. loaded_files = {document.plugins[k] : k \in 1 .. at - 1}
      BY <2>1 DEF TypeOK, Opened
    <3>2. Opened' = {document.plugins[k] : k \in 1 .. at}
      BY <2>1 DEF Opened
    <3>3. 1 .. at = (1 .. at - 1) \union {at}
      BY <2>2
    <3> QED
      BY <2>1, <3>1, <3>2, <3>3
  <2>4. \A g \in loaded_files' : library'[g] # Unloadable
    BY <2>1 DEF TypeOK
  <2>5. loaded_types' \in [DOMAIN loaded_types' -> [file : loaded_files', name : Name]]
    BY <2>1 DEF TypeOK
  <2>6. rest' \subseteq DOMAIN TypesOf(document.plugins[at])'
    BY <1>0, <2>1
  <2> QED
    BY <1>3, <2>1, <2>2, <2>3, <2>4, <2>5, <2>6 DEF TypeOK
<1>4. CASE life = "starting" /\ life' = life /\ Import
  <2>1. PICK f \in File, i \in rest, n \in Name :
           /\ phase = "import" /\ phase' = "import"
           /\ f = document.plugins[at] /\ f \in loaded_files
           /\ i \in Nat /\ i \in DOMAIN TypesOf(f) /\ n = TypesOf(f)[i]
           /\ i \notin DOMAIN loaded_types /\ n \notin DOMAIN name_to_id
           /\ loaded_types' = With(loaded_types, i, [file |-> f, name |-> n])
           /\ name_to_id' = With(name_to_id, n, i)
           /\ rest' = rest \ {i}
           /\ UNCHANGED <<library, document, at, loaded_files, made>>
    BY <1>4, ImportStep
  <2>2. Opened' = Opened
    BY <2>1 DEF Opened
  <2>3. loaded_types' \in [DOMAIN loaded_types' -> [file : loaded_files', name : Name]]
    BY <2>1 DEF TypeOK, With
  <2>4. name_to_id' \in [DOMAIN name_to_id' -> Nat]
    BY <2>1 DEF TypeOK, With
  <2>5. rest' \subseteq DOMAIN TypesOf(document.plugins[at])'
    BY <1>0, <2>1 DEF TypeOK
  <2> QED
    BY <1>4, <2>1, <2>2, <2>3, <2>4, <2>5 DEF TypeOK
<1>5. CASE life = "starting" /\ life' = life /\ Instantiate
  <2>1. PICK n \in Name :
           /\ phase = "effects" /\ phase' = "effects"
           /\ at \in DOMAIN document.effects /\ n = document.effects[at]
           /\ n \in DOMAIN name_to_id /\ name_to_id[n] \in DOMAIN loaded_types
           /\ made' = Append(made, loaded_types[name_to_id[n]])
           /\ at' = at + 1
           /\ UNCHANGED <<library, document, rest, loaded_files, loaded_types, name_to_id>>
    BY <1>5, InstantiateStep
  <2>2. Opened' = Opened /\ Opened \subseteq File
    BY <2>1 DEF Opened, TypeOK
  <2>3. loaded_types[name_to_id[n]] \in [file : File, name : Name]
    BY <2>1, <2>2 DEF TypeOK
  <2>4. made' \in Seq([file : File, name : Name]) /\ Len(made') = Len(made) + 1
    BY <2>1, <2>3 DEF TypeOK
  <2> QED
    BY <1>0, <1>5, <2>1, <2>2, <2>4 DEF TypeOK
<1> QED
  BY <1>1, <1>2, <1>3, <1>4, <1>5, Steps DEF StepOfRegistry

\* The variables keep their types, the files noted are those of the list that
\* were opened, and each of them could be loaded (src/ladspa.cxx:29-61).
THEOREM TypeCorrect == Spec => []TypeOK
<1>1. TypeOK /\ StageInv /\ [Next]_vars => (TypeOK /\ StageInv)'
  BY TypeStep, StageStep
<1> QED
  BY <1>1, TypesInit, PTL DEF Spec

-----------------------------------------------------------------------------
(* The registry.                                                           *)

LEMMA OneToOneStep ==
  ASSUME TypeOK, OneToOne, [Next]_vars
  PROVE  OneToOne'
<1>0. library' = library /\ \A f : TypesOf(f)' = TypesOf(f)
  BY Given, SameTypes
<1>1. CASE UNCHANGED <<loaded_types, name_to_id>>
  BY <1>0, <1>1 DEF OneToOne
<1>2. CASE life = "starting" /\ life' = life /\ Import
  <2>1. PICK f \in File, i \in rest, n \in Name :
           /\ phase = "import" /\ phase' = "import"
           /\ f = document.plugins[at] /\ f \in loaded_files
           /\ i \in Nat /\ i \in DOMAIN TypesOf(f) /\ n = TypesOf(f)[i]
           /\ i \notin DOMAIN loaded_types /\ n \notin DOMAIN name_to_id
           /\ loaded_types' = With(loaded_types, i, [file |-> f, name |-> n])
           /\ name_to_id' = With(name_to_id, n, i)
           /\ rest' = rest \ {i}
           /\ UNCHANGED <<library, document, at, loaded_files, made>>
    BY <1>2, ImportStep
  <2>2. DOMAIN loaded_types' = DOMAIN loaded_types \union {i}
    BY <2>1 DEF With
  <2>3. loaded_types'[i] = [file |-> f, name |-> n]
    BY <2>1 DEF With
  <2>4. \A j \in DOMAIN loaded_types : j # i /\ loaded_types'[j] = loaded_types[j]
    BY <2>1 DEF With
  <2>5. DOMAIN name_to_id' = DOMAIN name_to_id \union {n} /\ name_to_id'[n] = i
    BY <2>1 DEF With
  <2>6. \A m \in DOMAIN name_to_id : m # n /\ name_to_id'[m] = name_to_id[m]
    BY <2>1 DEF With
  <2>7. ASSUME NEW j \in DOMAIN loaded_types'
        PROVE  /\ loaded_types'[j].name \in DOMAIN name_to_id'
               /\ name_to_id'[loaded_types'[j].name] = j
               /\ j \in DOMAIN TypesOf(loaded_types'[j].file)
               /\ TypesOf(loaded_types'[j].file)[j] = loaded_types'[j].name
    <3>1. CASE j = i
      BY <2>1, <2>3, <2>5, <3>1
    <3>2. CASE j \in DOMAIN loaded_types
      BY <2>4, <2>5, <2>6, <3>2 DEF OneToOne
    <3> QED
      BY <2>2, <3>1, <3>2
  <2>8. ASSUME NEW m \in DOMAIN name_to_id'
        PROVE  /\ name_to_id'[m] \in DOMAIN loaded_types'
               /\ loaded_types'[name_to_id'[m]].name = m
    <3>1. CASE m = n
      BY <2>2, <2>3, <2>5, <3>1
    <3>2. CASE m \in DOMAIN name_to_id
      BY <2>2, <2>4, <2>6, <3>2 DEF OneToOne
    <3> QED
      BY <2>5, <3>1, <3>2
  <2> QED
    BY <1>0, <2>7, <2>8 DEF OneToOne
<1>3. CASE life = "starting" /\ life' = life /\ Open
  BY <1>1, <1>3, OpenStep
<1>4. CASE life = "starting" /\ life' = life /\ Instantiate
  BY <1>1, <1>4, InstantiateStep
<1> QED
  BY <1>1, <1>2, <1>3, <1>4, Steps DEF StepOfRegistry, Ending, Moving, registry

\* Ids and names are paired one to one, each pair being a type of an open file,
\* wherever start-up is or broke off (src/ladspa.cxx:40-52).
THEOREM Paired == Spec => []OneToOne
<1>1. Init => OneToOne
  BY DEF Init, OneToOne, Empty
<1>2. TypeOK /\ OneToOne /\ [Next]_vars => OneToOne'
  BY OneToOneStep
<1> QED
  BY <1>1, <1>2, TypeCorrect, PTL DEF Spec

LEMMA DistinctStep ==
  ASSUME TypeOK, StageInv, DistinctInv, [Next]_vars
  PROVE  DistinctInv'
<1>0. document' = document
  BY Given
<1>1. ASSUME NEW k \in Nat, NEW l \in Nat, Reached(k)', Reached(l)',
             document'.plugins[k] = document'.plugins[l]
      PROVE  k = l
  <2>1. CASE \A j \in Nat : Reached(j)' => Reached(j)
    BY <1>0, <1>1, <2>1 DEF DistinctInv
  <2>2. CASE Ending
    BY <1>0, <2>1, <2>2 DEF Ending, Reached
  <2>3. CASE Moving /\ life = "starting" /\ (GetRoutes \/ GetPlugins \/ Imported \/ AllOpen \/ GetChains)
    <3>1. at \in Nat
      BY DEF TypeOK
    <3>2. CASE GetRoutes \/ GetChains
      BY <1>0, <2>1, <2>3, <3>2 DEF GetRoutes, GetChains, Go, Die, Moving, Reached
    <3>5. CASE GetPlugins
      <4>1. phase' = "open" /\ at' = 1
        BY <2>3, <3>5 DEF GetPlugins, Go, Die, Moving, StageInv
      <4>2. document.plugins \in Seq(File)
        BY <2>3, <3>5, RegistryAssumption DEF GetPlugins, Die, Moving, TypeOK, Document
      <4>3. \A j \in DOMAIN document.plugins : ~(j < 1)
        BY <4>2
      <4> QED
        BY <1>0, <2>1, <4>1, <4>3 DEF Reached
    <3>3. CASE Imported
      BY <1>0, <2>1, <3>1, <3>3 DEF Imported, Go, Reached
    <3>4. CASE AllOpen
      <4>1. phase = "open" /\ at \notin DOMAIN document.plugins
        BY <3>4 DEF AllOpen, Go
      <4>2. /\ document.plugins \in Seq(File)
            /\ at \in Nat \ {0} /\ at <= Len(document.plugins) + 1
        BY <4>1 DEF TypeOK
      <4>3. \A j \in DOMAIN document.plugins : j < at
        BY <4>1, <4>2
      <4> QED
        BY <1>0, <2>1, <4>1, <4>3 DEF Reached
    <3> QED
      BY <2>3, <3>2, <3>3, <3>4, <3>5
  <2>4. CASE life = "starting" /\ life' = life /\ Open
    <3>1. PICK f \in File :
           /\ phase = "open" /\ phase' = "import"
           /\ at \in DOMAIN document.plugins /\ f = document.plugins[at]
           /\ f \notin loaded_files /\ library[f] # Unloadable
           /\ loaded_files' = loaded_files \union {f}
           /\ rest' = DOMAIN TypesOf(f)
           /\ UNCHANGED <<library, document, at, loaded_types, name_to_id, made>>
      BY <2>4, OpenStep
    <3>2. at \in Nat /\ loaded_files = {document.plugins[j] : j \in 1 .. at - 1}
      BY <3>1 DEF TypeOK, Opened
    <3>3. ASSUME NEW j \in Nat, Reached(j)'
          PROVE  j = at \/ (Reached(j) /\ document.plugins[j] # f)
      <4>1. j \in DOMAIN document.plugins /\ j <= at
        BY <1>0, <3>1, <3>3 DEF Reached
      <4>2. j \in 1 .. at
        BY <3>1, <3>2, <4>1 DEF TypeOK
      <4> QED
        BY <3>1, <3>2, <4>1, <4>2 DEF Reached
    <3> QED
      BY <1>0, <1>1, <3>1, <3>3 DEF DistinctInv
  <2>5. CASE life = "starting" /\ life' = life /\ Import
    BY <1>0, <2>1, <2>5, ImportStep DEF Reached
  <2>6. CASE life = "starting" /\ life' = life /\ Instantiate
    BY <1>0, <2>1, <2>6, InstantiateStep DEF Reached
  <2> QED
    BY <2>2, <2>3, <2>4, <2>5, <2>6, Steps DEF StepOfRegistry
<1> QED
  BY <1>1 DEF DistinctInv

LEMMA CoverStep ==
  ASSUME TypeOK, StageInv, CoverInv, [Next]_vars
  PROVE  CoverInv'
<1> DEFINE Same == \A k \in Nat : \A j \in Nat : IsImported(k, j)' <=> IsImported(k, j)
<1>0. document' = document /\ library' = library /\ \A f : TypesOf(f)' = TypesOf(f)
  BY Given, SameTypes
<1>a. at \in Nat /\ \A k \in Nat : at + 1 \in Nat /\ (k < at + 1 <=> k <= at) /\ (k <= at <=> k < at \/ k = at)
  BY DEF TypeOK
<1>b. DOMAIN loaded_types \subseteq Nat
  <2>1. ASSUME NEW j \in DOMAIN loaded_types PROVE j \in Nat
    <3>1. PICK k \in Nat : IsImported(k, j)
      BY DEF CoverInv
    <3>2. j \in DOMAIN TypesOf(document.plugins[k])
      BY <3>1 DEF IsImported
    <3>3. phase \in {"open", "import", "chains", "effects"}
      BY <3>1 DEF IsImported, Reached
    <3>4. document.plugins[k] \in loaded_files /\ document.plugins[k] \in File
      <4>1. document.plugins \in Seq(File) /\ k \in DOMAIN document.plugins
        BY <3>1, <3>3 DEF IsImported, Reached, TypeOK
      <4>2. document.plugins[k] \in Opened
        BY <1>a, <3>1, <4>1 DEF IsImported, Reached, Opened
      <4> QED
        BY <4>1, <4>2 DEF TypeOK
    <3> QED
      BY <3>2, <3>4, TypesOfFile DEF TypeOK
  <2> QED
    BY <2>1
<1>1. ASSUME Same, loaded_types' = loaded_types PROVE CoverInv'
  BY <1>0, <1>1, <1>b DEF CoverInv
<1> HIDE DEF Same
<1>2. CASE Ending
  BY <1>0, <1>1, <1>2 DEF Ending, registry, IsImported, Reached, Same
<1>3. CASE Moving /\ life = "starting" /\ (GetRoutes \/ GetPlugins \/ Imported \/ AllOpen \/ GetChains)
  <2>1. CASE GetRoutes \/ GetChains
    BY <1>0, <1>1, <1>3, <2>1 DEF GetRoutes, GetChains, Go, Die, Moving, registry, IsImported, Reached, Same
  <2>2. CASE GetPlugins
    <3>1. phase = "plugins" /\ phase' = "open" /\ at' = 1
      BY <1>3, <2>2 DEF GetPlugins, Go, Die, Moving, StageInv
    <3>2. document.plugins \in Seq(File)
      BY <1>3, <2>2, RegistryAssumption DEF GetPlugins, Die, Moving, TypeOK, Document
    <3>3. \A j \in DOMAIN document.plugins : ~(j < 1)
      BY <3>2
    <3>4. Same
      BY <1>0, <3>1, <3>3 DEF IsImported, Reached, Same
    <3> QED
      BY <1>1, <1>3, <3>4 DEF Moving, registry
  <2>3. CASE Imported
    <3>1. phase = "import" /\ phase' = "open" /\ at' = at + 1 /\ rest = {}
      BY <2>3 DEF Imported, Go
    <3>2. Same
      BY <1>0, <1>a, <3>1 DEF IsImported, Reached, Same
    <3> QED
      BY <1>1, <1>3, <3>2 DEF Moving, registry
  <2>4. CASE AllOpen
    <3>1. phase = "open" /\ phase' = "chains" /\ at \notin DOMAIN document.plugins
      BY <2>4 DEF AllOpen, Go
    <3>2. /\ document.plugins \in Seq(File)
          /\ at \in Nat \ {0} /\ at <= Len(document.plugins) + 1
      BY <3>1 DEF TypeOK
    <3>3. \A j \in DOMAIN document.plugins : j < at
      BY <3>1, <3>2
    <3>4. Same
      BY <1>0, <3>1, <3>3 DEF IsImported, Reached, Same
    <3> QED
      BY <1>1, <1>3, <3>4 DEF Moving, registry
  <2> QED
    BY <1>3, <2>1, <2>2, <2>3, <2>4
<1>4. CASE life = "starting" /\ life' = life /\ Open
  <2>1. PICK f \in File :
           /\ phase = "open" /\ phase' = "import"
           /\ at \in DOMAIN document.plugins /\ f = document.plugins[at]
           /\ f \notin loaded_files /\ library[f] # Unloadable
           /\ loaded_files' = loaded_files \union {f}
           /\ rest' = DOMAIN TypesOf(f)
           /\ UNCHANGED <<library, document, at, loaded_types, name_to_id, made>>
    BY <1>4, OpenStep
  <2>2. Same
    BY <1>0, <1>a, <2>1 DEF IsImported, Reached, Same
  <2> QED
    BY <1>1, <2>1, <2>2
<1>5. CASE life = "starting" /\ life' = life /\ Import
  <2>1. PICK f \in File, i \in rest, n \in Name :
           /\ phase = "import" /\ phase' = "import"
           /\ f = document.plugins[at] /\ f \in loaded_files
           /\ i \in Nat /\ i \in DOMAIN TypesOf(f) /\ n = TypesOf(f)[i]
           /\ i \notin DOMAIN loaded_types /\ n \notin DOMAIN name_to_id
           /\ loaded_types' = With(loaded_types, i, [file |-> f, name |-> n])
           /\ name_to_id' = With(name_to_id, n, i)
           /\ rest' = rest \ {i}
           /\ UNCHANGED <<library, document, at, loaded_files, made>>
    BY <1>5, ImportStep
  <2>2. DOMAIN loaded_types' = DOMAIN loaded_types \union {i}
    BY <2>1 DEF With
  <2>3. loaded_types'[i] = [file |-> f, name |-> n]
    BY <2>1 DEF With
  <2>4. \A j \in DOMAIN loaded_types : j # i /\ loaded_types'[j] = loaded_types[j]
    BY <2>1 DEF With
  <2>5. at \in DOMAIN document.plugins
    BY <2>1 DEF TypeOK
  <2>6. \A k \in Nat : \A j \in Nat :
          IsImported(k, j)' <=> IsImported(k, j) \/ (k = at /\ j = i)
    BY <1>0, <1>a, <2>1, <2>5 DEF IsImported, Reached
  <2>7. ASSUME NEW k \in Nat, NEW j \in Nat, IsImported(k, j)'
        PROVE  /\ j \in DOMAIN loaded_types'
               /\ loaded_types'[j].file = document.plugins[k]
               /\ loaded_types'[j].name = TypesOf(document.plugins[k])[j]
    <3>1. CASE IsImported(k, j)
      BY <2>2, <2>4, <3>1 DEF CoverInv
    <3>2. CASE k = at /\ j = i
      BY <2>1, <2>2, <2>3, <3>2
    <3> QED
      BY <2>6, <2>7, <3>1, <3>2
  <2>8. ASSUME NEW j \in DOMAIN loaded_types'
        PROVE  \E k \in Nat : IsImported(k, j)' /\ loaded_types'[j].file = document.plugins[k]
    <3>1. CASE j = i
      BY <1>a, <2>1, <2>3, <2>6, <3>1
    <3>2. CASE j \in DOMAIN loaded_types
      BY <1>b, <2>4, <2>6, <3>2 DEF CoverInv
    <3> QED
      BY <2>2, <3>1, <3>2
  <2> QED
    BY <1>0, <2>7, <2>8 DEF CoverInv
<1>6. CASE life = "starting" /\ life' = life /\ Instantiate
  BY <1>0, <1>1, <1>6, InstantiateStep DEF IsImported, Reached, Same
<1> QED
  BY <1>2, <1>3, <1>4, <1>5, <1>6, Steps DEF StepOfRegistry

-----------------------------------------------------------------------------
(* What start-up decides.                                                  *)

\* When all files are open, the list made sense.
LEMMA AllOpenSound ==
  ASSUME TypeOK, OneToOne, CoverInv, DistinctInv, phase = "open",
         at \notin DOMAIN document.plugins
  PROVE  Sound
<1> DEFINE L == DOMAIN document.plugins
           F(k) == document.plugins[k]
<1>1. /\ document.plugins \in Seq(File)
      /\ at \in Nat \ {0} /\ at <= Len(document.plugins) + 1
  BY DEF TypeOK
<1>2. \A k \in L : k \in Nat /\ k \in 1 .. at - 1 /\ k < at
  BY <1>1
<1>3. \A k \in L : Reached(k)
  BY <1>2 DEF Reached
<1>4. \A k \in L : F(k) \in loaded_files /\ F(k) \in File /\ library[F(k)] # Unloadable
  BY <1>1, <1>2 DEF TypeOK, Opened
<1>5. \A k \in L : \A i \in DOMAIN TypesOf(F(k)) : i \in Nat /\ IsImported(k, i)
  BY <1>3, <1>4, TypesOfFile DEF IsImported
<1>6. \A k, l \in L : F(k) = F(l) => k = l
  BY <1>2, <1>3 DEF DistinctInv
<1>7. ASSUME NEW k \in L, NEW l \in L,
             NEW i \in DOMAIN TypesOf(F(k)), NEW j \in DOMAIN TypesOf(F(l)),
             i = j \/ TypesOf(F(k))[i] = TypesOf(F(l))[j]
      PROVE  k = l /\ i = j
  <2>1. /\ i \in DOMAIN loaded_types /\ loaded_types[i].file = F(k)
        /\ loaded_types[i].name = TypesOf(F(k))[i]
    BY <1>2, <1>5 DEF CoverInv
  <2>2. /\ j \in DOMAIN loaded_types /\ loaded_types[j].file = F(l)
        /\ loaded_types[j].name = TypesOf(F(l))[j]
    BY <1>2, <1>5 DEF CoverInv
  <2>3. i = j
    BY <1>7, <2>1, <2>2 DEF OneToOne
  <2> QED
    BY <1>6, <2>1, <2>2, <2>3
<1> HIDE DEF F
<1>8. \A k, l \in L : \A i \in DOMAIN TypesOf(F(k)), j \in DOMAIN TypesOf(F(l)) :
        i = j \/ TypesOf(F(k))[i] = TypesOf(F(l))[j] => k = l /\ i = j
  BY <1>7
<1> QED
  BY <1>4, <1>6, <1>8 DEF Sound, F

\* A file that is not opened is one that is listed twice or cannot be loaded.
LEMMA OpenDies ==
  ASSUME TypeOK, Open, life' # "starting", life = "starting"
  PROVE  ~Sound
<1>1. phase = "open" /\ at \in DOMAIN document.plugins
  BY DEF Open
<1>2. document.plugins[at] \in loaded_files \/ library[document.plugins[at]] = Unloadable
  BY DEF Open, Go
<1>3. CASE document.plugins[at] \in loaded_files
  <2>1. document.plugins[at] \in {document.plugins[k] : k \in 1 .. at - 1}
    BY <1>1, <1>3 DEF TypeOK, Opened
  <2>2. PICK k \in 1 .. at - 1 : document.plugins[k] = document.plugins[at]
    BY <2>1
  <2>3. document.plugins \in Seq(File) /\ at \in Nat \ {0}
    BY <1>1 DEF TypeOK
  <2>4. k \in DOMAIN document.plugins /\ k # at
    BY <1>1, <2>2, <2>3
  <2> QED
    BY <1>1, <2>2, <2>4 DEF Sound
<1> QED
  BY <1>1, <1>2, <1>3 DEF Sound

\* A type that is not imported has an id or a name that is there twice.
LEMMA ImportDies ==
  ASSUME TypeOK, OneToOne, CoverInv, Import, life' # "starting", life = "starting"
  PROVE  ~Sound
<1> DEFINE f == document.plugins[at]
           i == CHOOSE j \in rest : \A k \in rest : j <= k
           n == TypesOf(f)[i]
<1>1. Taken(i, n) /\ phase = "import"
  BY DEF Import, Go, Die
<1>2. /\ document.plugins \in Seq(File) /\ at \in 1 .. Len(document.plugins)
      /\ rest \subseteq DOMAIN TypesOf(f)
  BY <1>1 DEF TypeOK
<1>3. f \in File /\ f \in loaded_files /\ library[f] # Unloadable
  BY <1>1, <1>2 DEF TypeOK, Opened
<1>4. i \in rest
  <2>1. rest \subseteq Nat /\ rest # {}
    BY <1>2, <1>3, TypesOfFile DEF Import
  <2>2. \E j \in rest : \A k \in rest : j <= k
    BY <2>1, Least
  <2> QED
    BY <2>2
<1> HIDE DEF i
<1>5. \E j \in DOMAIN loaded_types : j = i \/ loaded_types[j].name = n
  BY <1>1 DEF Taken, OneToOne
<1>6. PICK j \in DOMAIN loaded_types : j = i \/ loaded_types[j].name = n
  BY <1>5
<1>7. PICK k \in Nat : IsImported(k, j) /\ loaded_types[j].file = document.plugins[k]
  BY DEF CoverInv
<1>8. /\ k \in DOMAIN document.plugins
      /\ j \in DOMAIN TypesOf(document.plugins[k])
      /\ ~(k = at /\ j \in rest)
  BY <1>1, <1>7 DEF IsImported, Reached
<1>9. loaded_types[j].name = TypesOf(document.plugins[k])[j]
  BY <1>7 DEF OneToOne
<1>10. at \in DOMAIN document.plugins /\ i \in DOMAIN TypesOf(document.plugins[at])
  BY <1>2, <1>4
<1>11. Sound => k = at /\ j = i
  BY <1>6, <1>8, <1>9, <1>10 DEF Sound
<1> QED
  BY <1>4, <1>8, <1>11

\* Only an id that was imported from another file is added to the text.
LEMMA ImportUndefined ==
  ASSUME TypeOK, OneToOne, CoverInv, Import, life' = "undefined", life = "starting"
  PROVE  LongIdTwice
<1> DEFINE f == document.plugins[at]
           i == CHOOSE j \in rest : \A k \in rest : j <= k
<1>1. phase = "import" /\ i \in DOMAIN loaded_types /\ i > MessageLength
  BY DEF Import, Go, Die, Outcomes
<1>2. /\ document.plugins \in Seq(File) /\ at \in 1 .. Len(document.plugins)
      /\ rest \subseteq DOMAIN TypesOf(f)
  BY <1>1 DEF TypeOK
<1>3. f \in File /\ library[f] # Unloadable
  BY <1>1, <1>2 DEF TypeOK, Opened
<1>4. i \in rest
  <2>1. rest \subseteq Nat /\ rest # {}
    BY <1>2, <1>3, TypesOfFile DEF Import
  <2>2. \E j \in rest : \A k \in rest : j <= k
    BY <2>1, Least
  <2> QED
    BY <2>2
<1> HIDE DEF i
<1>5. PICK k \in Nat : IsImported(k, i)
  BY <1>1 DEF CoverInv
<1>6. /\ k \in DOMAIN document.plugins /\ k # at
      /\ i \in DOMAIN TypesOf(document.plugins[k])
  BY <1>1, <1>4, <1>5 DEF IsImported, Reached
<1>7. at \in DOMAIN document.plugins /\ i \in DOMAIN TypesOf(f)
  BY <1>2, <1>4
<1> QED
  BY <1>1, <1>6, <1>7 DEF LongIdTwice

\* A type that is not found is in no plug-in.
LEMMA InstantiateDies ==
  ASSUME TypeOK, OneToOne, CoverInv, Instantiate, life' # "starting", life = "starting"
  PROVE  ~Offered(document.effects[at])
<1> DEFINE n == document.effects[at]
<1>1. /\ phase = "effects"
      /\ n \notin DOMAIN name_to_id \/ name_to_id[n] \notin DOMAIN loaded_types
  BY DEF Instantiate, Go, Die
<1>2. SUFFICES ASSUME Offered(n) PROVE FALSE
  OBVIOUS
<1>3. PICK k \in DOMAIN document.plugins : \E i \in DOMAIN TypesOf(document.plugins[k]) :
        TypesOf(document.plugins[k])[i] = n
  BY <1>2 DEF Offered
<1>4. PICK i \in DOMAIN TypesOf(document.plugins[k]) : TypesOf(document.plugins[k])[i] = n
  BY <1>3
<1>5. document.plugins \in Seq(File) /\ k \in Nat
  BY <1>1 DEF TypeOK
<1>6. IsImported(k, i)
  BY <1>1 DEF IsImported, Reached
<1>7. document.plugins[k] \in loaded_files /\ document.plugins[k] \in File
  BY <1>1, <1>5 DEF TypeOK, Opened
<1>8. i \in Nat
  BY <1>7, TypesOfFile DEF TypeOK
<1>9. i \in DOMAIN loaded_types /\ loaded_types[i].name = n
  BY <1>4, <1>5, <1>6, <1>8 DEF CoverInv
<1> QED
  BY <1>1, <1>9 DEF OneToOne

LEMMA DecidedStep ==
  ASSUME TypeOK, OneToOne, CoverInv, DistinctInv, DecidedByContents, [Next]_vars
  PROVE  DecidedByContents'
<1>0. document' = document /\ library' = library /\ \A f : TypesOf(f)' = TypesOf(f)
  BY Given, SameTypes
<1>1. Sound' <=> Sound
  <2> DEFINE D == DOMAIN document.plugins
             T(k) == TypesOf(document.plugins[k])
             Same(k, l) == document.plugins[k] = document.plugins[l]
             Bad(k) == library[document.plugins[k]] = Unloadable
             Clash(k, l, i, j) == i = j \/ T(k)[i] = T(l)[j]
  <2>1. \A k : T(k)' = T(k)
    BY <1>0
  <2>2. D' = D /\ \A k, l : Same(k, l)' <=> Same(k, l)
    BY <1>0
  <2>5. \A k : Bad(k)' <=> Bad(k)
    BY <1>0
  <2>6. \A k, l, i, j : Clash(k, l, i, j)' <=> Clash(k, l, i, j)
    <3> HIDE DEF T
    <3> QED
      BY <2>1
  <2>3. Sound <=> /\ \A k, l \in D : Same(k, l) => k = l
                  /\ \A k \in D : ~Bad(k)
                  /\ \A k, l \in D : \A i \in DOMAIN T(k), j \in DOMAIN T(l) :
                       Clash(k, l, i, j) => k = l /\ i = j
    BY DEF Sound
  <2>4. Sound' <=> /\ \A k, l \in D' : Same(k, l)' => k = l
                   /\ \A k \in D' : ~Bad(k)'
                   /\ \A k, l \in D' : \A i \in DOMAIN T(k)', j \in DOMAIN T(l)' :
                        Clash(k, l, i, j)' => k = l /\ i = j
    BY DEF Sound
  <2> HIDE DEF D, T, Same, Bad, Clash
  <2> QED
    BY <2>1, <2>2, <2>3, <2>4, <2>5, <2>6
<1>2. \A n : Offered(n)' <=> Offered(n)
  BY <1>0 DEF Offered
<1>long. LongIdTwice => LongIdTwice'
  <2>1. document.plugins' = document.plugins
    BY <1>0
  <2>2. \A k : TypesOf(document.plugins[k])' = TypesOf(document.plugins[k])
    BY <1>0
  <2> QED
    BY <2>1, <2>2 DEF LongIdTwice
<1>3. CASE GetRoutes
  BY <1>3 DEF GetRoutes, Go, Die, DecidedByContents
<1>4. CASE GetPlugins
  BY <1>4 DEF GetPlugins, Go, Die, DecidedByContents
<1>5. CASE Open
  <2>1. life = "starting" /\ phase = "open"
    BY <1>5 DEF Open, Go, Die
  <2>2. CASE life' = "starting"
    BY <1>5, <2>1, <2>2, OpenStep DEF DecidedByContents
  <2>3. CASE life' # "starting"
    BY <1>1, <1>5, <2>1, <2>3, OpenDies DEF Open, Go, Die, DecidedByContents
  <2> QED
    BY <2>2, <2>3
<1>6. CASE Import
  <2>1. life = "starting" /\ phase = "import" /\ phase' = "import"
    BY <1>6 DEF Import, Go, Die
  <2>2. CASE life' = "starting"
    BY <2>1, <2>2 DEF DecidedByContents
  <2>3. CASE life' # "starting"
    BY <1>1, <1>6, <1>long, <2>1, <2>3, ImportDies, ImportUndefined DEF DecidedByContents
  <2> QED
    BY <2>2, <2>3
<1>7. CASE Imported
  BY <1>7 DEF Imported, Go, DecidedByContents
<1>8. CASE AllOpen
  <2>1. Sound
    BY <1>8, AllOpenSound DEF AllOpen, Go
  <2> QED
    BY <1>1, <1>8, <2>1 DEF AllOpen, Go, DecidedByContents
<1>9. CASE GetChains
  BY <1>1, <1>9 DEF GetChains, Go, Die, DecidedByContents
<1>10. CASE Instantiate
  <2>1. life = "starting" /\ phase = "effects" /\ phase' = "effects"
    BY <1>10 DEF Instantiate, Go, Die
  <2>2. CASE life' = "starting"
    BY <1>1, <2>1, <2>2 DEF DecidedByContents
  <2>3. CASE life' # "starting"
    <3>1. ~Offered(document.effects[at]) /\ at' = at
      BY <1>10, <2>1, <2>3, InstantiateDies DEF Instantiate, Go, Die
    <3>2. ~Offered(document.effects[at])'
      BY <1>0, <1>2, <3>1 DEF Offered
    <3> QED
      BY <1>1, <2>1, <3>2 DEF DecidedByContents
  <2> QED
    BY <2>2, <2>3
<1>11. CASE NoHandle
  BY <1>1, <1>11 DEF NoHandle, Die, DecidedByContents
<1>12. CASE Ready
  BY <1>1, <1>12 DEF Ready, DecidedByContents
<1>13. CASE UNCHANGED vars
  BY <1>0, <1>1, <1>2, <1>13, <1>long DEF vars, DecidedByContents, Offered
<1> QED
  BY <1>3, <1>4, <1>5, <1>6, <1>7, <1>8, <1>9, <1>10, <1>11, <1>12, <1>13 DEF Next

\* Opening plug-ins is refused exactly if the list as a whole does not make
\* sense, in whatever order, and an effect exactly if no plug-in has its type; the
\* refusal reads beyond its text only for a large id that two plug-ins share
\* (src/ladspa.cxx:29-61, 72-86, src/audio.cxx:121-126).
THEOREM Decided == Spec => []DecidedByContents
<1>1. Init => IInv
  <2>1. ASSUME Init PROVE OneToOne /\ CoverInv /\ DistinctInv /\ DecidedByContents
    BY <2>1 DEF Init, OneToOne, CoverInv, DistinctInv, DecidedByContents, IsImported, Reached, Empty
  <2> QED
    BY <2>1, TypesInit DEF IInv
<1>2. IInv /\ [Next]_vars => IInv'
  BY TypeStep, StageStep, OneToOneStep, CoverStep, DistinctStep, DecidedStep DEF IInv
<1>3. IInv => DecidedByContents
  BY DEF IInv
<1> QED
  BY <1>1, <1>2, <1>3, PTL DEF Spec

LEMMA RightTypesStep ==
  ASSUME TypeOK, OneToOne, RightTypes, [Next]_vars
  PROVE  RightTypes'
<1>0. document' = document /\ library' = library /\ \A f : TypesOf(f)' = TypesOf(f)
  BY Given, SameTypes
<1>1. CASE made' = made
  BY <1>0, <1>1 DEF RightTypes
<1>2. CASE life = "starting" /\ life' = life /\ Instantiate
  <2>1. PICK n \in Name :
           /\ phase = "effects" /\ phase' = "effects"
           /\ at \in DOMAIN document.effects /\ n = document.effects[at]
           /\ n \in DOMAIN name_to_id /\ name_to_id[n] \in DOMAIN loaded_types
           /\ made' = Append(made, loaded_types[name_to_id[n]])
           /\ at' = at + 1
           /\ UNCHANGED <<library, document, rest, loaded_files, loaded_types, name_to_id>>
    BY <1>2, InstantiateStep
  <2>2. PICK t \in DOMAIN loaded_types : t = name_to_id[n]
    BY <2>1
  <2>3. loaded_types[t].name = n /\ t \in DOMAIN TypesOf(loaded_types[t].file)
        /\ TypesOf(loaded_types[t].file)[t] = n
    BY <2>1, <2>2 DEF OneToOne
  <2>4. made \in Seq([file : File, name : Name]) /\ at = Len(made) + 1
    BY <2>1 DEF TypeOK
  <2>5. ASSUME NEW k \in DOMAIN made'
        PROVE  /\ made'[k].name = document.effects[k]
               /\ \E i \in DOMAIN TypesOf(made'[k].file) : TypesOf(made'[k].file)[i] = made'[k].name
    <3>1. CASE k \in DOMAIN made
      <4>1. made'[k] = made[k]
        BY <2>1, <2>4, <3>1
      <4> QED
        BY <2>1, <3>1, <4>1 DEF RightTypes
    <3>2. CASE k = at
      <4>1. made'[k] = loaded_types[t]
        BY <2>1, <2>2, <2>4, <3>2
      <4> QED
        BY <2>1, <2>3, <3>2, <4>1
    <3> QED
      BY <2>1, <2>4, <3>1, <3>2
  <2> QED
    BY <1>0, <2>5 DEF RightTypes
<1>3. CASE life = "starting" /\ life' = life /\ (Open \/ Import)
  BY <1>1, <1>3, OpenStep, ImportStep
<1> QED
  BY <1>1, <1>2, <1>3, Steps DEF StepOfRegistry, Ending, Moving

\* Each effect has the type that the config file names, as a file of its list
\* defines it (src/ladspa.cxx:72-99).
THEOREM RightlyTyped == Spec => []RightTypes
<1>1. Init => RightTypes
  BY DEF Init, RightTypes
<1>2. TypeOK /\ OneToOne /\ RightTypes /\ [Next]_vars => RightTypes'
  BY RightTypesStep
<1> QED
  BY <1>1, <1>2, TypeCorrect, Paired, PTL DEF Spec
=============================================================================
