-------------------------- MODULE MCLadspaRegistry --------------------------
(***************************************************************************)
(* Two plug-in files with up to two descriptors each, with ids and names   *)
(* that clash within a file, across files or not, and all short lists of   *)
(* plug-ins and effects.                                                   *)
(***************************************************************************)
EXTENDS LadspaRegistry

MCFile == {"amp.so", "delay.so"}

MCName == {"amp", "delay"}

Types == [id : 1 .. 3, name : MCName]

Contents ==
  {Unloadable} \union {<<d>> : d \in Types} \union {<<d, e>> : d, e \in Types}

MCLibraries == [MCFile -> Contents]

MCDocuments ==
  [routes  : {"some"},
   plugins : {<<"amp.so">>, <<"amp.so", "delay.so">>, <<"amp.so", "amp.so">>},
   effects : {<<"amp">>, <<"delay", "amp">>}]
  \union [routes : {"some", Absent}, plugins : {Absent, Malformed}, effects : {Absent}]
  \union [routes : {"some"}, plugins : {<<>>}, effects : {<<>>, <<"amp">>, Absent, Malformed}]
=============================================================================
