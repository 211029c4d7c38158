-------------------------------- MODULE Schema --------------------------------
(***************************************************************************)
(* crates/parquet-lab/src/schema.rs: the tree rebuilt from the footer's    *)
(* flat list of elements, and its leaves.  A leaf's path is its nodes';    *)
(* the names of a group's children are different, so that path_fields,     *)
(* which finds a leaf's nodes by name, finds these.  A read's position     *)
(* counts elements.                                                        *)
(***************************************************************************)
EXTENDS ByteReader, SequencesExt, Nested

\* subtree: an element and the next n subtrees, if it says it has n children.
RECURSIVE Subtree(_, _), Children(_, _, _)
Subtree(elements, index) ==
    LET e == elements[index + 1]
        n == Max({e.num_children, 0})
    IN  Try(Children(elements, index + 1, n), LAMBDA children :
            IF index > 0 /\ n = 0 /\ e.physical_type = <<>> THEN ReadError
            ELSE Read([element |-> e, children |-> children.v], children.at))

Children(elements, next, n) ==
    IF n = 0 THEN Read(<<>>, next)
    ELSE IF next >= Len(elements) THEN ReadError
    ELSE Try(Subtree(elements, next), LAMBDA first :
         Try(Children(elements, first.at, n - 1), LAMBDA rest :
             Read(<<first.v>> \o rest.v, rest.at)))

\* build: the root's subtree is the whole list.
Build(elements) ==
    IF elements = <<>> THEN ReadError
    ELSE Try(Subtree(elements, 0), LAMBDA root :
             IF root.at = Len(elements) THEN root ELSE ReadError)

\* leaves: in column order, with the largest levels their values can have.
LeafAt(element, path) ==
    [path |-> path, physical_type |-> element.physical_type[1], type_length |-> Max({element.type_length, 0}),
     logical_type |-> element.logical_type, converted_type |-> element.converted_type,
     max_def |-> MaxDef(path), max_rep |-> MaxRep(path)]

RECURSIVE Leaves(_, _)
Leaves(node, path) ==
    LET leaves(child) ==
            LET e    == child.element
                here == Append(path, [name |-> e.name, repetition |-> e.repetition, is_list |-> e.is_list])
            IN  IF child.children = <<>> THEN <<LeafAt(e, here)>> ELSE Leaves(child, here)
    IN  FlattenSeq([c \in DOMAIN node.children |-> leaves(node.children[c])])
=============================================================================
