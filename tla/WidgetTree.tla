------------------------------ MODULE WidgetTree ------------------------------
(***************************************************************************)
(* The widget tree of a surface (wyrd-widgets: widgets/mod.rs, tree.rs and *)
(* builder.rs) between two ways of changing it.  The host rebuilds it from *)
(* its configuration, diff_trees and apply_diff carrying over the widgets  *)
(* that match, and modules replace the children of their widgets by those  *)
(* of a payload, in place when the shapes agree.                           *)
(*                                                                         *)
(* A configuration of a widget is [id, kind, text, spans, style, valid,    *)
(* children]: kind stands for the variant of WidgetContent, text for its   *)
(* data, style for a style of its own or None, and valid is FALSE for a    *)
(* payload item that is no WidgetConfig.  A node has the style it ended up *)
(* with, the links of the tree, and what is set while it is shown.  An id  *)
(* is [form, name]: the prefixes and the suffix that mark popups are its   *)
(* form.                                                                   *)
(***************************************************************************)
EXTENDS Integers, Sequences, SequencesExt, FiniteSets, FiniteSetsExt, Functions, TLC

CONSTANTS
    Configs,      \* configurations of the root
    Payloads,     \* children a module sends: sequences of configurations
    Targets,      \* widget ids of updates
    Modules,      \* modules that send them
    DefaultStyle, \* find_default_style
    MaxSlots,     \* bound on the keys of the slot map
    MaxTouched,   \* bound on the widgets scrolled or focused at once
    None          \* no id, no style, no parent, no root

VARIABLES
    tree,      \* [nodes, next]: slot -> node, and the next key of the slot map
    root,      \* a slot or None
    last       \* history: what the last step was made of

vars == <<tree, root, last>>

SlotIndices == 1 .. MaxSlots

Empty == [nodes |-> <<>>, next |-> 1]

RECURSIVE Size(_), SizeOfAll(_), Below(_, _)
Size(config) == 1 + SizeOfAll(config.children)
SizeOfAll(configs) == FoldLeft(LAMBDA n, c : n + Size(c), 0, configs)

\* A slot and all under it: what collect_subtree lists and remove_subtree removes.
Below(nodes, slot) ==
    {slot} \cup UNION {Below(nodes, c) : c \in Range(nodes[slot].children)}

Ascending(slots) ==
    [i \in 1 .. Cardinality(slots) |->
        CHOOSE s \in slots : Cardinality({r \in slots : r < s}) = i - 1]

-----------------------------------------------------------------------------
(* builder.rs *)

\* The node of a configuration, before its children.
Fresh(config, style, parent) ==
    [id |-> config.id, kind |-> config.kind, text |-> config.text, spans |-> config.spans,
     style |-> style, parent |-> parent, children |-> <<>>, scroll |-> 0, focused |-> FALSE]

\* The style a configuration names, or that it is handed down.
Styled(config, style) == IF config.style # None THEN config.style ELSE style

\* Without a style of its own, a text takes that of its parent and any other widget
\* the default one.
Inherited(nodes, parent, config) ==
    IF parent = None \/ config.kind # "text" THEN DefaultStyle ELSE nodes[parent].style

\* insert_configured
RECURSIVE Insert(_, _, _)
Insert(t, parent, config) ==
    LET slot == t.next
        node == Fresh(config, Styled(config, Inherited(t.nodes, parent, config)), parent)
        linked == IF parent = None THEN t.nodes
                  ELSE [t.nodes EXCEPT ![parent].children = Append(@, slot)]
    IN  FoldLeft(LAMBDA acc, child : Insert(acc, slot, child),
                 [nodes |-> linked @@ (slot :> node), next |-> slot + 1], config.children)

\* from_config
Built(config) == Insert(Empty, None, config)

-----------------------------------------------------------------------------
(* tree.rs *)

SameKind(a, b) == a.kind = b.kind

\* Mutant: a widget with an id may take over one without.
CompatibleIfEither(a, b) == a.id = b.id \/ a.id = None

IdCompatible(a, b) == a.id = b.id

\* Passes 1 and 2 of diff_nodes_recursive: which children of o and n match, as
\* pairs of positions.  The second pass never goes back among the old ones.
ChildPairs(old, new, o, n) ==
    LET before == old[o].children
        after  == new[n].children
        byId == FoldLeft(LAMBDA pairs, i :
                    LET free == {k \in DOMAIN before :
                                     /\ \A p \in pairs : p[1] # k
                                     /\ old[before[k]].id = new[after[i]].id
                                     /\ SameKind(old[before[k]], new[after[i]])}
                    IN  IF new[after[i]].id = None \/ free = {} THEN pairs
                        ELSE pairs \cup {<<Min(free), i>>},
                    {}, [i \in DOMAIN after |-> i])
        rest == SelectSeq([i \in DOMAIN after |-> i], LAMBDA i : \A p \in byId : p[2] # i)
    IN  FoldLeft(LAMBDA acc, i :
            LET free == {k \in DOMAIN before :
                             /\ k >= acc.oi /\ \A p \in byId : p[1] # k
                             /\ IdCompatible(old[before[k]], new[after[i]])
                             /\ SameKind(old[before[k]], new[after[i]])}
            IN  IF free = {} THEN [acc EXCEPT !.oi = Len(before) + 1]
                ELSE [pairs |-> acc.pairs \cup {<<Min(free), i>>}, oi |-> Min(free) + 1],
            [pairs |-> byId, oi |-> 1], rest).pairs

\* diff_nodes_recursive: the pairs of slots that are preserved below o and n.
RECURSIVE Preserved(_, _, _, _)
Preserved(old, new, o, n) ==
    {<<o, n>>} \cup UNION {Preserved(old, new, old[o].children[p[1]], new[n].children[p[2]]) :
                           p \in ChildPairs(old, new, o, n)}

\* apply_diff for two trees whose roots are of one kind: removed nodes go, added
\* ones get slots of their own, preserved ones the data of their counterparts
\* (but not their text_spans), and all links are set anew.
Applied(t, new, oldRoot) ==
    LET old     == t.nodes
        pairs   == Preserved(old, new, oldRoot, 1)
        kept    == {p[1] : p \in pairs}
        added   == Ascending(DOMAIN new \ {p[2] : p \in pairs})
        of(n)   == IF \E p \in pairs : p[2] = n
                   THEN (CHOOSE p \in pairs : p[2] = n)[1]
                   ELSE t.next - 1 + CHOOSE k \in DOMAIN added : added[k] = n
        gone    == UNION {Below(old, s) : s \in {c \in DOMAIN old \ kept : old[c].parent \in kept}}
        link(n) == [new[n] EXCEPT !.parent = IF @ = None THEN None ELSE of(@),
                                  !.children = [i \in DOMAIN @ |-> of(@[i])]]
        placed  == {of(n) : n \in DOMAIN new}
        from(s) == CHOOSE n \in DOMAIN new : of(n) = s
    IN  [nodes |-> [s \in (DOMAIN old \ gone) \cup placed |->
                       IF s \in kept THEN [link(from(s)) EXCEPT !.spans = old[s].spans]
                       ELSE IF s \in placed THEN link(from(s)) ELSE old[s]],
         next  |-> t.next + Len(added)]

-----------------------------------------------------------------------------
(* mod.rs: the children a module sends *)

\* The node is made anew from its configuration, but for its links, its spans,
\* its scroll position and the content of an input that has the focus.
Refreshed(node, config, style) ==
    LET new == Fresh(config, Styled(config, style), node.parent)
        typing == node.kind = "input" /\ node.focused
    IN  [new EXCEPT !.children = node.children, !.scroll = node.scroll,
                    !.spans = node.spans, !.focused = typing,
                    !.kind = IF typing THEN node.kind ELSE @, !.text = IF typing THEN node.text ELSE @]

\* update_dynamic_children_in_place_for_ids: [nodes, ok]; what was written before
\* two shapes did not agree stays written.
RECURSIVE Overwrite(_, _, _, _)
Overwrite(nodes, slots, configs, style) ==
    FoldLeft(LAMBDA acc, i :
        LET s == slots[i]
            done == [acc.nodes EXCEPT ![s] = Refreshed(@, configs[i], style)]
        IN  IF ~acc.ok THEN acc
            ELSE IF Len(acc.nodes[s].children) # Len(configs[i].children) THEN [acc EXCEPT !.ok = FALSE]
            ELSE Overwrite(done, done[s].children, configs[i].children, done[s].style),
        [nodes |-> nodes, ok |-> TRUE], [i \in DOMAIN configs |-> i])

\* update_dynamic_children_in_place: the children themselves take the default
\* style, not that of their parent.
InPlace(nodes, parent, configs) ==
    LET slots == nodes[parent].children
        alike == /\ Len(slots) = Len(configs)
                 /\ \A i \in DOMAIN configs :
                        /\ configs[i].valid
                        /\ Len(nodes[slots[i]].children) = Len(configs[i].children)
    IN  IF alike THEN Overwrite(nodes, slots, configs, DefaultStyle)
        ELSE [nodes |-> nodes, ok |-> FALSE]

\* An item that is no configuration becomes a plain text in the parent's style.
Item(config) == IF config.valid THEN config
                ELSE [config EXCEPT !.kind = "text", !.style = None, !.children = <<>>]

\* The nodes of a subtree whose children are taken out.
Removed(nodes, parent) == UNION {Below(nodes, c) : c \in Range(nodes[parent].children)}

\* The old children go; the scroll position of a widget is handed on by its id.
Replaced(t, parent, configs) ==
    LET old == Removed(t.nodes, parent)
        bare == [s \in DOMAIN t.nodes \ old |->
                    IF s = parent THEN [t.nodes[s] EXCEPT !.children = <<>>] ELSE t.nodes[s]]
        saved(id) == IF id = None THEN {}
                     ELSE {t.nodes[s].scroll : s \in {o \in old : t.nodes[o].id = id}} \ {0}
        grow(acc, config) ==
            LET grown == Insert(acc, parent, Item(config))
            IN  IF ~config.valid THEN grown
                ELSE [grown EXCEPT !.nodes = [s \in DOMAIN @ |->
                         IF s < acc.next \/ saved(@[s].id) = {} THEN @[s]
                         ELSE [@[s] EXCEPT !.scroll = Max(saved(grown.nodes[s].id))]]]
    IN  FoldLeft(grow, [t EXCEPT !.nodes = bare], configs)

\* sync_dynamic_children
Synced(t, parent, configs) ==
    LET attempt == InPlace(t.nodes, parent, configs)
        written == [t EXCEPT !.nodes = attempt.nodes]
    IN  IF attempt.ok THEN written ELSE Replaced(written, parent, configs)

-----------------------------------------------------------------------------
(* mod.rs: which nodes an update is for *)

Popup(id) == id.form \in {"popup:", ":popup"}

\* ids_match: only the prefix is taken off.
IdsMatch(id, target, module) ==
    LET bare(i) == IF i.form = "popup:" THEN [i EXCEPT !.form = ""] ELSE i
    IN  \/ id = target
        \/ bare(id) = bare(target)
        \/ /\ target.name \in {"popup_root", "root", module} /\ target.form \in {"", "popup:"}
           /\ id.form \in {"", "popup:"} /\ id.name = module

\* node_matches_update_target; all is the tree it is asked of.
Matches(all, node, module, target) ==
    LET id == node.id
        rooted == id # None /\ (id.form = "popup_root:" \/ id.name = "popup_root")
        explicit == \E s \in DOMAIN all :
                        /\ all[s].id # None
                        /\ \/ all[s].id = target
                           \/ all[s].id.form = "popup:" /\ all[s].id.name = target.name
        broadcast == ~Popup(target) /\ target.name = module
    IN  IF node.kind = "module"
        THEN IF broadcast THEN node.text = module /\ (id = None \/ id.form # "popup:")
             ELSE \/ ~Popup(target) /\ node.text = target.name
                  \/ id # None /\ id.form # "popup_root:" /\ id.name = target.name
        ELSE /\ id # None
             /\ IF Popup(target)
                THEN \/ id = target
                     \/ id.form = "popup:" /\ id.name = target.name
                     \/ ~explicit /\ id.form = "popup_root:" /\ id.name = target.name
                     \/ ~explicit /\ id.form = "" /\ id.name = "popup_root" /\ target.name = id.name
                ELSE /\ id.form # "popup:" /\ ~rooted
                     /\ IdsMatch(id, target, module)

-----------------------------------------------------------------------------
(* Steps *)

Nothing == [kind |-> "other", before |-> <<>>, config |-> <<>>, synced |-> {}]

TypeOK ==
    /\ DOMAIN tree.nodes \subseteq 1 .. tree.next - 1
    /\ tree.next \in 1 .. MaxSlots
    /\ root \in DOMAIN tree.nodes \cup {None}
    /\ \A s \in DOMAIN tree.nodes :
           LET node == tree.nodes[s]
           IN  /\ node.parent \in SlotIndices \cup {None} /\ node.children \in Seq(SlotIndices)
               /\ node.scroll \in Nat /\ node.focused \in BOOLEAN

Init == tree = Empty /\ root = None /\ last = Nothing

\* diff_trees and apply_diff with the tree built from a configuration: a tree
\* without a root, or with one of another kind, is replaced as a whole.
Rebuild(config) ==
    LET new == Built(config)
        whole == IF root = None THEN TRUE ELSE tree.nodes[root].kind # config.kind
    IN  /\ (~whole => tree.next + Size(config) <= MaxSlots)
        /\ tree' = IF whole THEN new ELSE Applied(tree, new.nodes, root)
        /\ root' = IF whole THEN 1 ELSE root
        /\ last' = [Nothing EXCEPT !.kind = IF whole THEN "whole" ELSE "rebuild",
                                   !.before = tree.nodes, !.config = <<config>>]

\* WidgetTree::clear
Clear ==
    /\ root # None
    /\ tree' = [tree EXCEPT !.nodes = <<>>] /\ root' = None
    /\ last' = Nothing

\* update_module_for_output with children in the payload: every node it is for
\* and that may have children gets them, one node after the other.  The slot map
\* fills freed places, so later nodes may come first.
Update(module, target, configs) ==
    LET holds(nodes, s) == /\ s \in DOMAIN nodes /\ nodes[s].kind \in {"container", "module"}
                           /\ Matches(tree.nodes, nodes[s], module, target)
        step(acc, s) == IF ~holds(acc.tree.nodes, s) THEN acc
                        ELSE [tree |-> Synced(acc.tree, s, configs), synced |-> acc.synced \cup {s}]
    IN  \E order \in {Ascending(DOMAIN tree.nodes), Reverse(Ascending(DOMAIN tree.nodes))} :
            LET done == FoldLeft(step, [tree |-> tree, synced |-> {}], order)
            IN  /\ done.synced # {}
                /\ done.tree.next <= MaxSlots
                /\ tree' = done.tree
                /\ last' = [kind |-> "update", before |-> tree.nodes, config |-> configs,
                            synced |-> done.synced]
                /\ UNCHANGED root

\* What happens to one widget while the tree is shown: the user scrolls it, or an
\* input gets the focus.  MaxTouched bounds the widgets that have been touched.
Touch(s, node) ==
    /\ Cardinality({r \in DOMAIN tree.nodes : tree.nodes[r].scroll > 0 \/ tree.nodes[r].focused})
         < MaxTouched
    /\ tree' = [tree EXCEPT !.nodes[s] = node]
    /\ last' = Nothing /\ UNCHANGED root

Scroll(s) ==
    /\ tree.nodes[s].kind = "container" /\ tree.nodes[s].scroll = 0
    /\ Touch(s, [tree.nodes[s] EXCEPT !.scroll = 1])

Focus(s) ==
    /\ tree.nodes[s].kind = "input" /\ ~tree.nodes[s].focused
    /\ Touch(s, [tree.nodes[s] EXCEPT !.focused = TRUE])

Next ==
    \/ \E config \in Configs : Rebuild(config)
    \/ Clear
    \/ \E m \in Modules, target \in Targets, configs \in Payloads : Update(m, target, configs)
    \/ \E s \in DOMAIN tree.nodes : Scroll(s) \/ Focus(s)

Spec == Init /\ [][Next]_vars

-----------------------------------------------------------------------------
(* Properties *)

\* Whatever updates overwrote, removed and inserted: every node hangs under the
\* root, once, and its parent knows of it.
TreeIsSound ==
    LET nodes == tree.nodes
    IN  /\ DOMAIN nodes = IF root = None THEN {} ELSE Below(nodes, root)
        /\ \A s \in DOMAIN nodes :
               /\ IsInjective(nodes[s].children)
               /\ \A c \in Range(nodes[s].children) : nodes[c].parent = s
               /\ nodes[s].parent = None <=> s = root

\* What a subtree shows.
RECURSIVE Appearance(_, _)
Appearance(nodes, s) ==
    [id |-> nodes[s].id, kind |-> nodes[s].kind, text |-> nodes[s].text, style |-> nodes[s].style,
     children |-> [i \in DOMAIN nodes[s].children |-> Appearance(nodes, nodes[s].children[i])]]

\* A rebuilt tree looks like one built from the configuration, whatever was
\* carried over from the old one.  (The spans of a text are not looked at: a
\* preserved widget keeps its old ones.)
RebuildsShowTheConfig ==
    last.kind \in {"rebuild", "whole"} =>
        Appearance(tree.nodes, root) = Appearance(Built(last.config[1]).nodes, 1)

\* A widget with an id of its own among its siblings keeps its slot when its
\* parent does, and no slot passes to a widget of another id or kind.
WidgetsKeepTheirSlots ==
    last.kind = "rebuild" =>
        LET old == last.before
            new == tree.nodes
            lone(nodes, s) == \A r \in DOMAIN nodes \ {s} :
                                  nodes[r].parent = nodes[s].parent => nodes[r].id # nodes[s].id
        IN  /\ \A s \in (DOMAIN old \cap DOMAIN new) \ {root} :
                   old[s].id = new[s].id /\ old[s].kind = new[s].kind
            /\ \A s \in DOMAIN old \ {root}, r \in DOMAIN new :
                   /\ old[s].parent = new[r].parent /\ old[s].id # None
                   /\ old[s].id = new[r].id /\ old[s].kind = new[r].kind
                   /\ lone(old, s) /\ lone(new, r)
                   => s = r

\* A configuration that is shown: an input with the focus may hold on to its own
\* content, and children overwritten in place have lost the parent's style.
RECURSIVE Shown(_, _, _)
Shown(nodes, s, config) ==
    /\ nodes[s].id = config.id
    /\ nodes[s].focused \/ (nodes[s].kind = config.kind /\ nodes[s].text = config.text)
    /\ config.style # None => nodes[s].style = config.style
    /\ Len(nodes[s].children) = Len(config.children)
    /\ \A i \in DOMAIN config.children : Shown(nodes, nodes[s].children[i], config.children[i])

\* An update arrives at every node it is for (unless it is for one below it too),
\* in place or by replacing the children.  When it replaces them without having
\* overwritten any, widgets that are there before and after keep their scroll
\* position.
UpdatesAreShown ==
    last.kind = "update" =>
        LET new == tree.nodes
            lone(nodes, s) == \A r \in DOMAIN nodes \ {s} : nodes[r].id # nodes[s].id
        IN  \A s \in last.synced \cap DOMAIN new :
                /\ Below(new, s) \cap last.synced = {s} =>
                       /\ Len(new[s].children) = Len(last.config)
                       /\ \A i \in DOMAIN last.config :
                              Shown(new, new[s].children[i], Item(last.config[i]))
                /\ Len(last.before[s].children) # Len(last.config) /\ Cardinality(last.synced) = 1 =>
                       \A a \in DOMAIN last.before, b \in Below(new, s) \ {s} :
                           /\ last.before[a].id = new[b].id /\ new[b].id # None
                           /\ lone(last.before, a) /\ lone(new, b)
                           /\ a \in Below(last.before, s)
                           => new[b].scroll = last.before[a].scroll

\* The three together.
TreeShowsWhatItIsGiven == RebuildsShowTheConfig /\ WidgetsKeepTheirSlots /\ UpdatesAreShown
=============================================================================
