------------------------------- MODULE Router --------------------------------
(***************************************************************************)
(* crow's Router (routing.h): one trie of rules per method, built from the *)
(* routes the debug server registers, and the answers of handle_initial.   *)
(* The only parameter of a rule is the <path> of the static directory; no  *)
(* rule ends in a slash, and there are no blueprints.                      *)
(***************************************************************************)
EXTENDS Integers, Sequences, SequencesExt

At(s, i) == IF i < Len(s) THEN SubSeq(s, i + 1, i + 1) ELSE ""    \* s[i]

\* Op(v), with v evaluated once.
Strict(v, Op(_)) == CHOOSE r \in {Op(x) : x \in {v}} : TRUE

\* The routes of SysdarftConsole/, in the order of RemoteDebugServer's constructor,
\* and the one run() adds: a rule, its methods, and whether it is a websocket.
Routes ==
    << [rule |-> "/Action", methods |-> {"POST"}, websocket |-> FALSE],
       [rule |-> "/Continue", methods |-> {"POST"}, websocket |-> FALSE],
       [rule |-> "/ShowContext", methods |-> {"GET"}, websocket |-> FALSE],
       [rule |-> "/intAlertSSE", methods |-> {"GET"}, websocket |-> TRUE],
       [rule |-> "/IsAPIAvailable", methods |-> {"GET"}, websocket |-> FALSE],
       [rule |-> "/SetBreakpoint", methods |-> {"POST"}, websocket |-> FALSE],
       [rule |-> "/ShowBreakpoint", methods |-> {"GET"}, websocket |-> FALSE],
       [rule |-> "/Stepi", methods |-> {"POST"}, websocket |-> FALSE],
       [rule |-> "/Watcher", methods |-> {"POST"}, websocket |-> FALSE],
       [rule |-> "/DisassembleMemory", methods |-> {"GET"}, websocket |-> FALSE],
       [rule |-> "/PullData", methods |-> {"POST"}, websocket |-> FALSE],
       [rule |-> "/static/<path>", methods |-> {"GET"}, websocket |-> FALSE] >>

Methods == UNION {Routes[i].methods : i \in DOMAIN Routes}

-----------------------------------------------------------------------------
(* The trie.                                                               *)

NewNode(key) == [key |-> key, rule_index |-> 0, children |-> <<>>]
PATH == "<path>"                                \* the key of a node with a parameter

\* Trie::add, one character or one parameter a node: the first child with that key is
\* followed.
RECURSIVE Add(_, _, _, _)
Add(node, url, i, rule_index) ==
    IF i = Len(url) THEN [node EXCEPT !.rule_index = rule_index]
    ELSE LET key   == IF At(url, i) = "<" THEN PATH ELSE At(url, i)
             at    == SelectInSeq(node.children, LAMBDA child : child.key = key)
             child == IF at = 0 THEN NewNode(key) ELSE node.children[at]
         IN  Strict(Strict(child, LAMBDA x : Add(x, url, i + Len(key), rule_index)), LAMBDA added :
                [node EXCEPT !.children = IF at = 0 THEN Append(@, added)
                                          ELSE [@ EXCEPT ![at] = added]])

\* IsSimpleNode and optimizeNode: chains of single children become one key.
RECURSIVE OptimizeNode(_)
OptimizeNode(node) ==
    IF node.children = <<>> THEN node
    ELSE IF node.rule_index = 0 /\ Len(node.children) < 2 /\ node.children[1].key # PATH
         THEN LET child == node.children[1]
              IN  Strict([child EXCEPT !.key = node.key \o child.key], OptimizeNode)
         ELSE [node EXCEPT !.children =
                [i \in DOMAIN node.children |-> Strict(node.children[i], OptimizeNode)]]

\* validate: the rules of a method are numbered from 2, which 0 and 1 precede, and
\* optimize leaves the head as it is.
RulesOf(method) == SelectSeq(Routes, LAMBDA r : method \in r.methods)

TrieOf(method) ==
    LET rules == RulesOf(method)
        head == FoldLeft(LAMBDA node, i : Add(node, rules[i].rule, 0, i + 1),
                         NewNode(""), [i \in DOMAIN rules |-> i])
    IN  [head EXCEPT !.children =
            [i \in DOMAIN head.children |-> Strict(head.children[i], OptimizeNode)]]

per_methods == [m \in Methods |-> TrieOf(m)]

\* Trie::find: of the rules below the matching children the one with the least index.
RECURSIVE Find(_, _, _)
Find(node, url, pos) ==
    IF pos = Len(url) THEN node.rule_index
    ELSE LET end(child) == IF child.key = PATH THEN Len(url) ELSE pos + Len(child.key)
             matches == SelectSeq(node.children, LAMBDA child :
                           \/ child.key = PATH
                           \/ end(child) <= Len(url)
                                /\ SubSeq(url, pos + 1, end(child)) = child.key)
             found == {Find(matches[i], url, end(matches[i])) : i \in DOMAIN matches} \ {0}
         IN  IF found = {} THEN 0 ELSE CHOOSE f \in found : \A g \in found : f <= g

\* The rules of all methods for a url.
RuleIndices(url) == [m \in Methods |-> Find(per_methods[m], url, 0)]

-----------------------------------------------------------------------------
(* handle_initial: the rule, or the code of the error.                     *)

NotFound(found, method) ==
    LET elsewhere == \E m \in Methods : found[m] # 0
    IN  [rule |-> 0, method |-> method,
         code |-> IF elsewhere /\ method = "OPTIONS" THEN 204
                  ELSE IF elsewhere /\ method # "HEAD" THEN 405 ELSE 404]

\* Mutant: HEAD is looked up among the rules of HEAD alone.
HandleInitial_NoHead(method, url) ==
    Strict(RuleIndices(url), LAMBDA found :
        IF method \in Methods /\ found[method] # 0
        THEN [rule |-> found[method], method |-> method, code |-> 200]
        ELSE NotFound(found, method))

\* There are no rules for HEAD, and "/*" asks for the methods of the server.
HandleInitial(method, url) ==
    Strict(RuleIndices(url), LAMBDA found :
        LET actual == IF method = "HEAD" THEN "GET" ELSE method
        IN  IF actual \in Methods /\ found[actual] # 0
            THEN [rule |-> found[actual], method |-> actual, code |-> 200]
            ELSE IF method = "OPTIONS" /\ url = "/*"
            THEN [rule |-> 0, method |-> method, code |-> 204]
            ELSE NotFound(found, method))

Routed(method, url) == HandleInitial(method, url).rule # 0
==============================================================================
