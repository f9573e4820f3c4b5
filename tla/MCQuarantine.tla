----------------------------- MODULE MCQuarantine -----------------------------
(* Instance of Quarantine for TLC: a registry, a public server it redirects to
   and one the guard refuses; archives that stay within the limits or break one
   of them, alone or after the others were used up; evidence of four kinds.  *)
EXTENDS Quarantine

CONSTANTS home, cdn, lan, b1, b2

E(kind, size, top, parents, escapes) ==
  [kind |-> kind, size |-> size, top |-> top, parents |-> parents, escapes |-> escapes]
F(size) == E("file", size, "package", 0, FALSE)
M == E("manifest", 1, "package", 0, FALSE)

Arc(content, entries, disagree) ==
  [content |-> content, size |-> 2, inflated |-> 4, entries |-> entries,
   disagree |-> disagree, corrupt |-> FALSE]

MCArchives ==
  {Arc(b, <<M, F(1)>>, d) : b \in {b1, b2}, d \in {{}, {"declared_hook"}, {"hidden_hook", "dependencies"}}}
  \cup {Arc(b1, es, {}) : es \in {
         <<>>,
         <<F(2), M, F(2)>>,                                    \* too much in all
         <<M, F(3), F(1)>>,                                    \* one file too large
         <<M, F(1), F(0), F(0)>>,                              \* too many files
         <<E("link", 9, "package", 0, FALSE), M, F(1)>>,
         <<M, E("file", 1, "package", 2, FALSE)>>,             \* too many directories
         <<E("file", 1, "other", 0, FALSE), M>>,               \* two top-level directories
         <<E("manifest", 1, "node", 0, FALSE)>>,               \* one that is not "package"
         <<M, E("file", 1, "package", 0, TRUE), F(1)>>}}       \* outside of the directory
  \cup {[Arc(b1, <<M>>, {}) EXCEPT !.size = 5],
        [Arc(b1, <<M>>, {}) EXCEPT !.inflated = 9],
        [Arc(b1, <<M, F(1)>>, {}) EXCEPT !.corrupt = TRUE]}

Sri(s) == [NoChecksums EXCEPT !.integrity = s]
Sum(a, b) == [algorithm |-> a, of |-> b]
Checksums == {NoChecksums, Sri(<<Sum("sha512", b1)>>), Sri(<<Sum("md5", b1)>>),
              Sri(<<Sum("sha1", b2), Sum("sha512", b1)>>),
              Sri(<<Sum("sha512", b1), Sum("sha512", b2)>>),
              [NoChecksums EXCEPT !.shasum = b1],
              [NoChecksums EXCEPT !.blank = TRUE, !.shasum = b2]}

Ev(registry, lockfile, trusted, history, public) ==
  [registry |-> registry, lockfile |-> lockfile, lockfileTrusted |-> trusted,
   history |-> history, public |-> public, publicChecksums |-> Sri(<<Sum("sha256", b2)>>)]

MCEvidence ==
  {Ev(r, NoChecksums, FALSE, h, p) : r \in Checksums, h \in {NoBytes, b1}, p \in PublicStatus}
  \cup {Ev(NoChecksums, Sri(<<Sum("sha512", b1)>>), t, NoBytes, "skipped") : t \in BOOLEAN}
=============================================================================
