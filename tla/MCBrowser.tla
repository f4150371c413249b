------------------------------ MODULE MCBrowser ------------------------------
EXTENDS Browser

CONSTANTS f1, f2, r1, r2

Use(ps, ss, fs, rs) ==
    [pages |-> ps, sections |-> ss, families |-> fs, requests |-> rs, demos |-> {}]

\* What a behaviour may use: two devices and the session list; the register page next
\* to a sign-in; the approvals and the receipts; the attacks over a session; the
\* scripted demos, which share nothing, one by one.
MCScopes == {
    Use({"login", "dashboard"}, {"sessions"}, {f1, f2}, {}),
    Use({"login", "register", "dashboard"}, {"security"}, {f1}, {}),
    Use({"login", "dashboard"}, {"approvals", "activity"}, {f1}, {r1}),
    Use({"login", "dashboard", "dispute"}, {"approvals"}, {f1}, {r1, r2}),
    Use({"login", "dashboard", "attack", "phishing"}, {}, {f1, f2}, {})}
    \cup {[Use({"dashboard"}, {}, {f1}, {}) EXCEPT !.demos = {d}] : d \in Demos}
=============================================================================
