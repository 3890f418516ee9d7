-------------------------- MODULE ActionClassifier --------------------------
(* From a tool request to the classified action that Governance decides      *)
(* about: bridgeToActionRequest of the gateway, the ActionClassifier and the *)
(* four guards of the policy engine.                                         *)
(*                                                                           *)
(* A text is the set of marks that some condition or pattern of the code     *)
(* finds in it: an argument list with a --force in it has the mark "force",  *)
(* a text that one of SECRET_VARIABLE_PATTERNS matches "secretVariable".     *)
EXTENDS Governance

GitSubcommands == {"status", "log", "diff", "show", "ls-remote", "rev-parse", "branch",
                   "add", "commit", "push", "reset", "clean", "fetch", "ls-files",
                   "other"}
HttpMethods == {"GET", "HEAD", "OPTIONS", "POST", "PUT", "PATCH", "DELETE"}

NoCommand == [base |-> "none", sub |-> "none", marks |-> {}]

\* A tool request keeps of toolId and environment the name;  says: the words in
\* operationId;  subcommand: the parameter, or what operationId says after git.;
\* method: the parameter or "none";  lead: the first argument;  args, resource,
\* content, parameters: the marks of these texts;  command: its first two words
\* and the marks of the rest;  paths: the files the parameters name;  target: the
\* file that targetResource names, if it does.
-----------------------------------------------------------------------------
(* bridgeToActionRequest.                                                    *)
HttpMethodFromOperation(says) ==
    IF "get" \in says THEN "GET"
    ELSE IF "post" \in says THEN "POST"
    ELSE IF "put" \in says THEN "PUT"
    ELSE IF "patch" \in says THEN "PATCH"
    ELSE IF "delete" \in says THEN "DELETE"
    ELSE "none"

MapEnvironment(env) ==
    IF env \in {"production", "prod"} THEN "PRODUCTION"
    ELSE IF env \in {"staging", "stage"} THEN "STAGING"
    ELSE IF env = "test" THEN "TEST"
    ELSE "LOCAL"

BridgeToActionRequest(r) ==
    [tool |-> r.tool, says |-> r.says, args |-> r.args, lead |-> r.lead,
     command |-> r.command, resource |-> r.resource, content |-> r.content,
     parameters |-> r.parameters,
     environment |-> MapEnvironment(r.environment),
     gitOperation |-> IF r.tool = "git" THEN r.subcommand ELSE "none",
     httpMethod |-> IF r.method # "none" THEN r.method
                    ELSE IF r.tool \in {"http", "fetch"}
                         THEN HttpMethodFromOperation(r.says) ELSE "none",
     targetFilePaths |-> r.paths \cup r.target]
-----------------------------------------------------------------------------
(* ActionClassifier.classify. An operator yields the classes that its method *)
(* adds.                                                                     *)
If(condition, classes) == IF condition THEN classes ELSE {}

ClassifyDatabaseOperation(says) ==
    IF says \cap {"select", "read", "find", "get"} # {} THEN {"DATABASE_READ"}
    ELSE {"DATABASE_MUTATION"}
         \cup If(says \cap {"migrate", "schema"} # {}, {"SCHEMA_MUTATION"})

ClassifyByTool(r) ==
    IF r.tool \in {"filesystem", "sandbox-filesystem"}
    THEN IF "read" \in r.says THEN {"READ_ONLY"}
         ELSE If(r.says \cap {"write", "delete", "mkdir"} # {},
                 {"LOCAL_MUTATION"}
                 \cup If("source" \in r.resource, {"SOURCE_MUTATION"}))
    ELSE IF r.tool \in {"database", "prisma", "psql", "sql"}
         THEN ClassifyDatabaseOperation(r.says)
    ELSE If(r.tool \in {"llm", "openai", "claude"}, {"READ_ONLY"})

ClassifyByHttpMethod(r) ==
    LET production == r.environment = "PRODUCTION"
    IN  IF r.httpMethod = "none" THEN {}
        ELSE IF r.httpMethod \in {"GET", "HEAD", "OPTIONS"}
        THEN {IF production THEN "PRODUCTION_READ" ELSE "READ_ONLY"}
        ELSE {IF production THEN "PRODUCTION_MUTATION" ELSE "LOCAL_MUTATION"}
             \cup If(r.httpMethod = "POST" /\ "auth" \in r.resource,
                     {"AUTH_SESSION_CREATION", "CREDENTIAL_USE"})
             \cup If(r.httpMethod = "POST" /\ "password reset" \in r.resource,
                     {"DATABASE_MUTATION"})
             \cup If(r.httpMethod = "DELETE", {"DESTRUCTIVE"})

\* args: the marks of the argument list. "broad" is an argument that is . or -A or
\* --all, "-a" one that is -a; "delete" is a -d in the text, "force" a -f or a
\* --force, "hard" a --hard.
ClassifyByGitOperation(op, args) ==
    CASE op = "none" -> {}
      [] op \in {"status", "log", "diff", "show", "ls-remote", "rev-parse", "branch"} ->
            IF "delete" \in args THEN {"GIT_DESTRUCTIVE"} ELSE {"READ_ONLY"}
      [] op = "add"    -> {"GIT_STAGE"} \cup If(args \cap {"broad", "-a"} # {}, {"UNKNOWN"})
      [] op = "commit" -> {"GIT_COMMIT"}
      [] op = "push"   -> {"GIT_PUSH"} \cup If("force" \in args, {"GIT_DESTRUCTIVE"})
      [] op = "reset"  -> IF "hard" \in args THEN {"GIT_DESTRUCTIVE"}
                                             ELSE {"LOCAL_MUTATION"}
      [] op = "clean"  -> {"GIT_DESTRUCTIVE"}
      [] op \in {"fetch", "ls-files"} -> {"READ_ONLY"}
      [] OTHER -> {"LOCAL_MUTATION"}

\* marks: how the rest of the command line begins.
ClassifyPrismaCommand(marks) ==
    IF "db pull" \in marks THEN {"DATABASE_READ", "SCHEMA_SOURCE_MUTATION"}
    ELSE IF "db push" \in marks THEN {"DATABASE_MUTATION", "SCHEMA_MUTATION"}
    ELSE IF marks \cap {"migrate dev", "migrate reset"} # {}
         THEN {"DATABASE_MUTATION", "SCHEMA_MUTATION", "DESTRUCTIVE"}
    ELSE IF "migrate deploy" \in marks THEN {"DATABASE_MUTATION", "SCHEMA_MUTATION"}
    ELSE IF "generate" \in marks THEN {"LOCAL_MUTATION"}
    ELSE IF "studio" \in marks THEN {"PRODUCTION_READ"}
    ELSE {"UNKNOWN"}

\* "sends": the method is not GET or HEAD; "local host": the URL is a local one.
ClassifyCurlCommand(marks) ==
    LET local == "local host" \in marks
    IN  (IF "sends" \in marks
         THEN {IF local THEN "LOCAL_MUTATION" ELSE "PRODUCTION_MUTATION"}
              \cup If("auth" \in marks, {"AUTH_SESSION_CREATION", "CREDENTIAL_USE"})
         ELSE {IF local THEN "READ_ONLY" ELSE "PRODUCTION_READ"})
        \cup If("user or password" \in marks, {"CREDENTIAL_USE"})

IsSecretReadCommand(c) ==
    \/ c.base \in {"printenv", "env"}
    \/ c.base = "echo" /\ "secretVariable" \in c.marks
    \/ "railway variables" \in c.marks
    \/ c.base = "cat" /\ "secretPath" \in c.marks
    \/ c.base \in {"grep", "rg"} /\ {"secretVariable", "secretPath"} \subseteq c.marks
    \/ c.base \in {"awk", "sed"} /\ "secretPath" \in c.marks

InspectionCommands ==
    {"cat", "ls", "pwd", "echo", "head", "tail", "wc", "find", "grep", "rg", "fd",
     "which", "type", "file", "stat", "du", "df", "uname", "date", "whoami", "id"}

\* A mutant: the force flag of a git command line is not handed on.
ClassifyGitCommand_NoForce(c) == ClassifyByGitOperation(c.sub, c.marks \ {"force"})

\* git through the shell: the second word is the operation, the rest its arguments.
ClassifyGitCommand(c) == ClassifyByGitOperation(c.sub, c.marks)

\* The first rule that applies returns. The rest of "npx prisma ..." begins with
\* prisma, which no rule for prisma knows.
ClassifyByCommand(c) ==
    IF c.base = "none" THEN {}
    ELSE IF c.base = "git" THEN ClassifyGitCommand(c)
    ELSE IF c.base = "prisma" THEN ClassifyPrismaCommand(c.marks)
    ELSE IF c.base \in {"npx", "pnpm"} /\ "prisma" \in c.marks THEN {"UNKNOWN"}
    ELSE IF c.base \in {"psql", "mysql", "sqlite3"}
         THEN {"DATABASE_READ"}
              \cup If("drops" \in c.marks, {"DATABASE_MUTATION", "DESTRUCTIVE"})
    ELSE IF c.base = "railway" \/ "railway up" \in c.marks THEN {"DEPLOYMENT"}
    ELSE IF IsSecretReadCommand(c) THEN {"SECRET_READ"}
    ELSE IF c.base \in {"curl", "wget", "httpie", "http"}
         THEN ClassifyCurlCommand(c.marks)
    ELSE IF c.base \in {"node", "npx", "tsx", "ts-node", "tee", "mv", "cp", "chmod",
                        "chown"}
         THEN {"LOCAL_MUTATION"}
    ELSE IF c.base = "cat" /\ "redirect" \in c.marks THEN {"LOCAL_MUTATION"}
    ELSE IF c.base \in {"rm", "rmdir"} THEN {"LOCAL_MUTATION", "DESTRUCTIVE"}
    ELSE IF c.base \in {"npm", "pnpm", "yarn", "bun"}
         THEN {IF "installs" \in c.marks THEN "LOCAL_MUTATION" ELSE "READ_ONLY"}
    ELSE IF c.base \in InspectionCommands THEN {"READ_ONLY"}
    ELSE {"UNKNOWN"}

ClassifyByResource(r) ==
    If("secretPath" \in r.resource \/ "secretVariable" \in r.command.marks \cup r.args,
       {"SECRET_READ"})

\* After all the others: a local mutation of production is one of production.
ClassifyByEnvironment(r, classes) ==
    IF r.environment = "PRODUCTION" /\ "LOCAL_MUTATION" \in classes
    THEN (classes \ {"LOCAL_MUTATION"}) \cup {"PRODUCTION_MUTATION"}
    ELSE classes

Classify(r) ==
    LET found == ClassifyByTool(r) \cup ClassifyByHttpMethod(r)
                 \cup ClassifyByGitOperation(r.gitOperation, r.args)
                 \cup ClassifyByCommand(r.command) \cup ClassifyByResource(r)
        classes == ClassifyByEnvironment(r, found)
    IN  IF classes = {} THEN {"UNKNOWN"} ELSE classes
-----------------------------------------------------------------------------
(* The guards, and the blanket git add that the policy engine denies.        *)
SecretFileGuard(r) == "secretPath" \in r.command.marks \cup r.args \cup r.resource

SecretOutputGuard(r) ==
    LET base == IF r.command.base = "none" THEN r.lead ELSE r.command.base
        text == r.command.marks \cup r.args
    IN  \/ base \in {"printenv", "env"}
        \/ base = "echo" /\ "secretVariable" \in text
        \/ "railway variables" \in text

SecretLiteralGuard(r) ==
    "literal" \in r.content \cup r.command.marks \cup r.args \cup r.parameters

AuthCredentialScriptGuard(r) == r.content \cap {"auth credential", "literal"} # {}

\* An argument is compared as a whole, the command line is searched. "broadly": it
\* has git add . or git add -A or git add --all in it and may go on, as in
\* git add ./a and git add -Av a; git add a . is "broad" and not "broadly".
BlanketAdd(r) ==
    /\ "GIT_STAGE" \in Classify(r)
    /\ "broad" \in r.args \/ "broadly" \in r.command.marks

Classified(toolRequest) ==
    LET r == BridgeToActionRequest(toolRequest)
    IN  [classes |-> Classify(r), files |-> r.targetFilePaths,
         barred |-> \/ SecretFileGuard(r) \/ SecretOutputGuard(r)
                    \/ SecretLiteralGuard(r) \/ AuthCredentialScriptGuard(r)
                    \/ BlanketAdd(r)]
-----------------------------------------------------------------------------
\* A request of which nothing is said.
Plain(tool, env) ==
    [tool |-> tool, says |-> {}, subcommand |-> "none", method |-> "none",
     args |-> {}, lead |-> "none", command |-> NoCommand, resource |-> {},
     content |-> {}, parameters |-> {}, paths |-> {}, target |-> {},
     environment |-> env]

\* A git operation, for the git tool and as a command line (whose arguments have
\* no blanks in them, so that both lists are the same).
GitTool(op, args, lead, files, env) ==
    [Plain("git", env) EXCEPT !.subcommand = op, !.args = args, !.lead = lead,
                              !.paths = files]
GitCommand(op, marks, files, env) ==
    [Plain("shell", env) EXCEPT !.paths = files,
        !.command = [base |-> "git", sub |-> op, marks |-> marks]]

\* Whatever a rule or a guard finds in the arguments.
GitMarks == {"broad", "-a", "delete", "force", "hard", "secretPath", "secretVariable",
             "railway variables", "literal"}

\* Every git operation on the files of a scope: broadly is said of its command
\* line, lead is its first argument if a guard knows that word.
GitCases == [op : GitSubcommands, args : SUBSET GitMarks, broadly : BOOLEAN,
             lead : {"none", "env", "printenv", "echo"}, files : Scopes,
             env : {"local", "production"}]

\* Its two spellings, classified.
AsTool(k) == Classified(GitTool(k.op, k.args, k.lead, k.files, k.env))
AsCommand(k) ==
    Classified(GitCommand(k.op, k.args \cup If(k.broadly, {"broadly"}), k.files, k.env))

\* What makes them differ: the search of the command line for a blanket add, and
\* the guard that takes the first word of "command arguments" for a program.
StagesBroadly(k) == k.op = "add" /\ k.broadly
LooksLikeADump(k) == k.lead \in {"env", "printenv"}

GitSpellings ==
    {[tool |-> AsTool(k), command |-> AsCommand(k),
      broadly |-> StagesBroadly(k), dump |-> LooksLikeADump(k)] : k \in GitCases}

\* A git operation has two ways through the classifier, the guards and the policy
\* engine, which look at arguments and command line by different rules. At every
\* gate, with every scope and whatever the owner has granted, both ways lead to
\* the same decision and the same grant, so that neither spelling gets around what
\* the other is refused, with two exceptions: a command line that reads like a
\* blanket add is refused where the tool only compares whole arguments, and the
\* tool is refused a first argument env or printenv that the command line may have.
GitIsGitInTheShell ==
    \A s \in GitSpellings :
        LET tool == Allows(s.tool)
            command == Allows(s.command)
        IN  /\ s.broadly => ~command
            /\ s.dump => ~tool
            /\ ~s.broadly /\ ~s.dump => (tool <=> command)
            /\ tool /\ command => GrantedBy(s.tool) = GrantedBy(s.command)
=============================================================================
