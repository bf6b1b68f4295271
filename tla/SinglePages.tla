---------------------------- MODULE SinglePages ----------------------------
(***************************************************************************)
(* The pages of the plugin one by one: the constants that each is given,   *)
(* and the variables that they share, of which a behaviour has one page    *)
(* only.  PluginPages mounts them.                                         *)
(***************************************************************************)
EXTENDS Integers, Sequences

CONSTANTS
  FoldersOf,     \* the folders that a page knows
  Most,          \* the bounds of the pages, by name
  Views, Charts, Parts, MajorVersion, MaxPoints,  \* of PanelPreview
  Widths,        \* the least, the first and the greatest width of WorkbenchFrame
  Requests,      \* of WorkbenchDialogs
  Seeded, Added, \* of FixtureWorkbench
  DefaultFolder, \* of FolderShell
  Writable, Tools,        \* of SkillsPage
  Admins, Target,         \* of GovernancePages
  FolderOf, Seed,         \* of AlertsPage
  Entries,       \* approvals, and alerts
  None

VARIABLES page, calls, store  \* of most pages

Panels == INSTANCE PanelPreview WITH MaxRetries <- Most.retries

Drawer ==
  INSTANCE WorkbenchContext WITH Folders <- FoldersOf["drawer"], MaxCalls <- Most.drawerCalls
Frame ==
  INSTANCE WorkbenchFrame WITH
    Minimum <- Widths.least, Default <- Widths.first, Maximum <- Widths.greatest
Dialogs ==
  INSTANCE WorkbenchDialogs WITH MaxAttachments <- Most.attachments, Fixture <- TRUE
Fixture ==
  INSTANCE FixtureWorkbench WITH
    Folders <- FoldersOf["fixture"], Fresh <- Added, MaxCalls <- Most.fixtureCalls
Shell ==
  INSTANCE FolderShell WITH
    Folders <- FoldersOf["shell"], Default <- DefaultFolder, MaxRequests <- Most.shellRequests

Knowledge ==
  INSTANCE KnowledgePage WITH
    Folders <- FoldersOf["knowledge"], MaxBases <- Most.bases, MaxDocuments <- Most.documents,
    MaxCalls <- Most.knowledgeCalls
\* LegacyKnowledgePage, over its fixtures.
Legacy ==
  INSTANCE FixtureKnowledge WITH
    Folders <- FoldersOf["knowledge"], MaxServices <- Most.services, MaxItems <- Most.items,
    MaxTasks <- Most.tasks, MaxVersion <- Most.itemVersions, MaxCalls <- Most.itemCalls

\* One for the list and the editor, and one for the runs of a playbook that is there.
Playbooks ==
  INSTANCE PlaybookPage WITH
    Folders <- FoldersOf["playbooks"], MaxKeys <- Most.keys, MaxEditors <- Most.editors,
    MaxRuns <- 0, MaxCalls <- Most.playbookCalls
PlaybookRuns ==
  INSTANCE PlaybookPage WITH
    Folders <- FoldersOf["runs"], MaxKeys <- 0, MaxEditors <- 0, MaxRuns <- Most.runs,
    MaxCalls <- Most.runCalls

Skills ==
  INSTANCE SkillsPage WITH
    Folders <- FoldersOf["skills"], MaxSkills <- Most.skills, MaxVersion <- Most.skillVersions,
    MaxRuns <- Most.skillRuns, MaxCalls <- Most.skillCalls
Governance ==
  INSTANCE GovernancePages WITH Folders <- FoldersOf["governance"], Items <- Entries
Alerts ==
  INSTANCE AlertsPage WITH
    Folders <- FoldersOf["alerts"], Items <- Entries, Keyed <- TRUE, MaxSaves <- Most.saves

=============================================================================
