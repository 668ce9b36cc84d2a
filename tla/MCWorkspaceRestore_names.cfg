SPECIFICATION Spec
CONSTANTS
  src = src
  lib = lib
  main = main
  build = build
  git = git
  Paths <- MCPaths
  Contents = {v1, v2}
  Dir = dir
  Link = link
  Always = {git}
  Volatile = {build}
  MaxFiles = 2
INVARIANTS
  CapturedIsRestorable
