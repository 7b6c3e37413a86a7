\* Two attempts: the last one differs from the others.
SPECIFICATION FairSpec
CONSTANTS
  c1 = c1
  c2 = c2
  c3 = c3
  Uploads <- MCUploads
  Content <- MCContent
  Fingerprint <- MCFingerprint
  Digest <- MCDigest
  NoFile = NoFile
  NoDigest = NoDigest
  Md5Support = TRUE
  Retry = 2
INVARIANTS
  TypeOK
  CurrentWhenSignalled
PROPERTIES
  DigestVouchesForBmc
  UploadTerminates
